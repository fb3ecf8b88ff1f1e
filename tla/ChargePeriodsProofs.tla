------------------------- MODULE ChargePeriodsProofs -------------------------
(***************************************************************************)
(* Theorems about ChargePeriods, for any number of service calls, any      *)
(* requests that the schemas let through and any values of the registers.  *)
(***************************************************************************)
EXTENDS ChargePeriods, TLAPS

-------------------------------------------------------------------------------
(***************************************************************************)
(* A time goes from a register to the service and back unchanged.          *)
(***************************************************************************)

LEMMA BytesOfWord ==
  ASSUME NEW value \in Int, 0 <= value, value <= 65535
  PROVE  /\ value % 65536 = value
         /\ ((value \div 256) * 256) + (value % 256) = value
         /\ 0 <= value \div 256 /\ 0 <= value % 256
         /\ value \div 256 \in Int /\ value % 256 \in Int
<1>1. value % 65536 = value
  OBVIOUS
<1>2. ((value \div 256) * 256) + (value % 256) = value
  OBVIOUS
<1>3. 0 <= value \div 256 /\ value \div 256 \in Int
  OBVIOUS
<1>4. 0 <= value % 256 /\ value % 256 \in Int
  OBVIOUS
<1> QED
  BY <1>1, <1>2, <1>3, <1>4

LEMMA TimeKept ==
  ASSUME NEW value \in Word, is_time_value_valid(value)
  PROVE  /\ parse_time_value(value) \in Time
         /\ serialize_time_to_value(parse_time_value(value)) = value
<1>1. value \in Int /\ 0 <= value /\ value <= 65535
  BY DEF Word, MaxWord
<1>2. Hour(value) = value \div 256 /\ Minute(value) = value % 256
  BY <1>1, BytesOfWord DEF Hour, Minute
<1>3. /\ Hour(value) \in Int /\ 0 <= Hour(value) /\ Minute(value) \in Int /\ 0 <= Minute(value)
      /\ (Hour(value) * 256) + Minute(value) = value
  BY <1>1, <1>2, BytesOfWord
<1> HIDE DEF Hour, Minute
<1>4. Hour(value) \in 0 .. 23 /\ Minute(value) \in 0 .. 59
  BY <1>3 DEF is_time_value_valid
<1> QED
  BY <1>3, <1>4 DEF parse_time_value, serialize_time_to_value, Time

LEMMA TimesAreValid ==
  ASSUME NEW time \in Time
  PROVE  /\ serialize_time_to_value(time) \in Word
         /\ is_time_value_valid(serialize_time_to_value(time))
<1> DEFINE h == time.hour
           m == time.minute
           value == (h * 256) + m
<1>1. h \in Int /\ 0 <= h /\ h <= 23 /\ m \in Int /\ 0 <= m /\ m <= 59
  BY DEF Time
<1> HIDE DEF h, m
<1>2. value \in Int /\ 0 <= value /\ value <= 65535
  BY <1>1
<1>3. value \div 256 = h /\ value % 256 = m
  <2>1. value \div 256 = h
    BY <1>1
  <2>2. value % 256 = m
    BY <1>1
  <2> QED
    BY <2>1, <2>2
<1> HIDE DEF value
<1>4. value % 65536 = value
  BY <1>2, BytesOfWord
<1>5. Hour(value) = h /\ Minute(value) = m
  BY <1>3, <1>4 DEF Hour, Minute
<1>6. is_time_value_valid(value)
  BY <1>1, <1>5 DEF is_time_value_valid
<1>7. MaxWord \in Int /\ value <= MaxWord
  BY <1>2 DEF MaxWord
<1>8. value \in Word
  BY <1>2, <1>7 DEF Word
<1> QED
  BY <1>6, <1>8 DEF serialize_time_to_value, value, h, m

ValidTimes(window) == is_time_value_valid(window.start) /\ is_time_value_valid(window.end)

\* What the services write for a ChargePeriod.
LEMMA EncodesTimes ==
  ASSUME NEW period \in ChargePeriod
  PROVE  Encode(period) \in Window /\ ValidTimes(Encode(period))
<1>1. /\ serialize_time_to_value(period.start) \in Word
      /\ is_time_value_valid(serialize_time_to_value(period.start))
      /\ serialize_time_to_value(period.end) \in Word
      /\ is_time_value_valid(serialize_time_to_value(period.end))
  BY TimesAreValid DEF ChargePeriod
<1>2. 0 \in Word /\ 1 \in Word /\ is_time_value_valid(0)
  BY DEF Word, MaxWord, is_time_value_valid, Hour, Minute
<1>3. Encode(period).start \in Word /\ Encode(period).end \in Word /\ Encode(period).grid \in Word
  BY <1>1, <1>2 DEF Encode
<1> QED
  BY <1>1, <1>2, <1>3 DEF Encode, Window, ValidTimes

\* A period that is filled in is written as the cache has it, whether or not it starts
\* or ends at midnight.
LEMMA CachedPeriodKept ==
  ASSUME NEW p \in Period, Cached(p) \in Window, Available(p)
  PROVE  /\ CachedPeriod(p) \in ChargePeriod
         /\ SamePeriod(Encode(CachedPeriod(p)), Cached(p))
<1> DEFINE w == Cached(p)
<1>1. /\ w.start \in Word /\ w.end \in Word /\ w.grid \in Word
      /\ is_time_value_valid(w.start) /\ is_time_value_valid(w.end)
  BY DEF Available, Window
<1> HIDE DEF w
<1>2. /\ parse_time_value(w.start) \in Time /\ parse_time_value(w.end) \in Time
      /\ serialize_time_to_value(parse_time_value(w.start)) = w.start
      /\ serialize_time_to_value(parse_time_value(w.end)) = w.end
  BY <1>1, TimeKept
<1>3. CachedPeriod(p) =
        [enable_force_charge |-> _is_force_charge_enabled(w.start, w.end),
         enable_charge_from_grid |-> w.grid > 0,
         start |-> parse_time_value(w.start), end |-> parse_time_value(w.end)]
  BY DEF CachedPeriod, w
<1>4. CachedPeriod(p) \in ChargePeriod
  BY <1>2, <1>3 DEF ChargePeriod, _is_force_charge_enabled
<1> DEFINE e == Encode(CachedPeriod(p))
<1>5. /\ e.start = IF w.start > 0 \/ w.end > 0
                   THEN serialize_time_to_value(parse_time_value(w.start)) ELSE 0
      /\ e.end = IF w.start > 0 \/ w.end > 0
                 THEN serialize_time_to_value(parse_time_value(w.end)) ELSE 0
      /\ e.grid = IF w.grid > 0 THEN 1 ELSE 0
  <2>1. /\ CachedPeriod(p).enable_force_charge = (w.start > 0 \/ w.end > 0)
        /\ CachedPeriod(p).enable_charge_from_grid = (w.grid > 0)
        /\ CachedPeriod(p).start = parse_time_value(w.start)
        /\ CachedPeriod(p).end = parse_time_value(w.end)
    BY <1>3 DEF _is_force_charge_enabled
  <2>2. /\ e.start = IF CachedPeriod(p).enable_force_charge
                     THEN serialize_time_to_value(CachedPeriod(p).start) ELSE 0
        /\ e.end = IF CachedPeriod(p).enable_force_charge
                   THEN serialize_time_to_value(CachedPeriod(p).end) ELSE 0
        /\ e.grid = IF CachedPeriod(p).enable_charge_from_grid THEN 1 ELSE 0
    BY Zenon DEF Encode
  <2> QED
    BY <2>1, <2>2, Zenon
<1> HIDE DEF e
<1>6. e.start = w.start /\ e.end = w.end /\ (e.grid > 0 <=> w.grid > 0)
  BY <1>1, <1>2, <1>5 DEF Word
<1>7. SamePeriod(e, w)
  BY <1>6 DEF SamePeriod
<1> QED
  BY <1>4, <1>7 DEF e, w

-------------------------------------------------------------------------------
(***************************************************************************)
(* The inductive invariant.  Whatever a cache, a poll or a call that got   *)
(* through knows of a period is a window that the inverter held; what a    *)
(* call under way fills in agrees with one.                                *)
(***************************************************************************)

Registers == [Period -> Window]

Held(values) == \A p \in Period : values[p] \in held[p]

TypeInv ==
  /\ inverter \in Registers
  /\ read \in Registers \cup {None}
  /\ written \in Registers \cup {None}
  /\ poll \in Registers \cup {None}
  /\ call \in [Caller -> {Idle} \cup
       [state : {"writing", "applied"}, sets : SUBSET Period, values : Registers]]
  /\ shown \in [Period -> [start : Word, end : Word] \cup {None}]
  /\ held \in [Period -> SUBSET Window]

CacheInv ==
  /\ Held(inverter)
  /\ read # None => Held(read)
  /\ written # None => Held(written)
  /\ poll # None => Held(poll)

WritesWell(c) ==
  call[c].state # "idle" =>
    /\ \A p \in Period : ValidTimes(call[c].values[p])
    /\ \A p \in Period \ call[c].sets : \E old \in held[p] : SamePeriod(call[c].values[p], old)
    /\ call[c].state = "applied" => Held(call[c].values)

CallInv == \A c \in Caller : WritesWell(c)

IInv == TypeInv /\ CacheInv /\ CallInv /\ ShowsOneWindow

LEMMA InitInv == Init => IInv
<1> SUFFICES ASSUME Init PROVE IInv
  OBVIOUS
<1>1. inverter \in Registers
  BY ChargePeriodsAssumption DEF Init, Registers
<1>2. held \in [Period -> SUBSET Window]
  BY <1>1 DEF Init, Registers
<1>3. call \in [Caller -> {Idle} \cup
        [state : {"writing", "applied"}, sets : SUBSET Period, values : Registers]]
  BY DEF Init
<1>4. shown \in [Period -> [start : Word, end : Word] \cup {None}]
  BY DEF Init
<1>5. TypeInv
  BY <1>1, <1>2, <1>3, <1>4 DEF Init, TypeInv
<1>6. CacheInv
  BY DEF Init, CacheInv, Held
<1>7. CallInv /\ ShowsOneWindow
  BY DEF Init, CallInv, WritesWell, ShowsOneWindow, Idle
<1> QED
  BY <1>5, <1>6, <1>7 DEF IInv

\* What a service call finds in the cache, the inverter held.
LEMMA CachedWasHeld ==
  ASSUME TypeInv, CacheInv, NEW p \in Period, Cached(p) # None
  PROVE  Cached(p) \in Window /\ Cached(p) \in held[p]
<1>1. CASE written # None
  BY <1>1 DEF Cached, TypeInv, CacheInv, Held, Registers
<1>2. CASE written = None /\ read # None
  BY <1>2 DEF Cached, TypeInv, CacheInv, Held, Registers
<1> QED
  BY <1>1, <1>2 DEF Cached

\* A call begins.
LEMMA BeginInv ==
  ASSUME IInv, NEW c \in Caller, NEW sets \in SUBSET Period, NEW values \in Registers,
         Begin(c, sets, values),
         \A p \in Period : ValidTimes(values[p]),
         \A p \in Period \ sets : \E old \in held[p] : SamePeriod(values[p], old)
  PROVE  IInv'
<1> DEFINE new == [state |-> "writing", sets |-> sets, values |-> values]
<1>1. /\ call' = [call EXCEPT ![c] = new]
      /\ UNCHANGED <<inverter, read, written, poll, shown, held>>
  BY DEF Begin
<1>2. TypeInv'
  BY <1>1 DEF IInv, TypeInv
<1>3. CacheInv' /\ ShowsOneWindow'
  BY <1>1 DEF IInv, CacheInv, ShowsOneWindow, Held
<1>4. ASSUME NEW d \in Caller
      PROVE  WritesWell(d)'
  <2>1. CASE d = c
    <3>1. call'[d] = new
      BY <1>1, <2>1 DEF IInv, TypeInv
    <3> QED
      BY <1>1, <3>1 DEF WritesWell
  <2>2. CASE d # c
    <3>1. call'[d] = call[d]
      BY <1>1, <2>2 DEF IInv, TypeInv
    <3> QED
      BY <1>1, <3>1 DEF IInv, CallInv, WritesWell, Held
  <2> QED
    BY <2>1, <2>2
<1>5. CallInv'
  BY <1>4 DEF CallInv
<1> QED
  BY <1>2, <1>3, <1>5 DEF IInv

LEMMA UpdateInv ==
  ASSUME IInv, NEW c \in Caller, NEW p \in Period, NEW request \in Requests,
         _update_charge_period(c, p, request)
  PROVE  IInv'
<1> DEFINE values == [q \in Period |-> IF q = p THEN Encode(request) ELSE Encode(CachedPeriod(q))]
<1>1. Encode(request) \in Window /\ ValidTimes(Encode(request))
  BY EncodesTimes, ChargePeriodsAssumption
<1>2. ASSUME NEW q \in Period \ {p}
      PROVE  /\ Encode(CachedPeriod(q)) \in Window /\ ValidTimes(Encode(CachedPeriod(q)))
             /\ Cached(q) \in held[q] /\ SamePeriod(Encode(CachedPeriod(q)), Cached(q))
  <2>1. Available(q) /\ Cached(q) # None
    BY DEF _update_charge_period, Available
  <2>2. Cached(q) \in Window /\ Cached(q) \in held[q]
    BY <2>1, CachedWasHeld DEF IInv
  <2> QED
    BY <2>1, <2>2, CachedPeriodKept, EncodesTimes
<1>3. values \in Registers
  BY <1>1, <1>2 DEF Registers
<1>4. \A q \in Period : ValidTimes(values[q])
  BY <1>1, <1>2
<1>5. \A q \in Period \ {p} : \E old \in held[q] : SamePeriod(values[q], old)
  BY <1>2
<1>6. Begin(c, {p}, values)
  BY DEF _update_charge_period
<1> HIDE DEF values
<1> QED
  BY <1>3, <1>4, <1>5, <1>6, BeginInv

LEMMA UpdateAllInv ==
  ASSUME IInv, NEW c \in Caller, NEW requests \in [Period -> Requests],
         _update_all_charge_periods(c, requests)
  PROVE  IInv'
<1> DEFINE values == [p \in Period |-> Encode(requests[p])]
<1>1. \A p \in Period : Encode(requests[p]) \in Window /\ ValidTimes(Encode(requests[p]))
  BY EncodesTimes, ChargePeriodsAssumption
<1>2. values \in Registers /\ \A p \in Period : ValidTimes(values[p])
  BY <1>1 DEF Registers
<1>3. Begin(c, Period, values)
  BY DEF _update_all_charge_periods
<1> HIDE DEF values
<1> QED
  BY <1>2, <1>3, BeginInv

\* The history only grows, and what was held stays so.
LEMMA TakesKeeps ==
  ASSUME IInv, NEW values \in Registers, Takes(values)
  PROVE  /\ inverter' \in Registers /\ Held(inverter)'
         /\ held' \in [Period -> SUBSET Window]
         /\ \A p \in Period : held[p] \subseteq held'[p] /\ values[p] \in held'[p]
<1>1. /\ inverter' = values
      /\ held' = [p \in Period |-> held[p] \cup {values[p]}]
  BY DEF Takes
<1>2. \A p \in Period : values[p] \in Window /\ held[p] \in SUBSET Window
  BY DEF IInv, TypeInv, Registers
<1> QED
  BY <1>1, <1>2 DEF Held

\* The write of a call, or somebody at the panel, changes the registers.
LEMMA HistoryGrows ==
  ASSUME IInv, NEW values \in Registers, Takes(values),
         UNCHANGED <<read, written, poll, shown>>,
         call' \in [Caller -> {Idle} \cup
           [state : {"writing", "applied"}, sets : SUBSET Period, values : Registers]],
         \A c \in Caller :
           \/ call'[c] = call[c]
           \/ /\ call[c].state # "idle" /\ call[c].values = values
              /\ call'[c].values = values /\ call'[c].sets = call[c].sets
  PROVE  IInv'
<1>1. /\ inverter' \in Registers /\ Held(inverter)'
      /\ held' \in [Period -> SUBSET Window]
      /\ \A p \in Period : held[p] \subseteq held'[p] /\ values[p] \in held'[p]
  BY TakesKeeps
<1>2. TypeInv'
  BY <1>1 DEF IInv, TypeInv
<1>3. CacheInv'
  BY <1>1 DEF IInv, CacheInv, Held
<1>4. ShowsOneWindow'
  BY <1>1 DEF IInv, ShowsOneWindow
<1>5. ASSUME NEW c \in Caller
      PROVE  WritesWell(c)'
  <2>1. CASE call'[c] = call[c]
    BY <1>1, <2>1 DEF IInv, CallInv, WritesWell, Held
  <2>2. CASE /\ call[c].state # "idle" /\ call[c].values = values
             /\ call'[c].values = values /\ call'[c].sets = call[c].sets
    BY <1>1, <2>2 DEF IInv, CallInv, WritesWell, Held
  <2> QED
    BY <2>1, <2>2
<1>6. CallInv'
  BY <1>5 DEF CallInv
<1> QED
  BY <1>2, <1>3, <1>4, <1>6 DEF IInv

LEMMA AppliedInv ==
  ASSUME IInv, NEW c \in Caller, Applied(c)
  PROVE  IInv'
<1>1. /\ call[c].state = "writing" /\ Takes(call[c].values)
      /\ call' = [call EXCEPT ![c].state = "applied"]
      /\ UNCHANGED <<read, written, poll, shown>>
  BY DEF Applied
<1>2. call[c] \in [state : {"writing", "applied"}, sets : SUBSET Period, values : Registers]
  BY <1>1 DEF IInv, TypeInv, Idle
<1>3. call' \in [Caller -> {Idle} \cup
        [state : {"writing", "applied"}, sets : SUBSET Period, values : Registers]]
  BY <1>1, <1>2 DEF IInv, TypeInv
<1>4. /\ call'[c].values = call[c].values /\ call'[c].sets = call[c].sets
      /\ \A d \in Caller \ {c} : call'[d] = call[d]
  BY <1>1, <1>2 DEF IInv, TypeInv
<1> QED
  BY <1>1, <1>2, <1>3, <1>4, HistoryGrows

LEMMA SetAtPanelInv ==
  ASSUME IInv, NEW p \in Period, NEW values \in PanelValues, SetAtPanel(p, values)
  PROVE  IInv'
<1>1. [inverter EXCEPT ![p] = values] \in Registers
  BY ChargePeriodsAssumption DEF IInv, TypeInv, Registers
<1>2. /\ Takes([inverter EXCEPT ![p] = values])
      /\ UNCHANGED <<read, written, poll, call, shown>>
  BY DEF SetAtPanel
<1> QED
  BY <1>1, <1>2, HistoryGrows DEF IInv, TypeInv

\* The sensors take both ends from one reading.
LEMMA AddressUpdated ==
  ASSUME IInv, NEW values \in Registers, Held(values),
         shown' = _address_updated(values, shown), UNCHANGED held
  PROVE  /\ shown' \in [Period -> [start : Word, end : Word] \cup {None}]
         /\ ShowsOneWindow'
<1>1. ASSUME NEW p \in Period
      PROVE  \/ shown'[p] = shown[p]
             \/ /\ shown'[p] = [start |-> values[p].start, end |-> values[p].end]
                /\ values[p] \in Window /\ values[p] \in held'[p]
  BY DEF _address_updated, Held, Registers
<1>2. \A p \in Period : shown[p] \in [start : Word, end : Word] \cup {None}
  BY DEF IInv, TypeInv
<1>3. ASSUME NEW p \in Period
      PROVE  shown'[p] \in [start : Word, end : Word] \cup {None}
  <2>1. CASE shown'[p] = shown[p]
    BY <1>2, <2>1
  <2>2. CASE /\ shown'[p] = [start |-> values[p].start, end |-> values[p].end]
             /\ values[p] \in Window
    <3>1. values[p].start \in Word /\ values[p].end \in Word
      BY <2>2 DEF Window
    <3> QED
      BY <2>2, <3>1
  <2> QED
    BY <1>1, <2>1, <2>2
<1>4. shown' \in [Period -> [start : Word, end : Word] \cup {None}]
  BY <1>3 DEF _address_updated
<1>5. ASSUME NEW p \in Period, shown'[p] # None
      PROVE  \E old \in held'[p] : old.start = shown'[p].start /\ old.end = shown'[p].end
  <2>1. CASE shown'[p] = shown[p]
    BY <1>5, <2>1 DEF IInv, ShowsOneWindow
  <2>2. CASE /\ shown'[p] = [start |-> values[p].start, end |-> values[p].end]
             /\ values[p] \in held'[p]
    BY <2>2
  <2> QED
    BY <1>1, <2>1, <2>2
<1> QED
  BY <1>4, <1>5 DEF ShowsOneWindow

\* A call ends.
LEMMA CallEnds ==
  ASSUME IInv, NEW c \in Caller, call' = [call EXCEPT ![c] = Idle], UNCHANGED held
  PROVE  /\ call' \in [Caller -> {Idle} \cup
              [state : {"writing", "applied"}, sets : SUBSET Period, values : Registers]]
         /\ CallInv'
<1>1. call'[c] = Idle /\ \A d \in Caller \ {c} : call'[d] = call[d]
  BY DEF IInv, TypeInv
<1>2. call'[c].state = "idle"
  BY <1>1 DEF Idle
<1> QED
  BY <1>1, <1>2 DEF IInv, TypeInv, CallInv, WritesWell, Held

LEMMA SucceedsInv ==
  ASSUME IInv, NEW c \in Caller, Succeeds(c)
  PROVE  IInv'
<1>1. call[c].values \in Registers /\ Held(call[c].values)
  BY DEF Succeeds, IInv, TypeInv, CallInv, WritesWell, Idle
<1>2. CallInv' /\ call' \in [Caller -> {Idle} \cup
        [state : {"writing", "applied"}, sets : SUBSET Period, values : Registers]]
  BY CallEnds DEF Succeeds
<1>3. ShowsOneWindow' /\ shown' \in [Period -> [start : Word, end : Word] \cup {None}]
  BY <1>1, AddressUpdated DEF Succeeds
<1>4. TypeInv' /\ CacheInv'
  BY <1>1, <1>2, <1>3 DEF Succeeds, IInv, TypeInv, CacheInv, Held
<1> QED
  BY <1>2, <1>3, <1>4 DEF IInv

LEMMA PollRecordsInv ==
  ASSUME IInv, PollRecords
  PROVE  IInv'
<1> DEFINE now == IF written # None THEN written ELSE poll
<1>1. now \in Registers /\ Held(now)
  BY DEF PollRecords, IInv, TypeInv, CacheInv
<1>2. shown' = _address_updated(now, shown) /\ UNCHANGED held
  BY DEF PollRecords
<1> HIDE DEF now
<1>3. ShowsOneWindow' /\ shown' \in [Period -> [start : Word, end : Word] \cup {None}]
  BY <1>1, <1>2, AddressUpdated
<1>4. TypeInv' /\ CacheInv' /\ CallInv'
  BY <1>3 DEF PollRecords, IInv, TypeInv, CacheInv, CallInv, WritesWell, Held
<1> QED
  BY <1>3, <1>4 DEF IInv

LEMMA NextInv == IInv /\ [Next]_vars => IInv'
<1> SUFFICES ASSUME IInv, [Next]_vars PROVE IInv'
  OBVIOUS
<1>1. CASE UNCHANGED vars
  BY <1>1 DEF vars, IInv, TypeInv, CacheInv, CallInv, WritesWell, ShowsOneWindow, Held
<1>2. ASSUME NEW c \in Caller, Fails(c)
      PROVE  IInv'
  <2>1. CallInv' /\ call' \in [Caller -> {Idle} \cup
          [state : {"writing", "applied"}, sets : SUBSET Period, values : Registers]]
    BY <1>2, CallEnds DEF Fails
  <2> QED
    BY <1>2, <2>1 DEF Fails, IInv, TypeInv, CacheInv, ShowsOneWindow, Held
<1>3. CASE WriteDelayOver \/ PollReads \/ PollFails
  BY <1>3 DEF WriteDelayOver, PollReads, PollFails, IInv, TypeInv, CacheInv, CallInv, WritesWell,
              ShowsOneWindow, Held
<1>4. CASE Restart
  <2>1. \A c \in Caller : call'[c].state = "idle"
    BY <1>4 DEF Restart, Idle
  <2>2. call' \in [Caller -> {Idle} \cup
          [state : {"writing", "applied"}, sets : SUBSET Period, values : Registers]]
    BY <1>4 DEF Restart
  <2> QED
    BY <1>4, <2>1, <2>2 DEF Restart, IInv, TypeInv, CacheInv, CallInv, WritesWell, ShowsOneWindow, Held
<1> QED
  BY <1>1, <1>2, <1>3, <1>4, UpdateInv, UpdateAllInv, AppliedInv, SucceedsInv, PollRecordsInv,
     SetAtPanelInv DEF Next

LEMMA AlwaysIInv == Spec => []IInv
<1> QED
  BY InitInv, NextInv, PTL DEF Spec

-------------------------------------------------------------------------------
(***************************************************************************)
(* The theorems.                                                           *)
(***************************************************************************)

\* A period that a call does not set is written with a window that the inverter
\* held for that period, however the calls, polls and the panel interleave.
THEOREM WhatWasThereIsFilledIn == Spec => []FillsInWhatWasThere
<1>1. IInv => FillsInWhatWasThere
  BY DEF IInv, CallInv, WritesWell, FillsInWhatWasThere
<1> QED
  BY <1>1, AlwaysIInv, PTL

\* The start and the end that are shown for a disabled period belong together.
THEOREM OneWindowIsShown == Spec => []ShowsOneWindow
<1>1. IInv => ShowsOneWindow
  BY DEF IInv
<1> QED
  BY <1>1, AlwaysIInv, PTL

\* No request and nothing the cache may hold makes a service write a time that is
\* not one.
THEOREM TimesAreWritten == Spec => []WritesTimes
<1>1. IInv => WritesTimes
  BY DEF IInv, CallInv, WritesWell, WritesTimes, ValidTimes
<1> QED
  BY <1>1, AlwaysIInv, PTL
===============================================================================
