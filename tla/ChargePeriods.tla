---------------------------- MODULE ChargePeriods ----------------------------
(***************************************************************************)
(* The charge period services and the sensors of the charge periods.  A    *)
(* service call fills in the periods it does not set from the controller's *)
(* cache and writes the registers of all the periods at once, while polls, *)
(* other calls and the inverter's own panel go on.                         *)
(***************************************************************************)
EXTENDS Integers, FiniteSets

CONSTANTS
  Caller,      \* service calls that may be under way at once
  Requests,    \* what a caller may ask for a period, as the schema lets through
  PanelValues, \* what somebody may set a period to at the inverter
  None,
  MaxCalls, MaxPanel   \* bounds on the calls and on the changes at the panel

Period == {1, 2}

MaxWord == 65535

Word == 0 .. MaxWord   \* what a register holds

Window == [start : Word, end : Word, grid : Word]   \* the registers of a period

Time == [hour : 0 .. 23, minute : 0 .. 59]

\* A ChargePeriod, as the services' schemas make it: cv.boolean and cv.time.
ChargePeriod ==
  [enable_force_charge : BOOLEAN, enable_charge_from_grid : BOOLEAN, start : Time, end : Time]

ASSUME ChargePeriodsAssumption ==
  /\ Requests \subseteq ChargePeriod
  /\ PanelValues \subseteq Window

VARIABLES
  inverter,    \* the registers: period -> [start, end, grid]
  read,        \* the values of the last poll, or None
  written,     \* the last written values while _INVERTER_WRITE_DELAY_SECS last, or None
  poll,        \* what a poll under way has read, or None
  call,        \* the state of each service call
  shown,       \* period -> _last_enabled_value of its start and end sensors, or None
  held,        \* history: period -> the values that the inverter has held
  calls, panel \* bounded counters

vars == <<inverter, read, written, poll, call, shown, held, calls, panel>>

-----------------------------------------------------------------------------
(* Times: the high byte is the hour and the low byte the minute.           *)
Hour(value) == (value % 65536) \div 256
Minute(value) == value % 256

is_time_value_valid(value) == Hour(value) <= 23 /\ Minute(value) <= 59

parse_time_value(value) == [hour |-> Hour(value), minute |-> Minute(value)]

serialize_time_to_value(time) == time.hour * 256 + time.minute

_is_force_charge_enabled(start, end) == start > 0 \/ end > 0

-----------------------------------------------------------------------------
(* ChargePeriod, and the registers that stand for one.                     *)
Cached(p) == IF written # None THEN written[p] ELSE IF read # None THEN read[p] ELSE None

CachedPeriod(p) ==
  [enable_force_charge |-> _is_force_charge_enabled(Cached(p).start, Cached(p).end),
   enable_charge_from_grid |-> Cached(p).grid > 0,
   start |-> parse_time_value(Cached(p).start), end |-> parse_time_value(Cached(p).end)]

Encode(period) ==
  [start |-> IF period.enable_force_charge THEN serialize_time_to_value(period.start) ELSE 0,
   end   |-> IF period.enable_force_charge THEN serialize_time_to_value(period.end) ELSE 0,
   grid  |-> IF period.enable_charge_from_grid THEN 1 ELSE 0]

AvailableAnyhow(p) == Cached(p) # None   \* mutant: does not look at the times

Available(p) ==
  Cached(p) # None /\ is_time_value_valid(Cached(p).start) /\ is_time_value_valid(Cached(p).end)

-----------------------------------------------------------------------------
Idle == [state |-> "idle"]

Begin(c, sets, values) ==
  /\ calls < MaxCalls /\ calls' = calls + 1
  /\ call[c].state = "idle"
  /\ call' = [call EXCEPT ![c] = [state |-> "writing", sets |-> sets, values |-> values]]
  /\ UNCHANGED <<inverter, read, written, poll, shown, held, panel>>

FillsInHalf(c, p, request) ==   \* mutant: fills in only one end of a period
  Begin(c, {p}, [q \in Period |->
    IF q = p THEN Encode(request)
    ELSE IF Cached(q) = None THEN Encode(request)
    ELSE [Encode(CachedPeriod(q)) EXCEPT !.end = Encode(request).end]])

\* update_charge_period; a period that is not set now but cannot be filled in
\* is an error, and nothing happens.
_update_charge_period(c, p, request) ==
  /\ \A q \in Period \ {p} : Available(q)
  /\ Begin(c, {p}, [q \in Period |->
       IF q = p THEN Encode(request) ELSE Encode(CachedPeriod(q))])

_update_all_charge_periods(c, requests) ==
  Begin(c, Period, [p \in Period |-> Encode(requests[p])])

-----------------------------------------------------------------------------
(* The write reaches the inverter in one request.                          *)
Takes(values) ==
  /\ inverter' = values
  /\ held' = [p \in Period |-> held[p] \union {values[p]}]

Applied(c) ==
  /\ call[c].state = "writing"
  /\ Takes(call[c].values)
  /\ call' = [call EXCEPT ![c].state = "applied"]
  /\ UNCHANGED <<read, written, poll, shown, calls, panel>>

\* _address_updated of a start and an end sensor.
EachForItself(values, old) ==   \* mutant: does not ask the other end
  [p \in Period |->
     IF values[p] = None THEN old[p]
     ELSE [start |-> IF values[p].start > 0 THEN values[p].start
                     ELSE IF old[p] = None THEN 0 ELSE old[p].start,
           end   |-> IF values[p].end > 0 THEN values[p].end
                     ELSE IF old[p] = None THEN 0 ELSE old[p].end]]

_address_updated(values, old) ==
  [p \in Period |->
     IF /\ values[p] # None
        /\ is_time_value_valid(values[p].start) /\ is_time_value_valid(values[p].end)
        /\ _is_force_charge_enabled(values[p].start, values[p].end)
     THEN [start |-> values[p].start, end |-> values[p].end]
     ELSE old[p]]

\* The reply, or a read-back that matches: the write is recorded.
Succeeds(c) ==
  /\ call[c].state = "applied"
  /\ written' = call[c].values
  /\ shown' = _address_updated(call[c].values, shown)
  /\ call' = [call EXCEPT ![c] = Idle]
  /\ UNCHANGED <<inverter, read, poll, held, calls, panel>>

\* The write did not get to the inverter, or nothing confirmed that it did.
Fails(c) ==
  /\ call[c].state # "idle"
  /\ call' = [call EXCEPT ![c] = Idle]
  /\ UNCHANGED <<inverter, read, written, poll, shown, held, calls, panel>>

WriteDelayOver ==
  /\ written # None
  /\ written' = None
  /\ UNCHANGED <<inverter, read, poll, call, shown, held, calls, panel>>

-----------------------------------------------------------------------------
(* A poll reads the registers in one request and records them later.       *)
PollReads ==
  /\ poll = None
  /\ poll' = inverter
  /\ UNCHANGED <<inverter, read, written, call, shown, held, calls, panel>>

PollRecords ==
  /\ poll # None
  /\ read' = poll /\ poll' = None
  /\ shown' = _address_updated(IF written # None THEN written ELSE poll, shown)
  /\ UNCHANGED <<inverter, written, call, held, calls, panel>>

PollFails ==
  /\ poll # None
  /\ poll' = None
  /\ UNCHANGED <<inverter, read, written, call, shown, held, calls, panel>>

SetAtPanel(p, values) ==
  /\ panel < MaxPanel /\ panel' = panel + 1
  /\ Takes([inverter EXCEPT ![p] = values])
  /\ UNCHANGED <<read, written, poll, call, shown, calls>>

\* Home Assistant restarts: the calls are gone, the sensors' values restored.
Restart ==
  /\ read' = None /\ written' = None /\ poll' = None
  /\ call' = [c \in Caller |-> Idle]
  /\ UNCHANGED <<inverter, shown, held, calls, panel>>

-----------------------------------------------------------------------------
Init ==
  /\ inverter \in [Period -> PanelValues]
  /\ read = None /\ written = None /\ poll = None
  /\ call = [c \in Caller |-> Idle]
  /\ shown = [p \in Period |-> None]
  /\ held = [p \in Period |-> {inverter[p]}]
  /\ calls = 0 /\ panel = 0

Next ==
  \/ \E c \in Caller, p \in Period, request \in Requests : _update_charge_period(c, p, request)
  \/ \E c \in Caller, requests \in [Period -> Requests] : _update_all_charge_periods(c, requests)
  \/ \E c \in Caller : Applied(c) \/ Succeeds(c) \/ Fails(c)
  \/ WriteDelayOver \/ PollReads \/ PollRecords \/ PollFails \/ Restart
  \/ \E p \in Period, values \in PanelValues : SetAtPanel(p, values)

Spec == Init /\ [][Next]_vars

-----------------------------------------------------------------------------
(* Properties.                                                             *)

\* Any value but 0 lets a period charge from the grid.
SamePeriod(values, old) ==
  /\ values.start = old.start /\ values.end = old.end
  /\ values.grid > 0 <=> old.grid > 0

\* What a call writes to a period that it does not set is something that the
\* inverter once held there: it may be old, but never a mixture of two
\* windows, a window cut off because it starts at midnight, or one that
\* the other period had (_update_charge_period, _set_charge_periods).
FillsInWhatWasThere ==
  \A c \in Caller : call[c].state # "idle" =>
    \A p \in Period \ call[c].sets :
      \E old \in held[p] : SamePeriod(call[c].values[p], old)

\* The times that a period's sensors go on showing while it is disabled are
\* the two ends of one window that the inverter held, not the start of one
\* and the end of another (ModbusChargePeriodStartEndSensor).
ShowsOneWindow ==
  \A p \in Period : shown[p] # None =>
    \E old \in held[p] : old.start = shown[p].start /\ old.end = shown[p].end

\* No call ever gives the inverter a time that is not one.
WritesTimes ==
  \A c \in Caller : call[c].state # "idle" =>
    \A p \in Period : /\ is_time_value_valid(call[c].values[p].start)
                      /\ is_time_value_valid(call[c].values[p].end)
==============================================================================
