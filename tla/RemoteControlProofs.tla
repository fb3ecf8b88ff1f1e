------------------------- MODULE RemoteControlProofs -------------------------
(***************************************************************************)
(* Theorems about RemoteControl, for any capacity that the registers of    *)
(* the active power can hold, any weather and any number of tasks.         *)
(***************************************************************************)
EXTENDS RemoteControl, TLAPS

-------------------------------------------------------------------------------
(***************************************************************************)
(* The words of a power.                                                   *)
(***************************************************************************)

Power == (-Capacity) .. Capacity

LEMMA CapacityIsInt == Capacity \in Int /\ 0 <= Capacity
  BY RemoteControlAssumption

LEMMA PowerIsInt ==
  ASSUME NEW power \in Power
  PROVE  power \in Int /\ -Capacity <= power /\ power <= Capacity
  BY CapacityIsInt DEF Power

LEMMA OneWord ==
  ASSUME NEW power \in Int, -32767 <= power, power <= 32767
  PROVE  LET word == power % 65536
         IN  (IF word >= 32768 THEN word - 65536 ELSE word) = power
<1>1. CASE power >= 0
  <2>1. power % 65536 = power
    BY <1>1
  <2> QED
    BY <1>1, <2>1
<1>2. CASE power < 0
  <2>1. power % 65536 = power + 65536
    BY <1>2
  <2> QED
    BY <1>2, <2>1
<1> QED
  BY <1>1, <1>2

LEMMA TwoWords ==
  ASSUME NEW power \in Int, -2147483647 <= power, power <= 2147483647
  PROVE  LET low   == power % 65536
             high  == (power \div 65536) % 65536
             first == IF high >= 32768 THEN high - 65536 ELSE high
         IN  first * 65536 + low = power
<1> DEFINE q == power \div 65536
           low == power % 65536
<1>1. q \in Int /\ low \in Int /\ 0 <= low /\ low < 65536
  OBVIOUS
<1>2. q * 65536 + low = power
  OBVIOUS
<1> HIDE DEF q, low
<1>3. -32768 <= q /\ q <= 32767
  BY <1>1, <1>2
<1>4. CASE q >= 0
  <2>1. q % 65536 = q
    BY <1>1, <1>3, <1>4
  <2> QED
    BY <1>1, <1>2, <1>3, <1>4, <2>1 DEF q, low
<1>5. CASE q < 0
  <2>1. q % 65536 = q + 65536
    BY <1>1, <1>3, <1>5
  <2> QED
    BY <1>1, <1>2, <1>3, <1>5, <2>1 DEF q, low
<1> QED
  BY <1>1, <1>4, <1>5

\* The words that are written for a power mean that power, in either layout.
LEMMA WordsOfPower ==
  ASSUME NEW power \in Power
  PROVE  PowerOf(PowerWords(power)) = power
<1>1. power \in Int /\ -Capacity <= power /\ power <= Capacity /\ Capacity \in Int
  BY PowerIsInt, CapacityIsInt
<1>2. CASE NumWords = 1
  <2>1. -32767 <= power /\ power <= 32767
    BY <1>1, <1>2, RemoteControlAssumption
  <2>2. PowerOf(PowerWords(power)) = IF LowWord(power) >= 32768 THEN LowWord(power) - 65536
                                     ELSE LowWord(power)
    BY <1>2 DEF PowerOf, PowerWords
  <2> QED
    BY <1>1, <2>1, <2>2, OneWord DEF LowWord
<1>3. CASE NumWords = 2
  <2>1. -2147483647 <= power /\ power <= 2147483647
    BY <1>1, <1>3, RemoteControlAssumption
  <2>2. PowerOf(PowerWords(power))
          = (IF HighWord(power) >= 32768 THEN HighWord(power) - 65536 ELSE HighWord(power)) * 65536
            + LowWord(power)
    BY <1>3 DEF PowerOf, PowerWords
  <2> QED
    BY <1>1, <2>1, <2>2, TwoWords DEF LowWord, HighWord
<1> QED
  BY <1>2, <1>3, RemoteControlAssumption

-------------------------------------------------------------------------------
(***************************************************************************)
(* The inductive invariant.  A task carries the power it is going to set   *)
(* through all the writes that come before, so every power is within the   *)
(* capacity from the start; and a task that is about to enable remote      *)
(* control has set the watchdog, which nothing unsets.                     *)
(***************************************************************************)

Pending == WorkMode \cup {None, "update"}   \* what a task still has to do

Asking == Power \cup {None}   \* the power of a write, or the manager's import

TaskState ==
  {k \in [at : {"idle", "update", "work_mode", "timeout", "enable", "power", "disable",
                "fall_back", "select"},
          work_mode : WorkMode \cup {None}, power : Asking, sent : BOOLEAN, next : Pending] :
     k.at = "power" => k.power \in Power}

Entered == 0 .. Capacity \cup {None}   \* what charge_power and discharge_power may be

Manager ==
  [mode : RemoteControlMode, prev_mode : RemoteControlMode, enabled : BOOLEAN, import : Power]

Reading ==
  [pv : Int, limit : Int \cup {None}, full : BOOLEAN, battery : Int,
   work_mode : WorkMode \cup {None}]

TypeInv ==
  /\ manager \in Manager
  /\ charge_power \in Entered /\ discharge_power \in Entered
  /\ seen \in Reading
  /\ written \in WorkMode \cup {None}
  /\ connected \in BOOLEAN
  /\ task \in [Task -> TaskState]
  /\ weather \in [pv : Int, limit : Int \cup {None}, full : BOOLEAN]
  /\ inverter = [enable |-> inverter.enable, timeout |-> inverter.timeout,
                 work_mode |-> inverter.work_mode, power |-> inverter.power]
  /\ inverter.enable \in BOOLEAN /\ inverter.timeout \in BOOLEAN
  /\ inverter.work_mode \in WorkMode \cup {None}
  /\ PowerOf(inverter.power) \in Power

WatchdogInv ==
  /\ inverter.enable => inverter.timeout
  /\ \A t \in Task :
       task[t].at = "enable" \/ (task[t].at = "timeout" /\ task[t].sent) => inverter.timeout

IInv == TypeInv /\ WatchdogInv

Free == [pv : Int, limit : Int \cup {None}, full : BOOLEAN]   \* any weather

\* A step of t that only decides what it awaits next.
Went(t) ==
  /\ manager' \in Manager
  /\ task' \in [Task -> TaskState]
  /\ \A u \in Task \ {t} : task'[u] = task[u]
  /\ task'[t].at # "enable" /\ ~task'[t].sent

LEMMA IdleState == Idle \in TaskState
<1>1. 0 \in Power
  BY CapacityIsInt DEF Power
<1> QED
  BY <1>1 DEF Idle, TaskState, Pending, Asking

-------------------------------------------------------------------------------
(***************************************************************************)
(* Powers.                                                                 *)
(***************************************************************************)

LEMMA LeastGreatest ==
  ASSUME NEW a \in Int, NEW b \in Int
  PROVE  /\ Least(a, b) \in Int /\ Least(a, b) <= a /\ Least(a, b) <= b
         /\ Least(a, b) \in {a, b}
         /\ Greatest(a, b) \in Int /\ Greatest(a, b) >= a /\ Greatest(a, b) >= b
         /\ Greatest(a, b) \in {a, b}
  BY DEF Least, Greatest

LEMMA MaxImportInt ==
  ASSUME charge_power \in Entered
  PROVE  MaxImport \in Int /\ 0 <= MaxImport /\ MaxImport <= Capacity
<1>1. CASE charge_power = None
  BY <1>1, CapacityIsInt DEF MaxImport
<1>2. CASE charge_power # None
  <2>1. charge_power \in Int /\ 0 <= charge_power
    BY <1>2, CapacityIsInt DEF Entered
  <2>2. MaxImport = Least(charge_power, Capacity)
    BY <1>2 DEF MaxImport
  <2> QED
    BY <2>1, <2>2, CapacityIsInt DEF Least
<1> QED
  BY <1>1, <1>2

LEMMA MaxExportInt ==
  ASSUME discharge_power \in Entered
  PROVE  MaxExport \in Int /\ 0 <= MaxExport /\ MaxExport <= Capacity
<1>1. CASE discharge_power = None
  BY <1>1, CapacityIsInt DEF MaxExport
<1>2. CASE discharge_power # None
  <2>1. discharge_power \in Int /\ 0 <= discharge_power
    BY <1>2, CapacityIsInt DEF Entered
  <2>2. MaxExport = Least(discharge_power, Capacity)
    BY <1>2 DEF MaxExport
  <2> QED
    BY <2>1, <2>2, CapacityIsInt DEF Least
<1> QED
  BY <1>1, <1>2

LEMMA InPower ==
  ASSUME NEW power \in Int, -Capacity <= power, power <= Capacity
  PROVE  power \in Power /\ -power \in Power
  BY CapacityIsInt DEF Power

\* Whatever the loop computes, it is clamped.
LEMMA NextImportClamped ==
  ASSUME charge_power \in Entered,
         NEW limit \in Int, NEW battery \in Int, NEW previous \in Int
  PROVE  NextImport(limit, battery, previous) \in Power
<1> DEFINE setpoint == Greatest(limit - 200, 50)
           new == IF previous > setpoint THEN setpoint ELSE previous + Towards(setpoint, battery)
           clamped == Greatest(-MaxImport, Least(MaxImport, new))
<1>1. setpoint \in Int
  BY LeastGreatest
<1>2. Towards(setpoint, battery) \in Int
  <2> HIDE DEF setpoint
  <2>1. (-3 * (setpoint - battery)) \div 2 \in Int
    BY <1>1
  <2> QED
    BY <1>1, <2>1 DEF Towards
<1>3. new \in Int
  <2> HIDE DEF setpoint
  <2> QED
    BY <1>1, <1>2
<1>4. clamped \in Int /\ -MaxImport <= clamped /\ clamped <= MaxImport
  <2> HIDE DEF new
  <2>1. MaxImport \in Int /\ 0 <= MaxImport
    BY MaxImportInt
  <2>2. Least(MaxImport, new) \in Int /\ Least(MaxImport, new) <= MaxImport
    BY <1>3, <2>1, LeastGreatest
  <2>3. -MaxImport \in Int /\ -MaxImport <= MaxImport
    BY <2>1
  <2>4. clamped \in Int /\ clamped >= -MaxImport /\ clamped \in {-MaxImport, Least(MaxImport, new)}
    BY <2>2, <2>3, LeastGreatest
  <2> QED
    BY <2>1, <2>2, <2>3, <2>4
<1>5. NextImport(limit, battery, previous) = 0 \/ NextImport(limit, battery, previous) = clamped
  BY DEF NextImport
<1> HIDE DEF clamped
<1>6. 0 \in Power /\ clamped \in Power
  BY <1>4, MaxImportInt, CapacityIsInt, InPower
<1> QED
  BY <1>5, <1>6

\* What a poll reads.
LEMMA MeasuredIsReading ==
  ASSUME TypeInv
  PROVE  Measured \in Reading
<1>1. weather.pv \in Int /\ weather.limit \in Int \cup {None} /\ weather.full \in BOOLEAN
  BY DEF TypeInv
<1>2. PowerOf(inverter.power) \in Int
  BY PowerIsInt DEF TypeInv
<1> DEFINE limit == IF weather.limit = None THEN Capacity ELSE weather.limit
           brought == IF inverter.enable THEN -PowerOf(inverter.power) ELSE 0
<1>3. limit \in Int /\ weather.pv + brought \in Int
  BY <1>1, <1>2, CapacityIsInt
<1>4. BatteryPower = Least(limit, weather.pv + brought)
  BY DEF BatteryPower
<1> HIDE DEF limit, brought
<1>5. BatteryPower \in Int
  BY <1>3, <1>4, LeastGreatest
<1> QED
  BY <1>1, <1>5 DEF Measured, Reading, TypeInv

-------------------------------------------------------------------------------
(***************************************************************************)
(* What a task awaits next.                                                *)
(***************************************************************************)

\* When the write of the power begins, there is a power to write.
LEMMA AskedPower ==
  ASSUME NEW at, NEW m \in Manager, NEW p \in Asking
  PROVE  Asked(at, m, p) \in Asking /\ (at = "power" => Asked(at, m, p) \in Power)
<1>1. -m.import \in Power
  BY PowerIsInt, InPower DEF Manager
<1> QED
  BY <1>1 DEF Asked, Asking

LEMMA Awaits ==
  ASSUME TypeInv, NEW t \in Task,
         NEW at \in {"update", "work_mode", "timeout", "power", "disable", "fall_back", "select"},
         NEW m \in Manager, NEW w \in WorkMode \cup {None}, NEW p \in Asking, NEW next \in Pending,
         Await(t, at, m, w, p, next)
  PROVE  Went(t)
<1> DEFINE k == [at |-> at, work_mode |-> w, power |-> Asked(at, m, p), sent |-> FALSE,
                 next |-> next]
<1>1. k \in TaskState /\ k.at # "enable" /\ k.sent = FALSE
  BY AskedPower DEF TaskState
<1>2. task' = [task EXCEPT ![t] = k] /\ manager' = m
  BY DEF Await
<1> HIDE DEF k
<1> QED
  BY <1>1, <1>2 DEF Went, TypeInv

LEMMA ZeroPower == 0 \in Power /\ 0 \in Asking
  BY CapacityIsInt DEF Power, Asking

LEMMA Finishes ==
  ASSUME TypeInv, NEW t \in Task, NEW m \in Manager, NEW next \in Pending, Finish(t, m, next)
  PROVE  Went(t)
<1> DEFINE done == [m EXCEPT !.prev_mode = m.mode]
<1>1. done \in Manager
  BY DEF Manager
<1>2. CASE next = None /\ task' = [task EXCEPT ![t] = Idle] /\ manager' = done
  <2> HIDE DEF done
  <2>1. task'[t] = Idle
    BY <1>2 DEF TypeInv
  <2> QED
    BY <1>1, <1>2, <2>1, IdleState DEF Went, TypeInv, Idle
<1>3. CASE next = "update" /\ Await(t, "update", done, None, 0, None)
  <2> HIDE DEF done
  <2> QED
    BY <1>1, <1>3, Awaits, ZeroPower DEF Pending
<1>4. CASE next \in WorkMode /\ Await(t, "select", done, next, 0, None)
  <2> HIDE DEF done
  <2> QED
    BY <1>1, <1>4, Awaits, ZeroPower DEF Pending
<1> QED
  BY <1>2, <1>3, <1>4 DEF Finish, Pending

LEMMA FallsBack ==
  ASSUME TypeInv, NEW t \in Task, NEW m \in Manager, NEW s, NEW w \in WorkMode \cup {None},
         NEW next \in Pending, FallBack(t, m, s, w, next)
  PROVE  Went(t)
<1>1. CASE Await(t, "fall_back", m, w, 0, next)
  BY <1>1, Awaits, ZeroPower
<1>2. CASE Finish(t, m, next)
  BY <1>2, Finishes
<1> QED
  BY <1>1, <1>2 DEF FallBack

LEMMA Disables ==
  ASSUME TypeInv, NEW t \in Task, NEW m \in Manager, NEW s, NEW w \in WorkMode \cup {None},
         NEW next \in Pending, _disable_remote_control(t, m, s, w, next)
  PROVE  Went(t)
<1> DEFINE off == [m EXCEPT !.enabled = FALSE]
<1>1. off \in Manager
  BY DEF Manager
<1>2. CASE Await(t, "disable", off, w, 0, next)
  <2> HIDE DEF off
  <2> QED
    BY <1>1, <1>2, Awaits, ZeroPower
<1>3. CASE FallBack(t, m, s, w, next)
  BY <1>3, FallsBack
<1> QED
  BY <1>2, <1>3 DEF _disable_remote_control

LEMMA Engages ==
  ASSUME TypeInv, NEW t \in Task, NEW m \in Manager, NEW w \in WorkMode \cup {None},
         NEW p \in Asking, NEW next \in Pending, Engage(t, m, w, p, next)
  PROVE  Went(t)
<1> DEFINE on == [m EXCEPT !.enabled = TRUE]
<1>1. on \in Manager
  BY DEF Manager
<1>2. CASE Await(t, "power", m, w, p, next)
  BY <1>2, Awaits
<1>3. CASE Await(t, "timeout", on, w, p, next)
  <2> HIDE DEF on
  <2> QED
    BY <1>1, <1>3, Awaits
<1> QED
  BY <1>2, <1>3 DEF Engage

LEMMA Enables ==
  ASSUME TypeInv, NEW t \in Task, NEW m \in Manager, NEW s, NEW w \in WorkMode \cup {None},
         NEW p \in Asking, NEW next \in Pending, _enable_remote_control(t, m, s, w, p, next)
  PROVE  Went(t)
<1>1. CASE Await(t, "work_mode", m, w, p, next)
  BY <1>1, Awaits
<1>2. CASE Engage(t, m, w, p, next)
  BY <1>2, Engages
<1> QED
  BY <1>1, <1>2 DEF _enable_remote_control

LEMMA Charges ==
  ASSUME TypeInv, NEW t \in Task, NEW m \in Manager, NEW s \in Reading, NEW next \in Pending,
         _update_charge(t, m, s, next)
  PROVE  Went(t)
<1>1. "back_up" \in WorkMode \cup {None}
  BY DEF WorkMode
<1>2. CASE _disable_remote_control(t, m, s, "back_up", next)
  BY <1>1, <1>2, Disables
<1>3. CASE _enable_remote_control(t, m, s, "back_up", -MaxImport, next)
  <2>1. -MaxImport \in Asking
    BY MaxImportInt, CapacityIsInt, InPower DEF TypeInv, Asking
  <2> QED
    BY <1>1, <1>3, <2>1, Enables
<1>4. CASE /\ s.limit # None
           /\ LET import == IF m.prev_mode # "force_charge" THEN 0
                            ELSE NextImport(s.limit, s.battery, m.import)
              IN  _enable_remote_control(t, [m EXCEPT !.import = import], s, "back_up", None, next)
  <2> DEFINE import == IF m.prev_mode # "force_charge" THEN 0
                       ELSE NextImport(s.limit, s.battery, m.import)
             changed == [m EXCEPT !.import = import]
  <2>1. s.limit \in Int /\ s.battery \in Int /\ m.import \in Int
    BY <1>4, PowerIsInt DEF Reading, Manager
  <2>2. import \in Power
    BY <2>1, ZeroPower, NextImportClamped DEF TypeInv
  <2>3. _enable_remote_control(t, changed, s, "back_up", None, next)
    BY <1>4
  <2> HIDE DEF import
  <2>4. None \in Asking /\ changed \in Manager
    BY <2>2 DEF Manager, Asking
  <2> HIDE DEF changed
  <2> QED
    BY <1>1, <2>3, <2>4, Enables
<1> QED
  BY <1>2, <1>3, <1>4 DEF _update_charge

LEMMA Updates ==
  ASSUME TypeInv, NEW t \in Task, NEW m \in Manager, NEW s \in Reading,
         NEW is_connected \in BOOLEAN, NEW next \in Pending, next # "update" \/ is_connected,
         _update(t, m, s, is_connected, next)
  PROVE  Went(t)
<1>1. CASE is_connected /\ _disable_remote_control(t, m, s, None, next)
  BY <1>1, Disables
<1>2. CASE is_connected /\ _update_charge(t, m, s, next)
  BY <1>2, Charges
<1>3. CASE is_connected /\ _enable_remote_control(t, m, s, "feed_in_first", MaxExport, next)
  <2>1. MaxExport \in Asking /\ "feed_in_first" \in WorkMode \cup {None}
    BY MaxExportInt, CapacityIsInt, InPower DEF WorkMode, TypeInv, Asking
  <2> QED
    BY <1>3, <2>1, Enables
<1>4. CASE ~is_connected
  <2>1. manager' = [m EXCEPT !.prev_mode = "disable"] /\ manager' \in Manager
    BY <1>4 DEF _update, Manager, RemoteControlMode
  <2>2. PICK k \in TaskState : task' = [task EXCEPT ![t] = k] /\ k.at # "enable" /\ k.sent = FALSE
    <3>1. CASE next = None
      <4>1. task' = [task EXCEPT ![t] = Idle]
        BY <1>4, <3>1 DEF _update
      <4> QED
        BY <4>1, IdleState DEF Idle
    <3>2. CASE next # None
      <4>1. task' = [task EXCEPT ![t] = [Idle EXCEPT !.at = "select", !.work_mode = next]]
        BY <1>4, <3>2 DEF _update
      <4> DEFINE k == [Idle EXCEPT !.at = "select", !.work_mode = next]
      <4>2. next \in WorkMode
        BY <1>4, <3>2 DEF Pending
      <4>3. k \in TaskState /\ k.at = "select" /\ k.sent = Idle.sent
        <5>1. Idle \in TaskState
          BY IdleState
        <5> QED
          BY <4>2, <5>1 DEF TaskState
      <4>4. Idle.sent = FALSE
        BY DEF Idle
      <4> HIDE DEF k
      <4> QED
        BY <4>1, <4>3, <4>4 DEF k
    <3> QED
      BY <3>1, <3>2
  <2> QED
    BY <2>1, <2>2 DEF Went, TypeInv
<1> QED
  BY <1>1, <1>2, <1>3, <1>4 DEF _update, Manager, RemoteControlMode

-------------------------------------------------------------------------------
(***************************************************************************)
(* The actions.                                                            *)
(***************************************************************************)

LEMMA InitInv == Init => IInv
<1> SUFFICES ASSUME Init PROVE IInv
  OBVIOUS
<1>1. manager \in Manager
  BY ZeroPower DEF Init, Fresh, Manager, RemoteControlMode
<1>2. weather \in Free
  BY RemoteControlAssumption DEF Init, Free
<1>3. /\ inverter = [enable |-> FALSE, timeout |-> FALSE, work_mode |-> "self_use",
                     power |-> PowerWords(0)]
      /\ PowerOf(PowerWords(0)) = 0
  BY WordsOfPower, ZeroPower DEF Init
<1>4. /\ inverter.enable = FALSE /\ inverter.timeout = FALSE
      /\ inverter.work_mode \in WorkMode \cup {None}
      /\ PowerOf(inverter.power) \in Power
      /\ inverter = [enable |-> inverter.enable, timeout |-> inverter.timeout,
                     work_mode |-> inverter.work_mode, power |-> inverter.power]
  BY <1>3, ZeroPower DEF WorkMode
<1>5. task \in [Task -> TaskState] /\ \A t \in Task : task[t].at = "idle"
  BY IdleState DEF Init, Idle
<1>6. Measured \in Reading
  <2>1. PowerOf(inverter.power) \in Int
    BY <1>4, PowerIsInt
  <2>2. Capacity \in Int /\ weather.pv \in Int /\ (weather.limit # None => weather.limit \in Int)
    BY <1>2, CapacityIsInt DEF Free
  <2>3. BatteryPower = Least(IF weather.limit = None THEN Capacity ELSE weather.limit, weather.pv + 0)
    BY <1>4 DEF BatteryPower
  <2> DEFINE limit == IF weather.limit = None THEN Capacity ELSE weather.limit
  <2>4. limit \in Int /\ weather.pv + 0 \in Int
    BY <2>2
  <2> HIDE DEF limit
  <2>5. BatteryPower \in Int
    BY <2>3, <2>4, LeastGreatest DEF limit
  <2> QED
    BY <1>2, <1>4, <2>5 DEF Measured, Reading, Free
<1>7. TypeInv
  BY <1>1, <1>2, <1>4, <1>5, <1>6 DEF TypeInv, Init, Free, Entered
<1>8. WatchdogInv
  BY <1>4, <1>5 DEF WatchdogInv
<1> QED
  BY <1>7, <1>8 DEF IInv

\* A decision leaves the inverter alone.
LEMMA WentInv ==
  ASSUME IInv, NEW t \in Task, Went(t), UNCHANGED <<inverter, weather, powers>>,
         seen' \in Reading, written' \in WorkMode \cup {None}, connected' \in BOOLEAN
  PROVE  IInv'
<1>1. TypeInv'
  BY DEF Went, IInv, TypeInv, powers
<1>2. ASSUME NEW u \in Task,
             task'[u].at = "enable" \/ (task'[u].at = "timeout" /\ task'[u].sent)
      PROVE  inverter'.timeout
  <2>1. u # t
    BY <1>2 DEF Went
  <2>2. task'[u] = task[u]
    BY <2>1 DEF Went
  <2> QED
    BY <1>2, <2>2 DEF IInv, WatchdogInv
<1>3. WatchdogInv'
  BY <1>2 DEF IInv, WatchdogInv
<1> QED
  BY <1>1, <1>3 DEF IInv

\* Steps that touch neither the tasks nor the inverter.
LEMMA QuietInv ==
  ASSUME IInv, UNCHANGED <<manager, task, inverter, seen, connected>>,
         charge_power' \in Entered, discharge_power' \in Entered, written' \in WorkMode \cup {None},
         weather' \in Free
  PROVE  IInv'
  BY DEF IInv, TypeInv, WatchdogInv, Free

LEMMA PollSucceedsInv ==
  ASSUME IInv, NEW t \in Task, PollSucceeds(t)
  PROVE  IInv'
<1>1. /\ Measured \in Reading /\ manager \in Manager /\ connected \in BOOLEAN
      /\ written \in WorkMode \cup {None}
  BY MeasuredIsReading DEF IInv, TypeInv
<1>2. Went(t)
  <2> DEFINE s == Measured
  <2>0. s \in Reading /\ TypeInv /\ t \in Task /\ TRUE \in BOOLEAN
        /\ None \in Pending /\ "update" \in Pending
    BY <1>1 DEF IInv, Pending
  <2>1. CASE _update(t, manager, s, TRUE, None)
    <3> HIDE DEF s
    <3> QED
      BY <1>1, <2>0, <2>1, Updates
  <2>2. CASE _update(t, [manager EXCEPT !.enabled = FALSE], Measured, TRUE, "update")
    <3>1. [manager EXCEPT !.enabled = FALSE] \in Manager
      BY <1>1 DEF Manager
    <3> DEFINE m == [manager EXCEPT !.enabled = FALSE]
    <3>2. _update(t, m, s, TRUE, "update")
      BY <2>2
    <3> HIDE DEF s, m
    <3> QED
      BY <2>0, <3>1, <3>2, Updates DEF m
  <2> QED
    BY <2>1, <2>2 DEF PollSucceeds
<1> QED
  BY <1>1, <1>2, WentInv DEF PollSucceeds, outside

LEMMA PollFailsInv ==
  ASSUME IInv, NEW t \in Task, PollFails(t)
  PROVE  IInv'
<1>1. manager \in Manager /\ seen \in Reading /\ written \in WorkMode \cup {None}
  BY DEF IInv, TypeInv
<1>2. PICK still \in {connected, FALSE} : connected' = still /\ _update(t, manager, seen, still, None)
  BY DEF PollFails
<1>3. still \in BOOLEAN
  BY DEF IInv, TypeInv
<1>4. TypeInv /\ None \in Pending /\ None # "update"
  BY RemoteControlAssumption DEF IInv, Pending
<1>5. Went(t)
  BY <1>1, <1>2, <1>3, <1>4, Updates
<1> QED
  BY <1>1, <1>2, <1>3, <1>5, WentInv DEF PollFails, outside

LEMMA SelectModeInv ==
  ASSUME IInv, NEW t \in Task, NEW mode \in RemoteControlMode,
         NEW work_mode \in {"self_use", None}, set_mode(t, mode, work_mode)
  PROVE  IInv'
<1>1. /\ manager \in Manager /\ seen \in Reading /\ connected \in BOOLEAN
      /\ written \in WorkMode \cup {None} /\ work_mode \in WorkMode \cup {None}
  BY DEF IInv, TypeInv, WorkMode
<1>2. Went(t)
  <2>1. CASE _update(t, [manager EXCEPT !.mode = mode], seen, connected, work_mode)
    <3>1. [manager EXCEPT !.mode = mode] \in Manager
      BY <1>1 DEF Manager
    <3> QED
      BY <1>1, <2>1, <3>1, Updates, RemoteControlAssumption DEF IInv, Pending
  <2>2. CASE Await(t, "select", manager, work_mode, 0, None)
    BY <1>1, <2>2, ZeroPower, Awaits DEF IInv, Pending
  <2> QED
    BY <2>1, <2>2 DEF set_mode
<1> QED
  BY <1>1, <1>2, WentInv DEF set_mode

LEMMA EnterPowerInv ==
  ASSUME IInv, NEW asked \in Powers, EnterPower(asked)
  PROVE  IInv'
<1>1. SetPower(asked) \in Entered
  <2>1. CASE asked = None
    BY <2>1 DEF SetPower, Entered
  <2>2. CASE asked # None
    <3>1. asked \in Int
      BY <2>2, RemoteControlAssumption
    <3>2. SetPower(asked) = Greatest(0, Least(Capacity, asked))
      BY <2>2 DEF SetPower
    <3> QED
      BY <3>1, <3>2, CapacityIsInt DEF Greatest, Least, Entered
  <2> QED
    BY <2>1, <2>2
<1>2. charge_power' \in Entered /\ discharge_power' \in Entered
  BY <1>1 DEF EnterPower, IInv, TypeInv
<1> QED
  BY <1>2, QuietInv DEF EnterPower, IInv, TypeInv, Free

\* A write reaches the inverter.
LEMMA AppliedInv ==
  ASSUME IInv, NEW t \in Task, Applied(t)
  PROVE  IInv'
<1> DEFINE now == task[t]
<1>1. /\ now \in TaskState /\ now.sent = FALSE
      /\ task' = [task EXCEPT ![t].sent = TRUE]
      /\ now.at \notin {"idle", "update"}
  BY DEF Applied, Writing, IInv, TypeInv, TaskState
<1>2. inverter' =
       CASE now.at = "timeout" -> [inverter EXCEPT !.timeout = TRUE]
         [] now.at = "enable" -> [inverter EXCEPT !.enable = TRUE]
         [] now.at = "disable" -> [inverter EXCEPT !.enable = FALSE]
         [] now.at = "power" -> [inverter EXCEPT !.power = PowerWords(now.power)]
         [] OTHER -> [inverter EXCEPT !.work_mode = now.work_mode]
  BY DEF Applied
<1>3. /\ task' \in [Task -> TaskState]
      /\ \A u \in Task \ {t} : task'[u] = task[u]
      /\ task'[t].at = now.at
  BY <1>1 DEF IInv, TypeInv, TaskState
<1>4. now.at = "power" => PowerOf(PowerWords(now.power)) \in Power
  BY <1>1, WordsOfPower DEF TaskState
<1> DEFINE Shape(i) == i = [enable |-> i.enable, timeout |-> i.timeout,
                            work_mode |-> i.work_mode, power |-> i.power]
           Typed(i) == /\ i.enable \in BOOLEAN /\ i.timeout \in BOOLEAN
                       /\ i.work_mode \in WorkMode \cup {None} /\ PowerOf(i.power) \in Power
<1>5. Shape(inverter) /\ Typed(inverter)
  BY DEF IInv, TypeInv
<1>6. inverter.enable => inverter.timeout
  BY DEF IInv, WatchdogInv
<1>7. /\ Shape(inverter') /\ Typed(inverter')
      /\ inverter'.enable => inverter'.timeout
      /\ inverter.timeout \/ now.at = "timeout" => inverter'.timeout
  <2>1. CASE now.at = "timeout"
    <3>1. inverter' = [inverter EXCEPT !.timeout = TRUE]
      BY <1>2, <2>1
    <3> QED
      BY <1>5, <3>1
  <2>2. CASE now.at = "enable"
    <3>1. inverter' = [inverter EXCEPT !.enable = TRUE]
      BY <1>2, <2>2
    <3>2. inverter.timeout
      BY <2>2 DEF IInv, WatchdogInv
    <3> QED
      BY <1>5, <2>2, <3>1, <3>2
  <2>3. CASE now.at = "disable"
    <3>1. inverter' = [inverter EXCEPT !.enable = FALSE]
      BY <1>2, <2>3
    <3> QED
      BY <1>5, <2>3, <3>1
  <2>4. CASE now.at = "power"
    <3>1. inverter' = [inverter EXCEPT !.power = PowerWords(now.power)]
      BY <1>2, <2>4
    <3> QED
      BY <1>4, <1>5, <1>6, <2>4, <3>1
  <2>5. CASE now.at \notin {"timeout", "enable", "disable", "power"}
    <3>1. inverter' = [inverter EXCEPT !.work_mode = now.work_mode]
      BY <1>2, <2>5
    <3>2. now.work_mode \in WorkMode \cup {None}
      BY <1>1 DEF TaskState
    <3> QED
      BY <1>5, <1>6, <2>5, <3>1, <3>2
  <2> QED
    BY <2>1, <2>2, <2>3, <2>4, <2>5
<1>8. TypeInv'
  BY <1>3, <1>7 DEF Applied, outside, powers, IInv, TypeInv
<1>9. ASSUME NEW u \in Task,
             task'[u].at = "enable" \/ (task'[u].at = "timeout" /\ task'[u].sent)
      PROVE  inverter'.timeout
  <2>1. CASE u = t
    <3>1. now.at = "enable" => inverter.timeout
      BY DEF IInv, WatchdogInv
    <3> QED
      BY <1>3, <1>7, <1>9, <2>1, <3>1
  <2>2. CASE u # t
    <3>1. task'[u] = task[u]
      BY <1>3, <2>2
    <3> QED
      BY <1>7, <1>9, <3>1 DEF IInv, WatchdogInv
  <2> QED
    BY <2>1, <2>2
<1>10. WatchdogInv'
  BY <1>7, <1>9 DEF WatchdogInv
<1> QED
  BY <1>8, <1>10 DEF IInv

\* The task goes on: the watchdog is set when it enables remote control.
LEMMA ResumesInv ==
  ASSUME IInv, NEW t \in Task, Resumes(t)
  PROVE  IInv'
<1> DEFINE now == task[t]
<1>1. /\ now \in TaskState /\ now.sent /\ manager \in Manager /\ seen \in Reading /\ TypeInv
      /\ connected \in BOOLEAN
  BY DEF Resumes, IInv, TypeInv
<1>2. written' \in WorkMode \cup {None}
  BY <1>1 DEF Resumes, TypeInv, TaskState
<1>3. UNCHANGED <<powers, seen, connected, inverter, weather>>
  BY DEF Resumes, outside
<1>4. /\ now.work_mode \in WorkMode \cup {None} /\ now.power \in Asking /\ now.next \in Pending
  BY <1>1 DEF TaskState
<1>5. CASE now.at = "timeout"
  <2>1. Await(t, "enable", manager, now.work_mode, now.power, now.next)
    BY <1>5 DEF Resumes
  <2> DEFINE k == [at |-> "enable", work_mode |-> now.work_mode, power |-> now.power,
                   sent |-> FALSE, next |-> now.next]
  <2>2. task' = [task EXCEPT ![t] = k] /\ manager' = manager
    BY <2>1 DEF Await, Asked
  <2>3. k \in TaskState
    BY <1>4 DEF TaskState
  <2>4. inverter.timeout
    BY <1>1, <1>5 DEF IInv, WatchdogInv
  <2> HIDE DEF k
  <2>5. TypeInv'
    BY <1>1, <1>2, <1>3, <2>2, <2>3 DEF TypeInv, powers
  <2>6. WatchdogInv'
    BY <1>1, <1>3, <2>2, <2>4 DEF TypeInv, IInv, WatchdogInv
  <2> QED
    BY <2>5, <2>6 DEF IInv
<1>6. CASE now.at # "timeout"
  <2>1. CASE now.at = "work_mode"
    <3>1. Engage(t, manager, now.work_mode, now.power, now.next)
      BY <2>1 DEF Resumes
    <3> QED
      BY <1>1, <1>2, <1>3, <1>4, <3>1, Engages, WentInv
  <2>2. CASE now.at = "enable"
    <3>1. Await(t, "power", manager, now.work_mode, now.power, now.next)
      BY <2>2 DEF Resumes
    <3> QED
      BY <1>1, <1>2, <1>3, <1>4, <3>1, Awaits, WentInv
  <2>3. CASE now.at = "disable"
    <3>1. FallBack(t, manager, seen, now.work_mode, now.next)
      BY <2>3 DEF Resumes
    <3> QED
      BY <1>1, <1>2, <1>3, <1>4, <3>1, FallsBack, WentInv
  <2>4. CASE now.at = "select"
    <3>1. manager' = manager /\ task' = [task EXCEPT ![t] = Idle]
      BY <2>4 DEF Resumes
    <3>2. Went(t)
      BY <1>1, <3>1, IdleState DEF Went, TypeInv, Idle
    <3> QED
      BY <1>1, <1>2, <1>3, <3>2, WentInv
  <2>5. CASE now.at \notin {"work_mode", "timeout", "enable", "disable", "select"}
    <3>1. Finish(t, manager, now.next)
      BY <2>5 DEF Resumes
    <3> QED
      BY <1>1, <1>2, <1>3, <1>4, <3>1, Finishes, WentInv
  <2> QED
    BY <1>6, <2>1, <2>2, <2>3, <2>4, <2>5
<1> QED
  BY <1>5, <1>6

LEMMA UpdatesAgainInv ==
  ASSUME IInv, NEW t \in Task, UpdatesAgain(t)
  PROVE  IInv'
<1>1. /\ manager \in Manager /\ seen \in Reading /\ connected \in BOOLEAN
      /\ written \in WorkMode \cup {None}
  BY DEF IInv, TypeInv
<1>2. _update(t, manager, seen, connected, None)
  BY DEF UpdatesAgain
<1>3. Went(t)
  BY <1>1, <1>2, Updates, RemoteControlAssumption DEF IInv, Pending
<1> QED
  BY <1>1, <1>3, WentInv DEF UpdatesAgain, outside

LEMMA WriteFailsInv ==
  ASSUME IInv, NEW t \in Task, WriteFails(t)
  PROVE  IInv'
<1>1. task' = [task EXCEPT ![t] = Idle] /\ UNCHANGED manager
  BY DEF WriteFails
<1>2. Went(t)
  BY <1>1, IdleState DEF Went, IInv, TypeInv, Idle
<1> QED
  BY <1>2, WentInv DEF WriteFails, outside, IInv, TypeInv

\* The inverter turns remote control off, or somebody sets its work mode.
LEMMA InverterInv ==
  ASSUME IInv, Watchdog \/ \E work_mode \in WorkMode : SetAtPanel(work_mode)
  PROVE  IInv'
<1>1. /\ UNCHANGED <<manager, powers, seen, written, connected, task, weather>>
      /\ \/ inverter' = [inverter EXCEPT !.enable = FALSE]
         \/ \E work_mode \in WorkMode : inverter' = [inverter EXCEPT !.work_mode = work_mode]
  BY DEF Watchdog, SetAtPanel, outside
<1>2. /\ inverter' = [enable |-> inverter'.enable, timeout |-> inverter'.timeout,
                      work_mode |-> inverter'.work_mode, power |-> inverter'.power]
      /\ inverter'.enable \in {FALSE, inverter.enable} /\ inverter'.timeout = inverter.timeout
      /\ inverter'.power = inverter.power
      /\ inverter'.work_mode \in WorkMode \cup {None}
  BY <1>1 DEF IInv, TypeInv
<1> QED
  BY <1>1, <1>2 DEF IInv, TypeInv, WatchdogInv, powers

LEMMA RestartInv ==
  ASSUME IInv, Restart
  PROVE  IInv'
<1>1. Measured \in Reading
  BY MeasuredIsReading DEF IInv
<1>2. manager' \in Manager
  BY ZeroPower DEF Restart, Fresh, Manager, RemoteControlMode
<1>3. task' \in [Task -> TaskState] /\ \A t \in Task : task'[t].at = "idle"
  BY IdleState DEF Restart, Idle
<1> QED
  BY <1>1, <1>2, <1>3 DEF Restart, outside, powers, IInv, TypeInv, WatchdogInv

LEMMA NextInv == IInv /\ [Next]_vars => IInv'
<1> SUFFICES ASSUME IInv, [Next]_vars PROVE IInv'
  OBVIOUS
<1>1. CASE UNCHANGED vars
  BY <1>1 DEF vars, powers, IInv, TypeInv, WatchdogInv
<1>2. ASSUME NEW t \in Poller, PollSucceeds(t) \/ PollFails(t)
      PROVE  IInv'
  BY <1>2, PollSucceedsInv, PollFailsInv DEF Task
<1>3. ASSUME NEW t \in User, SelectMode(t)
      PROVE  IInv'
  BY <1>3, SelectModeInv DEF SelectMode, Task, RemoteControlMode
<1>4. ASSUME NEW t \in Task, Runs(t) \/ WriteFails(t)
      PROVE  IInv'
  BY <1>4, AppliedInv, ResumesInv, UpdatesAgainInv, WriteFailsInv DEF Runs
<1>5. CASE WriteDelayOver \/ WeatherTurns
  <2>1. weather' \in Free
    BY <1>5, RemoteControlAssumption DEF WriteDelayOver, WeatherTurns, outside, IInv, TypeInv, Free
  <2>2. written' \in WorkMode \cup {None}
    BY <1>5 DEF WriteDelayOver, WeatherTurns, IInv, TypeInv
  <2>3. /\ UNCHANGED <<manager, task, inverter, seen, connected>>
        /\ charge_power' \in Entered /\ discharge_power' \in Entered
    BY <1>5 DEF WriteDelayOver, WeatherTurns, powers, IInv, TypeInv
  <2> QED
    BY <2>1, <2>2, <2>3, QuietInv
<1> QED
  BY <1>1, <1>2, <1>3, <1>4, <1>5, EnterPowerInv, InverterInv, RestartInv DEF Next

LEMMA AlwaysIInv == Spec => []IInv
<1> QED
  BY InitInv, NextInv, PTL DEF Spec

-------------------------------------------------------------------------------
(***************************************************************************)
(* The theorems.                                                           *)
(***************************************************************************)

\* The inverter is given only powers within its capacity, and its words decode to
\* them, whatever the weather, the powers that are entered, and the failures.
THEOREM PowersAreWithinCapacity == Spec => []PowerWithinCapacity
<1>1. IInv => PowerWithinCapacity
  <2> SUFFICES ASSUME IInv PROVE PowerWithinCapacity
    OBVIOUS
  <2>1. \A t \in Task : task[t].at = "power" => task[t].power \in Power
    BY DEF IInv, TypeInv, TaskState
  <2>2. \A t \in Task : task[t].at = "power" =>
                        PowerOf(PowerWords(task[t].power)) = task[t].power
    BY <2>1, WordsOfPower
  <2> QED
    BY <2>2 DEF PowerWithinCapacity, IInv, TypeInv, Power
<1> QED
  BY <1>1, AlwaysIInv, PTL

\* Remote control is never on without its watchdog, with any number of tasks that
\* enable and disable it, failures between any two writes, and restarts.
THEOREM WatchdogIsAlwaysSet == Spec => []WatchdogIsSet
<1>1. IInv => WatchdogIsSet
  BY DEF IInv, WatchdogInv, WatchdogIsSet
<1> QED
  BY <1>1, AlwaysIInv, PTL

-------------------------------------------------------------------------------
(***************************************************************************)
(* Why the control loop settles.  ChargeSettles is about what it does in   *)
(* the end; here is what each of its turns does, for any sun, limit,       *)
(* capacity and entered power.                                             *)
(***************************************************************************)

\* The loop has the say: PV and the battery's limit are such that it looks at the
\* battery, and the inverter imports what the last turn asked for.
InControl ==
  /\ connected /\ manager.mode = "force_charge" /\ manager.prev_mode = "force_charge"
  /\ weather.pv > 0 /\ weather.limit # None /\ weather.limit >= 50 /\ ~weather.full
  /\ inverter.enable /\ PowerOf(inverter.power) = -manager.import
  /\ manager.import \in (-MaxImport) .. MaxImport

Setpoint == Greatest(weather.limit - 200, 50)

\* How the battery charges with that import.
Charging(import) == Least(weather.limit, weather.pv + import)

TooFast(import) == Charging(import) > Setpoint \/ import > Setpoint

\* How many turns the loop may still take: the import only goes down while the
\* battery charges too fast; from below, one turn reaches the setpoint, or zero
\* import and the next turn does.
TurnsToGo(import) ==
  CASE TooFast(import) /\ import > -MaxImport -> import + MaxImport + 2
    [] Charging(import) < Setpoint /\ import < MaxImport -> IF import < 0 THEN 2 ELSE 1
    [] OTHER -> 0

\* With no turn to go the loop is where ChargeSettles wants it.
SettledIsSteady == InControl /\ TurnsToGo(manager.import) = 0 => Steady

\* The power that the task is going to set, when no other turn comes in between.
WillSet(k, m) == IF k.power = None THEN -m.import ELSE k.power

\* Each turn leaves fewer to go, and once there are none, asks for the same again.
LoopConverges ==
  [][\A t \in Poller : InControl /\ PollSucceeds(t) =>
       LET asked == manager'.import
       IN  /\ WillSet(task'[t], manager') = -asked
           /\ asked \in (-MaxImport) .. MaxImport
           /\ TurnsToGo(asked) \in Nat
           /\ \/ TurnsToGo(asked) < TurnsToGo(manager.import)
              \/ TurnsToGo(asked) = 0 /\ asked = manager.import]_vars

LEMMA TowardsSetpoint ==
  ASSUME NEW setpoint \in Int, NEW battery \in Int
  PROVE  /\ battery <= setpoint => Towards(setpoint, battery) = setpoint - battery
         /\ battery > setpoint => Towards(setpoint, battery) \in Int
                                  /\ Towards(setpoint, battery) <= -1
<1>1. CASE battery <= setpoint
  BY <1>1 DEF Towards
<1>2. CASE battery > setpoint
  <2> DEFINE e == setpoint - battery
             half == (-3 * e) \div 2
  <2>1. half \in Int /\ half >= 1
    BY <1>2
  <2>2. Towards(setpoint, battery) = -half
    BY <1>2 DEF Towards
  <2> HIDE DEF half
  <2> QED
    BY <1>2, <2>1, <2>2
<1> QED
  BY <1>1, <1>2

\* One turn, in a weather where the loop looks at the battery.
LEMMA TurnsGetFewer ==
  ASSUME charge_power \in Entered,
         weather.pv \in Int, weather.pv > 0, weather.limit \in Int, weather.limit >= 50,
         NEW import \in (-MaxImport) .. MaxImport
  PROVE  LET asked == NextImport(weather.limit, Charging(import), import)
         IN  /\ asked \in (-MaxImport) .. MaxImport
             /\ TurnsToGo(asked) \in Nat
             /\ \/ TurnsToGo(asked) < TurnsToGo(import)
                \/ TurnsToGo(asked) = 0 /\ asked = import
<1> DEFINE pv == weather.pv
           limit == weather.limit
           most == MaxImport
           battery == Charging(import)
           toward == Towards(Setpoint, battery)
           new == IF import > Setpoint THEN Setpoint ELSE import + toward
           clamped == Greatest(-most, Least(most, new))
           turns == (import > 0 /\ new < 0) \/ (import < 0 /\ new > 0)
           asked == NextImport(limit, battery, import)
<1>1. most \in Int /\ 0 <= most
  BY MaxImportInt
<1>2. import \in Int /\ -most <= import /\ import <= most
  BY <1>1
<1>3. Setpoint \in Int /\ 50 <= Setpoint /\ Setpoint <= limit
  BY DEF Setpoint, Greatest
<1>4. \A i \in Int : Charging(i) = IF limit < pv + i THEN limit ELSE pv + i
  BY DEF Charging, Least
<1>5. battery \in Int /\ battery = IF limit < pv + import THEN limit ELSE pv + import
  BY <1>2, <1>4
<1>6. asked = IF turns THEN 0 ELSE clamped
  BY DEF NextImport, Setpoint
<1>7. /\ battery <= Setpoint => toward = Setpoint - battery
      /\ battery > Setpoint => toward \in Int /\ toward <= -1
  <2> HIDE DEF battery
  <2> QED
    BY <1>3, <1>5, TowardsSetpoint
<1> HIDE DEF battery, toward, asked
<1>8. new \in Int
  BY <1>2, <1>3, <1>5, <1>7
<1>9. \A i \in Int : TurnsToGo(i) =
        IF (Charging(i) > Setpoint \/ i > Setpoint) /\ i > -most THEN i + most + 2
        ELSE IF Charging(i) < Setpoint /\ i < most THEN (IF i < 0 THEN 2 ELSE 1) ELSE 0
  <2> SUFFICES ASSUME NEW i \in Int
               PROVE  TurnsToGo(i) =
                        IF TooFast(i) /\ i > -most THEN i + most + 2
                        ELSE IF Charging(i) < Setpoint /\ i < most
                             THEN (IF i < 0 THEN 2 ELSE 1) ELSE 0
    BY DEF TooFast
  <2>1. ~(TooFast(i) /\ Charging(i) < Setpoint)
    BY <1>3, <1>4 DEF TooFast
  <2> QED
    BY <2>1 DEF TurnsToGo
<1>10. clamped = IF new > most THEN most ELSE IF new < -most THEN -most ELSE new
  <2> HIDE DEF new
  <2> QED
    BY <1>1, <1>8 DEF Greatest, Least
<1> HIDE DEF clamped
<1>11. \A i \in (-most) .. most : i \in Int /\ TurnsToGo(i) \in Nat
  BY <1>1, <1>9
<1>12. asked \in (-most) .. most
  <2> HIDE DEF new
  <2> QED
    BY <1>1, <1>6, <1>8, <1>10
<1>13. CASE TooFast(import) /\ import > -most
  <2>1. new < import
    BY <1>2, <1>3, <1>4, <1>5, <1>7, <1>13 DEF TooFast, battery
  <2>2. asked < import
    <3> HIDE DEF new
    <3> QED
      BY <1>1, <1>2, <1>6, <1>8, <1>10, <1>13, <2>1
  <2>3. TurnsToGo(import) = import + most + 2
    BY <1>2, <1>9, <1>13 DEF TooFast
  <2>4. asked \in Int /\ -most <= asked
    BY <1>1, <1>12
  <2> HIDE DEF new
  <2>5. TurnsToGo(asked) < TurnsToGo(import)
    BY <1>1, <1>2, <1>9, <1>13, <2>2, <2>3, <2>4
  <2> QED
    BY <1>11, <1>12, <2>5 DEF asked, battery
<1>14. CASE TooFast(import) /\ ~(import > -most)
  <2>1. import = -most /\ battery > Setpoint /\ import <= 0 /\ new < import
    BY <1>1, <1>2, <1>3, <1>7, <1>14 DEF TooFast, battery
  <2>2. asked = import
    <3> HIDE DEF new
    <3> QED
      BY <1>1, <1>2, <1>6, <1>8, <1>10, <2>1
  <2>3. ~(Charging(import) < Setpoint)
    BY <1>3, <1>5, <2>1 DEF battery
  <2>4. TurnsToGo(import) = 0
    BY <1>1, <1>2, <1>9, <2>1, <2>3
  <2> QED
    BY <1>11, <1>12, <2>2, <2>4 DEF asked, battery
<1>15. CASE battery < Setpoint
  <2>1. battery = pv + import /\ import < Setpoint /\ new = Setpoint - pv /\ new > import
    BY <1>2, <1>3, <1>5, <1>7, <1>15
  <2>2. CASE import = most
    <3>1. asked = most
      <4> HIDE DEF new
      <4> QED
        BY <1>1, <1>6, <1>8, <1>10, <2>1, <2>2
    <3>2. TurnsToGo(asked) = 0
      BY <1>1, <1>3, <1>4, <1>9, <1>15, <2>1, <2>2, <3>1 DEF battery
    <3> QED
      BY <1>11, <1>12, <2>2, <3>1, <3>2 DEF asked, battery
  <2>3. CASE import # most
    <3>1. TurnsToGo(import) = IF import < 0 THEN 2 ELSE 1
      BY <1>1, <1>2, <1>3, <1>9, <1>15, <2>1, <2>3 DEF battery
    <3> HIDE DEF new
    <3>2. CASE import < 0 /\ new > 0
      <4>1. asked = 0
        BY <1>6, <3>2
      <4>2. Charging(0) = pv /\ pv < Setpoint
        BY <1>3, <1>4, <2>1, <3>2
      <4>3. TurnsToGo(asked) \in {0, 1}
        BY <1>1, <1>3, <1>9, <4>1, <4>2
      <4>4. TurnsToGo(asked) < TurnsToGo(import)
        BY <3>1, <3>2, <4>3
      <4> QED
        BY <1>11, <1>12, <4>4 DEF asked, battery
    <3>3. CASE ~(import < 0 /\ new > 0)
      <4>1. asked = clamped
        BY <1>2, <1>6, <1>8, <2>1, <3>3
      <4>2. CASE new <= most
        <5>1. asked = new
          BY <1>1, <1>2, <1>8, <1>10, <2>1, <4>1, <4>2
        <5>2. Charging(new) = Setpoint
          BY <1>3, <1>4, <1>8, <2>1
        <5>3. new <= Setpoint
          BY <1>3, <2>1
        <5>4. TurnsToGo(asked) = 0
          BY <1>3, <1>8, <1>9, <5>1, <5>2, <5>3
        <5>5. TurnsToGo(asked) < TurnsToGo(import)
          BY <3>1, <5>4
        <5> QED
          BY <1>11, <1>12, <5>5 DEF asked, battery
      <4>3. CASE new > most
        <5>1. asked = most
          BY <1>10, <4>1, <4>3
        <5>2. Charging(most) < Setpoint /\ most < Setpoint
          BY <1>1, <1>3, <1>4, <2>1, <4>3
        <5>3. TurnsToGo(asked) = 0
          BY <1>1, <1>3, <1>4, <1>9, <5>1, <5>2
        <5>4. TurnsToGo(asked) < TurnsToGo(import)
          BY <3>1, <5>3
        <5> QED
          BY <1>11, <1>12, <5>4 DEF asked, battery
      <4> QED
        BY <1>1, <1>8, <4>2, <4>3
    <3> QED
      BY <3>2, <3>3
  <2> QED
    BY <2>2, <2>3
<1>16. CASE battery = Setpoint /\ ~(import > Setpoint)
  <2>1. new = import
    BY <1>2, <1>3, <1>7, <1>16
  <2>2. asked = import
    <3> HIDE DEF new
    <3> QED
      BY <1>1, <1>2, <1>6, <1>8, <1>10, <2>1
  <2>3. TurnsToGo(asked) = 0
    BY <1>2, <1>3, <1>9, <1>16, <2>2 DEF battery
  <2> QED
    BY <1>11, <1>12, <2>2, <2>3 DEF asked, battery
<1> QED
  BY <1>3, <1>5, <1>13, <1>14, <1>15, <1>16 DEF TooFast, battery

\* A turn while the loop has the say: it asks for the next import.
LEMMA TurnOfTheLoop ==
  ASSUME TypeInv, InControl, NEW t \in Task, PollSucceeds(t)
  PROVE  LET asked == NextImport(weather.limit, Charging(manager.import), manager.import)
         IN  manager'.import = asked /\ WillSet(task'[t], manager') = -asked
<1> DEFINE s == Measured
           import == IF manager.prev_mode # "force_charge" THEN 0
                     ELSE NextImport(s.limit, s.battery, manager.import)
           changed == [manager EXCEPT !.import = import]
<1>1. _update(t, manager, s, TRUE, None)
  BY DEF PollSucceeds, InControl
<1>2. _update_charge(t, manager, s, None)
  BY <1>1 DEF _update, InControl
<1>3. s.full = FALSE /\ s.pv > 0 /\ s.limit # None /\ s.limit >= 50 /\ s.pv = weather.pv
  BY DEF Measured, InControl, TypeInv
<1>4. s.pv \in Int /\ s.limit \in Int
  BY <1>3 DEF Measured, InControl, TypeInv
<1>5. ~(s.pv = 0) /\ ~(s.limit < 50)
  BY <1>3, <1>4
<1> HIDE DEF s
<1>6. _enable_remote_control(t, changed, s, "back_up", None, None)
  BY <1>2, <1>3, <1>5 DEF _update_charge
<1>7. import = NextImport(weather.limit, Charging(manager.import), manager.import)
  <2>1. manager.import \in Int /\ PowerOf(inverter.power) \in Int /\ weather.pv \in Int
    BY PowerIsInt DEF TypeInv, Manager
  <2>2. -PowerOf(inverter.power) = manager.import
    BY <2>1 DEF InControl
  <2>3. BatteryPower = Charging(manager.import)
    BY <2>2 DEF BatteryPower, Charging, InControl
  <2>4. s.limit = weather.limit /\ s.battery = BatteryPower
    BY DEF s, Measured
  <2> QED
    BY <2>3, <2>4 DEF InControl
<1> HIDE DEF import
<1>8. /\ changed.import = import
      /\ [changed EXCEPT !.enabled = TRUE].import = import
  BY DEF TypeInv, Manager
<1> HIDE DEF changed
<1>9. ASSUME NEW at, NEW m, m.import = import, Await(t, at, m, "back_up", None, None)
      PROVE  manager'.import = import /\ WillSet(task'[t], manager') = -import
  BY <1>9 DEF Await, Asked, WillSet, TypeInv
<1>10. manager'.import = import /\ WillSet(task'[t], manager') = -import
  BY <1>6, <1>8, <1>9 DEF _enable_remote_control, Engage
<1> QED
  BY <1>7, <1>10

\* In steady weather the control loop needs finitely many turns, each of which leaves
\* fewer to go, and then stands still where ChargeSettles wants it: at the setpoint,
\* or as near as the inverter's limits let it come (_update_charge). What is left
\* of ChargeSettles is that turns keep being taken, and their writes too.
THEOREM ControlLoopSettles == Spec => []SettledIsSteady /\ LoopConverges
<1>1. IInv => SettledIsSteady
  <2> SUFFICES ASSUME TypeInv, InControl, TurnsToGo(manager.import) = 0
               PROVE  Steady
    BY DEF IInv, SettledIsSteady
  <2> DEFINE import == manager.import
             limit == weather.limit
             pv == weather.pv
  <2>1. /\ import \in Int /\ PowerOf(inverter.power) \in Int /\ pv \in Int /\ limit \in Int
        /\ pv > 0 /\ limit >= 50 /\ limit # None
    BY PowerIsInt DEF TypeInv, Manager, InControl
  <2>2. -PowerOf(inverter.power) = import
    BY <2>1 DEF InControl
  <2>3. BatteryPower = Charging(import)
    BY <2>2 DEF BatteryPower, Charging, InControl
  <2>4. MaxImport \in Int /\ 0 <= MaxImport
    BY MaxImportInt DEF TypeInv
  <2>5. -MaxImport <= import /\ import <= MaxImport
    BY <2>4 DEF InControl
  <2>6. Setpoint \in Int /\ 50 <= Setpoint /\ Setpoint <= limit
    BY <2>1 DEF Setpoint, Greatest
  <2>7. Charging(import) \in Int
    BY <2>1 DEF Charging, Least
  <2>8. \/ Charging(import) = Setpoint
        \/ import = MaxImport /\ Charging(import) < limit
        \/ import = -MaxImport
    <3>1. CASE TooFast(import)
      <4>1. import > -MaxImport => TurnsToGo(import) = import + MaxImport + 2
        <5>1. ~(Charging(import) < Setpoint)
          BY <2>1, <2>6, <2>7, <3>1 DEF TooFast, Charging, Least
        <5> QED
          BY <3>1, <5>1 DEF TurnsToGo
      <4>2. ~(import > -MaxImport)
        BY <2>1, <2>4, <2>5, <4>1
      <4> QED
        BY <2>1, <2>4, <2>5, <4>2
    <3>2. CASE ~TooFast(import) /\ Charging(import) < Setpoint
      <4>1. import < MaxImport => TurnsToGo(import) = IF import < 0 THEN 2 ELSE 1
        BY <3>2 DEF TurnsToGo
      <4>2. ~(import < MaxImport)
        BY <2>1, <4>1
      <4> QED
        BY <2>1, <2>4, <2>5, <2>6, <2>7, <3>2, <4>2
    <3> QED
      BY <2>6, <2>7, <3>1, <3>2 DEF TooFast
  <2> HIDE DEF import
  <2>9. weather.pv # 0
    BY <2>1
  <2> QED
    BY <2>1, <2>2, <2>3, <2>8, <2>9 DEF Steady, Setpoint
<1>2. IInv /\ [Next]_vars =>
        [\A t \in Poller : InControl /\ PollSucceeds(t) =>
           LET asked == manager'.import
           IN  /\ WillSet(task'[t], manager') = -asked
               /\ asked \in (-MaxImport) .. MaxImport
               /\ TurnsToGo(asked) \in Nat
               /\ \/ TurnsToGo(asked) < TurnsToGo(manager.import)
                  \/ TurnsToGo(asked) = 0 /\ asked = manager.import]_vars
  <2> SUFFICES ASSUME TypeInv, NEW t \in Poller, InControl, PollSucceeds(t)
               PROVE  LET asked == manager'.import
                      IN  /\ WillSet(task'[t], manager') = -asked
                          /\ asked \in (-MaxImport) .. MaxImport
                          /\ TurnsToGo(asked) \in Nat
                          /\ \/ TurnsToGo(asked) < TurnsToGo(manager.import)
                             \/ TurnsToGo(asked) = 0 /\ asked = manager.import
    BY DEF IInv
  <2>1. t \in Task
    BY DEF Task
  <2>2. /\ charge_power \in Entered
        /\ weather.pv \in Int /\ weather.pv > 0 /\ weather.limit \in Int /\ weather.limit >= 50
        /\ manager.import \in (-MaxImport) .. MaxImport
    BY DEF TypeInv, InControl
  <2> QED
    BY <2>1, <2>2, TurnOfTheLoop, TurnsGetFewer
<1>3. Spec => []SettledIsSteady
  BY <1>1, AlwaysIInv, PTL
<1>4. Spec => LoopConverges
  BY <1>2, AlwaysIInv, PTL DEF Spec, LoopConverges
<1> QED
  BY <1>3, <1>4

-------------------------------------------------------------------------------
(***************************************************************************)
(* Why remote control ends once the user stays with no forced mode.        *)
(***************************************************************************)

\* The steps a task still takes that may enable remote control or feed its watchdog.
StepsToPower(k) ==
  LET steps == CASE k.at = "work_mode" -> 8 [] k.at = "timeout" -> 6
                 [] k.at = "enable" -> 4 [] k.at = "power" -> 2 [] OTHER -> 0
  IN  IF k.sent /\ steps > 0 THEN steps - 1 ELSE steps

\* Without a forced mode no task starts to enable remote control, and those that
\* were about to come to an end; only they turn it on or feed its watchdog, which
\* otherwise every poll brings nearer.
DisableWindsDown ==
  [][manager.mode = "disable" /\ manager'.mode = "disable" =>
       /\ \A t \in Task : StepsToPower(task'[t]) <= StepsToPower(task[t])
       /\ \A t \in Task : Runs(t) /\ StepsToPower(task[t]) > 0 =>
                            StepsToPower(task'[t]) < StepsToPower(task[t])
       /\ inverter'.enable /\ (~inverter.enable \/ quiet' < quiet) =>
            \E t \in Task : StepsToPower(task'[t]) < StepsToPower(task[t])
       /\ \A t \in Poller : PollSucceeds(t) /\ inverter.enable =>
            quiet' = IF quiet < 3 THEN quiet + 1 ELSE 3]_vars

Engaging == {"work_mode", "timeout", "enable", "power"}

\* t goes on, or ends, with nothing to enable; nobody else moves.
Calmly(t) ==
  /\ task'[t].at \notin Engaging
  /\ \A u \in Task \ {t} : task'[u] = task[u]

LEMMA StepsOf ==
  ASSUME NEW k, k.sent \in BOOLEAN
  PROVE  /\ StepsToPower(k) \in Nat
         /\ StepsToPower(k) = 0 <=> k.at \notin Engaging
<1>1. CASE k.at \in Engaging
  BY <1>1 DEF StepsToPower, Engaging
<1>2. CASE k.at \notin Engaging
  BY <1>2 DEF StepsToPower, Engaging
<1> QED
  BY <1>1, <1>2

LEMMA AwaitsCalmly ==
  ASSUME TypeInv, NEW t \in Task, NEW at, at \notin Engaging, NEW m, NEW w, NEW p, NEW next,
         Await(t, at, m, w, p, next)
  PROVE  Calmly(t) /\ manager' = m
  BY DEF Await, TypeInv, Calmly

LEMMA IdlesCalmly ==
  ASSUME TypeInv, NEW t \in Task, task' = [task EXCEPT ![t] = Idle]
  PROVE  Calmly(t)
  BY DEF TypeInv, Calmly, Idle, Engaging

LEMMA FinishesCalmly ==
  ASSUME TypeInv, NEW t \in Task, NEW m \in Manager, NEW next, Finish(t, m, next)
  PROVE  Calmly(t) /\ manager'.mode = m.mode
<1> DEFINE done == [m EXCEPT !.prev_mode = m.mode]
<1>1. done.mode = m.mode
  BY DEF Manager
<1>2. "update" \notin Engaging /\ "select" \notin Engaging
  BY DEF Engaging
<1> HIDE DEF done
<1>3. \/ task' = [task EXCEPT ![t] = Idle] /\ manager' = done
      \/ Await(t, "update", done, None, 0, None)
      \/ Await(t, "select", done, next, 0, None)
  BY DEF Finish, done
<1> QED
  BY <1>1, <1>2, <1>3, AwaitsCalmly, IdlesCalmly

LEMMA FallsBackCalmly ==
  ASSUME TypeInv, NEW t \in Task, NEW m \in Manager, NEW s, NEW w, NEW next,
         FallBack(t, m, s, w, next)
  PROVE  Calmly(t) /\ manager'.mode = m.mode
<1>1. "fall_back" \notin Engaging
  BY DEF Engaging
<1> QED
  BY <1>1, AwaitsCalmly, FinishesCalmly DEF FallBack

LEMMA DisablesCalmly ==
  ASSUME TypeInv, NEW t \in Task, NEW m \in Manager, NEW s, NEW w, NEW next,
         _disable_remote_control(t, m, s, w, next)
  PROVE  Calmly(t) /\ manager'.mode = m.mode
<1>1. "disable" \notin Engaging /\ [m EXCEPT !.enabled = FALSE].mode = m.mode
  BY DEF Engaging, Manager
<1> QED
  BY <1>1, AwaitsCalmly, FallsBackCalmly DEF _disable_remote_control

LEMMA EnablingKeepsMode ==
  ASSUME TypeInv, NEW t \in Task, NEW m \in Manager, NEW s, NEW w, NEW p, NEW next,
         _enable_remote_control(t, m, s, w, p, next)
  PROVE  manager'.mode = m.mode
<1>1. [m EXCEPT !.enabled = TRUE].mode = m.mode
  BY DEF Manager
<1> QED
  BY <1>1 DEF _enable_remote_control, Engage, Await

LEMMA UpdateKeepsMode ==
  ASSUME TypeInv, NEW t \in Task, NEW m \in Manager, NEW s, NEW is_connected \in BOOLEAN,
         NEW next, _update(t, m, s, is_connected, next)
  PROVE  /\ manager'.mode = m.mode
         /\ m.mode = "disable" => Calmly(t)
<1>1. CASE ~is_connected
  <2>1. manager' = [m EXCEPT !.prev_mode = "disable"]
    BY <1>1 DEF _update
  <2>2. manager'.mode = m.mode
    BY <2>1 DEF Manager
  <2>3. \/ task' = [task EXCEPT ![t] = Idle]
        \/ task' = [task EXCEPT ![t] = [Idle EXCEPT !.at = "select", !.work_mode = next]]
    BY <1>1 DEF _update
  <2>4. [Idle EXCEPT !.at = "select", !.work_mode = next].at = "select"
    BY DEF Idle
  <2>5. Calmly(t)
    BY <2>3, <2>4, IdlesCalmly DEF TypeInv, Calmly, Engaging
  <2> QED
    BY <2>2, <2>5
<1>2. CASE is_connected /\ m.mode = "disable"
  <2>1. _disable_remote_control(t, m, s, None, next)
    BY <1>2 DEF _update
  <2> QED
    BY <2>1, DisablesCalmly
<1>3. CASE is_connected /\ m.mode = "force_charge"
  <2>1. _update_charge(t, m, s, next)
    BY <1>3 DEF _update
  <2> DEFINE import == IF m.prev_mode # "force_charge" THEN 0
                       ELSE NextImport(s.limit, s.battery, m.import)
             changed == [m EXCEPT !.import = import]
  <2>2. \/ _disable_remote_control(t, m, s, "back_up", next)
        \/ _enable_remote_control(t, m, s, "back_up", -MaxImport, next)
        \/ _enable_remote_control(t, changed, s, "back_up", None, next)
    BY <2>1 DEF _update_charge
  <2>3. CASE _enable_remote_control(t, changed, s, "back_up", None, next)
    <3>1. changed.mode = m.mode /\ [changed EXCEPT !.enabled = TRUE].mode = m.mode
      BY DEF Manager
    <3> HIDE DEF changed, import
    <3>2. manager'.mode = m.mode
      BY <2>3, <3>1 DEF _enable_remote_control, Engage, Await
    <3> QED
      BY <1>3, <3>2
  <2> HIDE DEF changed, import
  <2> QED
    BY <1>3, <2>2, <2>3, DisablesCalmly, EnablingKeepsMode
<1>4. CASE is_connected /\ m.mode = "force_discharge"
  <2>1. _enable_remote_control(t, m, s, "feed_in_first", MaxExport, next)
    BY <1>4 DEF _update
  <2> QED
    BY <1>4, <2>1, EnablingKeepsMode
<1> QED
  BY <1>1, <1>2, <1>3, <1>4 DEF Manager, RemoteControlMode

QuietIsCounted == quiet \in 0 .. 3

\* What a step that decides afresh, or ends a task, does without a forced mode.
LEMMA DecidesCalmly ==
  ASSUME IInv, QuietIsCounted, manager.mode = "disable", manager'.mode = "disable",
         NEW t \in Task,
         PollSucceeds(t) \/ PollFails(t) \/ SelectMode(t) \/ UpdatesAgain(t) \/ WriteFails(t)
  PROVE  /\ Calmly(t) /\ inverter' = inverter
         /\ inverter.enable => quiet' >= quiet
<1>0. TypeInv /\ manager \in Manager /\ connected \in BOOLEAN
  BY DEF IInv, TypeInv
<1>1. ASSUME NEW m \in Manager, NEW s, NEW c \in BOOLEAN, NEW next, _update(t, m, s, c, next)
      PROVE  Calmly(t)
  BY <1>0, <1>1, UpdateKeepsMode
<1>2. inverter.enable => Quieter >= quiet
  BY DEF Quieter, QuietIsCounted, Least
<1>3. quiet \in Int
  BY DEF QuietIsCounted
<1>4. CASE PollSucceeds(t)
  <2>1. [manager EXCEPT !.enabled = FALSE] \in Manager
    BY <1>0 DEF Manager
  <2>2. Calmly(t)
    BY <1>0, <1>1, <1>4, <2>1 DEF PollSucceeds
  <2> QED
    BY <1>2, <1>4, <2>2 DEF PollSucceeds
<1>5. CASE PollFails(t)
  <2>1. Calmly(t)
    BY <1>0, <1>1, <1>5 DEF PollFails
  <2> QED
    BY <1>2, <1>5, <2>1 DEF PollFails
<1>6. CASE SelectMode(t)
  <2>1. PICK mode \in RemoteControlMode, w \in {None, "self_use"} : set_mode(t, mode, w)
    BY <1>6 DEF SelectMode, RemoteControlMode
  <2>2. [manager EXCEPT !.mode = mode] \in Manager
    BY <1>0 DEF Manager
  <2>3. "select" \notin Engaging
    BY DEF Engaging
  <2>4. Calmly(t)
    BY <1>0, <1>1, <2>1, <2>2, <2>3, AwaitsCalmly DEF set_mode
  <2>5. UNCHANGED <<inverter, quiet>>
    BY <2>1 DEF set_mode
  <2> QED
    BY <1>3, <2>4, <2>5
<1>7. CASE UpdatesAgain(t)
  <2>1. Calmly(t)
    BY <1>0, <1>1, <1>7 DEF UpdatesAgain
  <2> QED
    BY <1>3, <1>7, <2>1 DEF UpdatesAgain
<1>8. CASE WriteFails(t)
  <2>1. Calmly(t)
    BY <1>0, <1>8, IdlesCalmly DEF WriteFails
  <2> QED
    BY <1>3, <1>8, <2>1 DEF WriteFails
<1> QED
  BY <1>4, <1>5, <1>6, <1>7, <1>8

\* What a write that ends, or takes effect, does.
LEMMA WritesWindDown ==
  ASSUME IInv, NEW t \in Task, Applied(t) \/ Resumes(t)
  PROVE  /\ \A u \in Task \ {t} : task'[u] = task[u]
         /\ StepsToPower(task'[t]) <= StepsToPower(task[t])
         /\ StepsToPower(task[t]) > 0 => StepsToPower(task'[t]) < StepsToPower(task[t])
         /\ inverter'.enable /\ (~inverter.enable \/ quiet' # quiet) => StepsToPower(task[t]) > 0
<1>0. TypeInv /\ manager \in Manager /\ task[t] \in TaskState /\ task \in [Task -> TaskState]
  BY DEF IInv, TypeInv
<1> DEFINE now == task[t]
<1>1. now.sent \in BOOLEAN /\ StepsToPower(now) \in Nat
  BY <1>0, StepsOf DEF TaskState
<1>2. ASSUME Calmly(t)
      PROVE  /\ \A u \in Task \ {t} : task'[u] = task[u]
             /\ StepsToPower(task'[t]) = 0
  BY <1>2 DEF Calmly, StepsToPower, Engaging
<1>3. CASE Applied(t)
  <2>1. /\ now.sent = FALSE
        /\ task' = [task EXCEPT ![t].sent = TRUE]
    BY <1>1, <1>3 DEF Applied
  <2>2. /\ task'[t].at = now.at /\ task'[t].sent = TRUE
        /\ \A u \in Task \ {t} : task'[u] = task[u]
    BY <1>0, <2>1 DEF TaskState
  <2>3. /\ StepsToPower(task'[t]) <= StepsToPower(now)
        /\ StepsToPower(now) > 0 => StepsToPower(task'[t]) < StepsToPower(now)
    BY <2>1, <2>2 DEF StepsToPower
  <2>4. now.at # "enable" => inverter'.enable \in {FALSE, inverter.enable}
    <3>1. inverter = [enable |-> inverter.enable, timeout |-> inverter.timeout,
                      work_mode |-> inverter.work_mode, power |-> inverter.power]
      BY <1>0 DEF TypeInv
    <3> QED
      BY <1>3, <3>1 DEF Applied
  <2>5. now.at \notin {"enable", "power"} => quiet' = quiet
    BY <1>3 DEF Applied
  <2>6. now.at \in {"enable", "power"} => StepsToPower(now) > 0
    BY <1>1, StepsOf DEF Engaging
  <2>7. inverter.enable \in BOOLEAN
    BY <1>0 DEF TypeInv
  <2> QED
    BY <2>2, <2>3, <2>4, <2>5, <2>6, <2>7
<1>4. CASE Resumes(t)
  <2>1. now.sent = TRUE /\ UNCHANGED <<inverter, quiet>>
    BY <1>1, <1>4 DEF Resumes
  <2>2. /\ "select" \notin Engaging /\ "disable" \notin Engaging
        /\ "fall_back" \notin Engaging
    BY DEF Engaging
  <2>3. ASSUME NEW at, NEW m, NEW w, NEW p, NEW next, Await(t, at, m, w, p, next)
        PROVE  /\ task'[t].at = at /\ task'[t].sent = FALSE
               /\ \A u \in Task \ {t} : task'[u] = task[u]
    BY <1>0, <2>3 DEF Await
  <2>4. CASE now.at = "work_mode"
    <3>1. Engage(t, manager, now.work_mode, now.power, now.next)
      BY <1>4, <2>4 DEF Resumes
    <3>2. /\ task'[t].at \in {"power", "timeout"} /\ task'[t].sent = FALSE
          /\ \A u \in Task \ {t} : task'[u] = task[u]
      BY <2>3, <3>1 DEF Engage
    <3>3. StepsToPower(now) = 7 /\ StepsToPower(task'[t]) \in {2, 6}
      BY <2>1, <2>4, <3>2 DEF StepsToPower
    <3> QED
      BY <2>1, <3>2, <3>3
  <2>5. CASE now.at = "timeout"
    <3>1. Await(t, "enable", manager, now.work_mode, now.power, now.next)
      BY <1>4, <2>5 DEF Resumes
    <3>2. /\ task'[t].at = "enable" /\ task'[t].sent = FALSE
          /\ \A u \in Task \ {t} : task'[u] = task[u]
      BY <2>3, <3>1
    <3>3. StepsToPower(now) = 5 /\ StepsToPower(task'[t]) = 4
      BY <2>1, <2>5, <3>2 DEF StepsToPower
    <3> QED
      BY <2>1, <3>2, <3>3
  <2>6. CASE now.at = "enable"
    <3>1. Await(t, "power", manager, now.work_mode, now.power, now.next)
      BY <1>4, <2>6 DEF Resumes
    <3>2. /\ task'[t].at = "power" /\ task'[t].sent = FALSE
          /\ \A u \in Task \ {t} : task'[u] = task[u]
      BY <2>3, <3>1
    <3>3. StepsToPower(now) = 3 /\ StepsToPower(task'[t]) = 2
      BY <2>1, <2>6, <3>2 DEF StepsToPower
    <3> QED
      BY <2>1, <3>2, <3>3
  <2>7. CASE now.at \notin {"work_mode", "timeout", "enable"}
    <3>1. \/ FallBack(t, manager, seen, now.work_mode, now.next)
          \/ task' = [task EXCEPT ![t] = Idle]
          \/ Finish(t, manager, now.next)
      BY <1>4, <2>7 DEF Resumes
    <3>2. Calmly(t)
      BY <1>0, <3>1, FallsBackCalmly, IdlesCalmly, FinishesCalmly
    <3>3. StepsToPower(task'[t]) = 0 /\ \A u \in Task \ {t} : task'[u] = task[u]
      BY <1>2, <3>2
    <3> QED
      BY <1>1, <2>1, <3>3
  <2> QED
    BY <2>4, <2>5, <2>6, <2>7
<1> QED
  BY <1>3, <1>4

LEMMA AlwaysCounted == Spec => []QuietIsCounted
<1>1. Init => QuietIsCounted
  BY DEF Init, QuietIsCounted
<1>2. QuietIsCounted /\ [Next]_vars => QuietIsCounted'
  <2> SUFFICES ASSUME QuietIsCounted, [Next]_vars
               PROVE  quiet' \in {quiet, 0, Quieter}
    BY DEF QuietIsCounted, Quieter, Least
  <2>1. ASSUME NEW t \in Task, Runs(t) \/ WriteFails(t)
        PROVE  quiet' \in {quiet, 0}
    BY <2>1 DEF Runs, Applied, Resumes, UpdatesAgain, WriteFails
  <2>2. ASSUME NEW t \in Poller, PollSucceeds(t) \/ PollFails(t)
        PROVE  quiet' = Quieter
    BY <2>2 DEF PollSucceeds, PollFails
  <2>3. ASSUME NEW t \in User, SelectMode(t)
        PROVE  quiet' = quiet
    BY <2>3 DEF SelectMode, set_mode
  <2>4. ASSUME NEW asked \in Powers, EnterPower(asked)
        PROVE  quiet' = quiet
    BY <2>4 DEF EnterPower
  <2>5. ASSUME NEW work_mode \in WorkMode, SetAtPanel(work_mode)
        PROVE  quiet' = quiet
    BY <2>5 DEF SetAtPanel
  <2>6. WriteDelayOver \/ Watchdog \/ WeatherTurns \/ Restart \/ UNCHANGED vars => quiet' = quiet
    BY DEF WriteDelayOver, Watchdog, WeatherTurns, Restart, vars
  <2> QED
    BY <2>1, <2>2, <2>3, <2>4, <2>5, <2>6 DEF Next
<1> QED
  BY <1>1, <1>2, PTL DEF Spec

\* A step that is nobody's: it enables nothing.
LEMMA OthersEnableNothing ==
  ASSUME IInv, QuietIsCounted, [Next]_vars,
         \A t \in Task : ~(Runs(t) \/ WriteFails(t)),
         \A t \in Poller : ~(PollSucceeds(t) \/ PollFails(t)),
         \A t \in User : ~SelectMode(t)
  PROVE  /\ \A t \in Task : task'[t] \in {task[t], Idle}
         /\ inverter'.enable => inverter.enable
         /\ quiet' = quiet
<1>1. TypeInv
  BY DEF IInv
<1>2. CASE Restart
  BY <1>2 DEF Restart, outside
<1>3. CASE Watchdog
  BY <1>1, <1>3 DEF Watchdog, TypeInv
<1>4. ASSUME NEW work_mode \in WorkMode, SetAtPanel(work_mode)
      PROVE  task' = task /\ inverter'.enable = inverter.enable /\ quiet' = quiet
  BY <1>1, <1>4 DEF SetAtPanel, TypeInv
<1>5. ASSUME NEW asked \in Powers, EnterPower(asked)
      PROVE  UNCHANGED <<task, inverter, quiet>>
  BY <1>5 DEF EnterPower
<1>6. WriteDelayOver \/ WeatherTurns \/ UNCHANGED vars => UNCHANGED <<task, inverter, quiet>>
  BY DEF WriteDelayOver, WeatherTurns, vars
<1> QED
  BY <1>2, <1>3, <1>4, <1>5, <1>6 DEF Next

LEMMA WindsDown ==
  ASSUME IInv, QuietIsCounted, [Next]_vars, manager.mode = "disable", manager'.mode = "disable"
  PROVE  /\ \A t \in Task : StepsToPower(task'[t]) <= StepsToPower(task[t])
         /\ inverter'.enable /\ (~inverter.enable \/ quiet' < quiet) =>
              \E t \in Task : StepsToPower(task'[t]) < StepsToPower(task[t])
<1>1. TypeInv /\ task \in [Task -> TaskState] /\ inverter.enable \in BOOLEAN /\ quiet \in Int
  BY DEF IInv, TypeInv, QuietIsCounted
<1>2. ASSUME NEW t \in Task
      PROVE  StepsToPower(task[t]) \in Nat
  <2>1. task[t].sent \in BOOLEAN
    BY <1>1 DEF TaskState
  <2> QED
    BY <2>1, StepsOf
<1>3. \A k : k.at \notin Engaging => StepsToPower(k) = 0
  BY DEF StepsToPower, Engaging
<1>4. CASE \E t \in Task : PollSucceeds(t) \/ PollFails(t) \/ SelectMode(t) \/ UpdatesAgain(t)
                           \/ WriteFails(t)
  <2>1. PICK t \in Task : /\ Calmly(t) /\ inverter' = inverter
                          /\ inverter.enable => quiet' >= quiet
    BY <1>4, DecidesCalmly
  <2>2. StepsToPower(task'[t]) = 0 /\ \A u \in Task \ {t} : task'[u] = task[u]
    BY <1>3, <2>1 DEF Calmly
  <2>3. \A u \in Task : StepsToPower(task'[u]) <= StepsToPower(task[u])
    BY <1>2, <2>2
  <2>4. quiet' \in Int
    <3>1. PICK u \in Task : PollSucceeds(u) \/ PollFails(u) \/ SelectMode(u) \/ UpdatesAgain(u)
                            \/ WriteFails(u)
      BY <1>4
    <3>2. quiet' = quiet \/ quiet' = Quieter
      BY <3>1 DEF PollSucceeds, PollFails, SelectMode, set_mode, UpdatesAgain, WriteFails
    <3> QED
      BY <1>1, <3>2 DEF Quieter, Least
  <2>5. ~(inverter'.enable /\ (~inverter.enable \/ quiet' < quiet))
    BY <1>1, <2>1, <2>4
  <2> QED
    BY <2>3, <2>5
<1>5. CASE \E t \in Task : Applied(t) \/ Resumes(t)
  <2>1. PICK t \in Task : Applied(t) \/ Resumes(t)
    BY <1>5
  <2>2. /\ \A u \in Task \ {t} : task'[u] = task[u]
        /\ StepsToPower(task'[t]) <= StepsToPower(task[t])
        /\ StepsToPower(task[t]) > 0 => StepsToPower(task'[t]) < StepsToPower(task[t])
        /\ inverter'.enable /\ (~inverter.enable \/ quiet' # quiet) => StepsToPower(task[t]) > 0
    BY <2>1, WritesWindDown
  <2>3. \A u \in Task : StepsToPower(task'[u]) <= StepsToPower(task[u])
    BY <1>2, <2>2
  <2>4. quiet' < quiet => quiet' # quiet
    BY <1>1
  <2> QED
    BY <2>2, <2>3, <2>4
<1>6. CASE /\ \A t \in Task : ~(Runs(t) \/ WriteFails(t))
           /\ \A t \in Poller : ~(PollSucceeds(t) \/ PollFails(t))
           /\ \A t \in User : ~SelectMode(t)
  <2>1. /\ \A t \in Task : task'[t] \in {task[t], Idle}
        /\ inverter'.enable => inverter.enable
        /\ quiet' = quiet
    BY <1>6, OthersEnableNothing
  <2>2. StepsToPower(Idle) = 0
    BY <1>3 DEF Idle, Engaging
  <2>3. \A t \in Task : StepsToPower(task'[t]) <= StepsToPower(task[t])
    BY <1>2, <2>1, <2>2
  <2>4. ~(quiet' < quiet)
    BY <1>1, <2>1
  <2> QED
    BY <2>1, <2>3, <2>4
<1>7. Poller \subseteq Task /\ User \subseteq Task
  BY DEF Task
<1> QED
  BY <1>4, <1>5, <1>6, <1>7 DEF Runs

\* Once the user stays with no forced mode, whatever the tasks were about to do and
\* however their writes mix or fail: none starts to enable remote control, each that
\* was about to has at most eight steps left, and without those steps remote
\* control is not turned on again nor its watchdog fed, while polls make it fire
\* (_disable_remote_control). With WatchdogIsAlwaysSet this is DisableStops but for
\* the argument that the steps and the polls are taken.
THEOREM RemoteControlEnds == Spec => DisableWindsDown
<1>1. IInv /\ QuietIsCounted /\ [Next]_vars =>
        [manager.mode = "disable" /\ manager'.mode = "disable" =>
           /\ \A t \in Task : StepsToPower(task'[t]) <= StepsToPower(task[t])
           /\ \A t \in Task : Runs(t) /\ StepsToPower(task[t]) > 0 =>
                                StepsToPower(task'[t]) < StepsToPower(task[t])
           /\ inverter'.enable /\ (~inverter.enable \/ quiet' < quiet) =>
                \E t \in Task : StepsToPower(task'[t]) < StepsToPower(task[t])
           /\ \A t \in Poller : PollSucceeds(t) /\ inverter.enable =>
                quiet' = IF quiet < 3 THEN quiet + 1 ELSE 3]_vars
  <2> SUFFICES ASSUME IInv, QuietIsCounted, [Next]_vars,
                      manager.mode = "disable", manager'.mode = "disable"
               PROVE  /\ \A t \in Task : StepsToPower(task'[t]) <= StepsToPower(task[t])
                      /\ \A t \in Task : Runs(t) /\ StepsToPower(task[t]) > 0 =>
                                           StepsToPower(task'[t]) < StepsToPower(task[t])
                      /\ inverter'.enable /\ (~inverter.enable \/ quiet' < quiet) =>
                           \E t \in Task : StepsToPower(task'[t]) < StepsToPower(task[t])
                      /\ \A t \in Poller : PollSucceeds(t) /\ inverter.enable =>
                           quiet' = IF quiet < 3 THEN quiet + 1 ELSE 3
    OBVIOUS
  <2>1. ASSUME NEW t \in Task, Runs(t), StepsToPower(task[t]) > 0
        PROVE  StepsToPower(task'[t]) < StepsToPower(task[t])
    <3>1. CASE Applied(t) \/ Resumes(t)
      BY <2>1, <3>1, WritesWindDown
    <3>2. CASE UpdatesAgain(t)
      <4>1. StepsToPower(task[t]) = 0
        BY <3>2 DEF UpdatesAgain, StepsToPower
      <4> QED
        BY <2>1, <4>1
    <3> QED
      BY <2>1, <3>1, <3>2 DEF Runs
  <2>2. ASSUME NEW t \in Poller, PollSucceeds(t), inverter.enable
        PROVE  quiet' = IF quiet < 3 THEN quiet + 1 ELSE 3
    BY <2>2 DEF PollSucceeds, Quieter, Least, QuietIsCounted
  <2> QED
    BY <2>1, <2>2, WindsDown
<1> QED
  BY <1>1, AlwaysIInv, AlwaysCounted, PTL DEF Spec, DisableWindsDown
===============================================================================
