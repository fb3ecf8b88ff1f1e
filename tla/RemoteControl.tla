---------------------------- MODULE RemoteControl ----------------------------
(***************************************************************************)
(* RemoteControlManager: it forces the inverter to charge or to discharge  *)
(* by writing its remote control registers after every poll, next to the   *)
(* user who changes the mode.  Every write is awaited, so the two mix.     *)
(* Powers are in W; a battery power here is positive when it charges.      *)
(***************************************************************************)
EXTENDS Integers, Sequences

CONSTANTS
  Poller, User,     \* the tasks: the timer's, and those of the user's calls
  None,
  Capacity,         \* inverter_capacity
  NumWords,         \* registers of the active power: 1 or 2
  HasWorkMode,      \* FALSE where the work mode has no register
  Weather,          \* [pv, limit, full]: the sun, what the battery accepts, SoC >= Max SoC
  Powers,           \* what the user may enter for the charge and the discharge power
  MaxChanges, MaxFailures   \* bounds on what happens from outside, and on failures

VARIABLES
  manager,     \* [mode, prev_mode, enabled, import]
  charge_power, discharge_power,   \* as the user entered them
  seen,        \* the registers as the last poll read them
  written,     \* the work mode last written, while _INVERTER_WRITE_DELAY_SECS last
  connected,
  task,        \* what each task awaits
  inverter,    \* [enable, timeout, work_mode, power]: its registers
  quiet,       \* polls since the inverter was last given a power
  weather,
  changes, failures

powers == <<charge_power, discharge_power>>
vars == <<manager, powers, seen, written, connected, task, inverter, quiet, weather,
          changes, failures>>
outside == <<weather, changes>>

Task == Poller \union User
RemoteControlMode == {"disable", "force_charge", "force_discharge"}
WorkMode == {"self_use", "feed_in_first", "back_up"}

\* The registers of the active power hold what the inverter can deliver.
ASSUME RemoteControlAssumption ==
  /\ NumWords \in {1, 2}
  /\ Capacity \in Nat
  /\ Capacity <= IF NumWords = 1 THEN 32767 ELSE 2147483647
  /\ HasWorkMode \in BOOLEAN
  /\ Weather \subseteq [pv : Int, limit : Int \cup {None}, full : BOOLEAN]
  /\ Powers \subseteq Int \cup {None}
  /\ None \notin WorkMode \cup {"update"}

Idle == [at |-> "idle", work_mode |-> None, power |-> 0, sent |-> FALSE, next |-> None]

Least(a, b) == IF a < b THEN a ELSE b
Greatest(a, b) == IF a > b THEN a ELSE b

-----------------------------------------------------------------------------
(* The active power, in one register or in two with the low word last.     *)
LowWord(power) == power % 65536
HighWord(power) == (power \div 65536) % 65536

Unreversed(power) ==   \* mutant: the words the other way round
  IF NumWords = 1 THEN <<LowWord(power)>> ELSE <<LowWord(power), HighWord(power)>>

PowerWords(power) ==
  IF NumWords = 1 THEN <<LowWord(power)>> ELSE <<HighWord(power), LowWord(power)>>

\* What the inverter makes of them: the first word has the sign.
PowerOf(words) ==
  LET first == IF words[1] >= 32768 THEN words[1] - 65536 ELSE words[1]
  IN  IF NumWords = 1 THEN first ELSE first * 65536 + words[2]

\* The inverter's battery, as the comments of _update_charge tell it: what is
\* brought in displaces PV, and the battery takes no more than its limit.
BatteryPower ==
  LET limit == IF weather.limit = None THEN Capacity ELSE weather.limit
      brought == IF inverter.enable THEN -PowerOf(inverter.power) ELSE 0
  IN  Least(limit, weather.pv + brought)

Measured == [pv |-> weather.pv, limit |-> weather.limit, full |-> weather.full,
             battery |-> BatteryPower, work_mode |-> inverter.work_mode]

-----------------------------------------------------------------------------
(* A task goes on to its next write, or ends: m is the manager by then, w  *)
(* the work mode to fall back to and p the power to set, or None for the   *)
(* import that the manager has when that write begins.                     *)
Asked(at, m, p) == IF at = "power" /\ p = None THEN -m.import ELSE p

Await(t, at, m, w, p, next) ==
  /\ task' = [task EXCEPT ![t] = [at |-> at, work_mode |-> w, power |-> Asked(at, m, p),
                                  sent |-> FALSE, next |-> next]]
  /\ manager' = m

IsMode(s, w) == (IF written # None THEN written ELSE s.work_mode) = w

EnablesFirst(t, m, w, p, next) ==   \* mutant: remote control on before its watchdog is set
  IF m.enabled THEN Await(t, "power", m, w, p, next)
  ELSE Await(t, "enable", [m EXCEPT !.enabled = TRUE], w, p, next)

Engage(t, m, w, p, next) ==
  IF m.enabled THEN Await(t, "power", m, w, p, next)
  ELSE Await(t, "timeout", [m EXCEPT !.enabled = TRUE], w, p, next)

_enable_remote_control(t, m, s, w, p, next) ==
  IF HasWorkMode /\ ~IsMode(s, w) THEN Await(t, "work_mode", m, w, p, next)
  ELSE Engage(t, m, w, p, next)

\* The end of _update; next is what the task still has to do.
Finish(t, m, next) ==
  LET done == [m EXCEPT !.prev_mode = m.mode]
  IN  CASE next = None -> /\ task' = [task EXCEPT ![t] = Idle]
                          /\ manager' = done
        [] next = "update" -> Await(t, "update", done, None, 0, None)
        [] OTHER -> Await(t, "select", done, next, 0, None)

FallBack(t, m, s, w, next) ==
  IF w # None /\ HasWorkMode /\ ~IsMode(s, w) THEN Await(t, "fall_back", m, w, 0, next)
  ELSE Finish(t, m, next)

LeavesItOn(t, m, s, w, next) ==   \* mutant: forgets to fall back to the work mode
  IF m.enabled THEN Await(t, "disable", [m EXCEPT !.enabled = FALSE], None, 0, next)
  ELSE Finish(t, m, next)

_disable_remote_control(t, m, s, w, next) ==
  IF m.enabled THEN Await(t, "disable", [m EXCEPT !.enabled = FALSE], w, 0, next)
  ELSE FallBack(t, m, s, w, next)

-----------------------------------------------------------------------------
(* _update_charge: how much to import so that the battery charges at just  *)
(* less than what it can take, and PV is not clipped.                      *)
SetPower(asked) == IF asked = None THEN None ELSE Greatest(0, Least(Capacity, asked))

MaxImport == IF charge_power = None THEN Capacity ELSE Least(charge_power, Capacity)

Towards(setpoint, battery) ==   \* int(p * error)
  LET error == setpoint - battery IN IF error < 0 THEN -((-3 * error) \div 2) ELSE error

TowardsLimit(limit, battery, previous) ==   \* mutant: the sign of the battery power forgotten
  LET setpoint == Greatest(limit - 200, 50)
  IN  Greatest(-MaxImport, Least(MaxImport, previous + Towards(setpoint, -battery)))

NextImport(limit, battery, previous) ==
  LET setpoint == Greatest(limit - 200, 50)
      new == IF previous > setpoint THEN setpoint ELSE previous + Towards(setpoint, battery)
      turns == (previous > 0 /\ new < 0) \/ (previous < 0 /\ new > 0)
  IN  IF turns THEN 0 ELSE Greatest(-MaxImport, Least(MaxImport, new))

_update_charge(t, m, s, next) ==
  CASE s.full -> _disable_remote_control(t, m, s, "back_up", next)
    [] ~s.full /\ (s.pv = 0 \/ s.limit = None) ->
         _enable_remote_control(t, m, s, "back_up", -MaxImport, next)
    [] ~s.full /\ s.pv > 0 /\ s.limit # None /\ s.limit < 50 ->
         _disable_remote_control(t, m, s, "back_up", next)
    [] OTHER ->
         LET import == IF m.prev_mode # "force_charge" THEN 0
                       ELSE NextImport(s.limit, s.battery, m.import)
         IN  _enable_remote_control(t, [m EXCEPT !.import = import], s, "back_up", None, next)

AllOut == Capacity   \* mutant: whatever the user entered

\* _update_discharge: how much to export.
MaxExport == IF discharge_power = None THEN Capacity ELSE Least(discharge_power, Capacity)

_update(t, m, s, is_connected, next) ==
  CASE ~is_connected ->
         /\ manager' = [m EXCEPT !.prev_mode = "disable"]
         /\ IF next = None THEN task' = [task EXCEPT ![t] = Idle]
            ELSE task' = [task EXCEPT ![t] = [Idle EXCEPT !.at = "select", !.work_mode = next]]
    [] is_connected /\ m.mode = "disable" -> _disable_remote_control(t, m, s, None, next)
    [] is_connected /\ m.mode = "force_charge" -> _update_charge(t, m, s, next)
    [] is_connected /\ m.mode = "force_discharge" ->
         _enable_remote_control(t, m, s, "feed_in_first", MaxExport, next)

-----------------------------------------------------------------------------
(* What starts a task: a poll, or the user.                                *)
Quieter == IF inverter.enable THEN Least(quiet + 1, 3) ELSE 0

\* A poll that works: became_connected_callback and poll_complete_callback.
PollSucceeds(t) ==
  /\ task[t] = Idle
  /\ seen' = Measured /\ connected' = TRUE
  /\ quiet' = Quieter
  /\ IF connected THEN _update(t, manager, Measured, TRUE, None)
     ELSE _update(t, [manager EXCEPT !.enabled = FALSE], Measured, TRUE, "update")
  /\ UNCHANGED <<powers, written, inverter, failures, outside>>

\* A poll that does not; the last of _NUM_FAILED_POLLS_FOR_DISCONNECTION disconnects.
PollFails(t) ==
  /\ task[t] = Idle
  /\ failures < MaxFailures /\ failures' = failures + 1
  /\ quiet' = Quieter
  /\ \E still \in {connected, FALSE} :
       /\ connected' = still
       /\ _update(t, manager, seen, still, None)
  /\ UNCHANGED <<powers, seen, written, inverter, outside>>

Change == changes < MaxChanges /\ changes' = changes + 1

\* set_mode, from either select; choosing a work mode ends the forced modes
\* first and is written after that.
set_mode(t, mode, work_mode) ==
  /\ Change /\ task[t] = Idle
  /\ IF manager.mode # mode
     THEN _update(t, [manager EXCEPT !.mode = mode], seen, connected, work_mode)
     ELSE /\ work_mode # None
          /\ Await(t, "select", manager, work_mode, 0, None)
  /\ UNCHANGED <<powers, seen, written, connected, inverter, quiet, weather, failures>>

SelectMode(t) ==
  \/ \E mode \in RemoteControlMode : set_mode(t, mode, None)
  \/ HasWorkMode /\ set_mode(t, "disable", "self_use")

\* The numbers write nothing: the next update sees what was entered.
EnterPower(asked) ==
  /\ Change
  /\ \/ /\ charge_power' = SetPower(asked)
        /\ UNCHANGED discharge_power
     \/ /\ discharge_power' = SetPower(asked)
        /\ UNCHANGED charge_power
  /\ UNCHANGED <<manager, seen, written, connected, task, inverter, quiet, weather, failures>>

-----------------------------------------------------------------------------
(* The writes.                                                             *)
Writing(t) == task[t].at \notin {"idle", "update"}

Applied(t) ==
  /\ Writing(t) /\ ~task[t].sent
  /\ task' = [task EXCEPT ![t].sent = TRUE]
  /\ inverter' =
       CASE task[t].at = "timeout" -> [inverter EXCEPT !.timeout = TRUE]
         [] task[t].at = "enable" -> [inverter EXCEPT !.enable = TRUE]
         [] task[t].at = "disable" -> [inverter EXCEPT !.enable = FALSE]
         [] task[t].at = "power" -> [inverter EXCEPT !.power = PowerWords(task[t].power)]
         [] OTHER -> [inverter EXCEPT !.work_mode = task[t].work_mode]
  /\ quiet' = IF task[t].at \in {"enable", "power"} THEN 0 ELSE quiet
  /\ UNCHANGED <<manager, powers, seen, written, connected, failures, outside>>

\* The write is confirmed, and the task goes on; what it reads then is the cache by then.
Resumes(t) ==
  LET now == task[t] IN
  /\ now.sent
  /\ written' = IF now.at \in {"work_mode", "fall_back", "select"} THEN now.work_mode
                ELSE written
  /\ CASE now.at = "work_mode" -> Engage(t, manager, now.work_mode, now.power, now.next)
       [] now.at = "timeout" -> Await(t, "enable", manager, now.work_mode, now.power, now.next)
       [] now.at = "enable" -> Await(t, "power", manager, now.work_mode, now.power, now.next)
       [] now.at = "disable" -> FallBack(t, manager, seen, now.work_mode, now.next)
       [] now.at = "select" -> manager' = manager /\ task' = [task EXCEPT ![t] = Idle]
       [] OTHER -> Finish(t, manager, now.next)
  /\ UNCHANGED <<powers, seen, connected, inverter, quiet, failures, outside>>

\* poll_complete_callback after became_connected_callback.
UpdatesAgain(t) ==
  /\ task[t].at = "update"
  /\ _update(t, manager, seen, connected, None)
  /\ UNCHANGED <<powers, seen, written, connected, inverter, quiet, failures, outside>>

\* A write raises, whether or not the inverter took it: the task is over.
WriteFails(t) ==
  /\ Writing(t)
  /\ failures < MaxFailures /\ failures' = failures + 1
  /\ task' = [task EXCEPT ![t] = Idle]
  /\ UNCHANGED <<manager, powers, seen, written, connected, inverter, quiet, outside>>

WriteDelayOver ==
  /\ written # None /\ written' = None
  /\ UNCHANGED <<manager, powers, seen, connected, task, inverter, quiet, failures, outside>>

-----------------------------------------------------------------------------
(* The inverter and the world.                                             *)
\* The watchdog, set to two polls, turns remote control off.
Watchdog ==
  /\ inverter.enable /\ inverter.timeout /\ quiet > 2
  /\ inverter' = [inverter EXCEPT !.enable = FALSE]
  /\ UNCHANGED <<manager, powers, seen, written, connected, task, quiet, failures, outside>>

WeatherTurns ==
  /\ Change /\ weather' \in Weather
  /\ UNCHANGED <<manager, powers, seen, written, connected, task, inverter, quiet, failures>>

SetAtPanel(work_mode) ==
  /\ Change /\ inverter' = [inverter EXCEPT !.work_mode = work_mode]
  /\ UNCHANGED <<manager, powers, seen, written, connected, task, quiet, weather, failures>>

Fresh == [mode |-> "disable", prev_mode |-> "disable", enabled |-> FALSE, import |-> 0]

\* Home Assistant restarts: "we just need to let the watchdog catch it".
Restart ==
  /\ failures < MaxFailures /\ failures' = failures + 1
  /\ manager' = Fresh /\ written' = None /\ connected' = TRUE
  /\ seen' = Measured
  /\ task' = [t \in Task |-> Idle]
  /\ UNCHANGED <<powers, inverter, quiet, outside>>

Init ==
  /\ manager = Fresh
  /\ charge_power = None /\ discharge_power = None /\ written = None /\ connected = TRUE
  /\ weather \in Weather
  /\ inverter = [enable |-> FALSE, timeout |-> FALSE, work_mode |-> "self_use",
                 power |-> PowerWords(0)]
  /\ seen = Measured
  /\ task = [t \in Task |-> Idle]
  /\ quiet = 0 /\ changes = 0 /\ failures = 0

Runs(t) == Applied(t) \/ Resumes(t) \/ UpdatesAgain(t)

Next ==
  \/ \E t \in Poller : PollSucceeds(t) \/ PollFails(t)
  \/ \E t \in User : SelectMode(t)
  \/ \E asked \in Powers : EnterPower(asked)
  \/ \E t \in Task : Runs(t) \/ WriteFails(t)
  \/ WriteDelayOver \/ Watchdog \/ WeatherTurns \/ Restart
  \/ \E work_mode \in WorkMode : SetAtPanel(work_mode)

\* The timer goes on polling, a write ends, and a watchdog fires.
Fairness ==
  /\ \A t \in Poller : WF_vars(PollSucceeds(t))
  /\ \A t \in Task : WF_vars(Runs(t))
  /\ WF_vars(WriteDelayOver) /\ WF_vars(Watchdog)

Spec == Init /\ [][Next]_vars /\ Fairness

-----------------------------------------------------------------------------
(* Properties.                                                             *)

\* Every power that the inverter is given decodes to what was meant, and the
\* inverter can deliver it (_write_active_power, the clamps of _update_charge).
PowerWithinCapacity ==
  /\ PowerOf(inverter.power) \in (-Capacity)..Capacity
  /\ \A t \in Task : task[t].at = "power" => PowerOf(PowerWords(task[t].power)) = task[t].power

\* Remote control is never on without its watchdog, whatever fails or restarts
\* between the writes (_enable_remote_control).
WatchdogIsSet == inverter.enable => inverter.timeout

\* Once the user stays with no forced mode, remote control ends, also when its
\* last write failed, the modes' writes were mixed, or Home Assistant
\* restarted ("let the watchdog catch it", _disable_remote_control).
DisableStops == <>[](manager.mode = "disable") => <>[](~inverter.enable)

\* In a forced mode the inverter is in the work mode that does "roughly" the
\* right thing should remote control stop, whatever the user, the panel and
\* a stale cache said before (_enable_remote_control).
FallsBackWell ==
  HasWorkMode =>
    /\ <>[](manager.mode = "force_charge") => <>[](inverter.work_mode = "back_up")
    /\ <>[](manager.mode = "force_discharge") => <>[](inverter.work_mode = "feed_in_first")

\* The control loop settles: with steady sun and limits, the battery charges at
\* the setpoint, unless the inverter can import or export no more (_update_charge).
Steady ==
  LET import == -PowerOf(inverter.power)
  IN  IF weather.pv = 0 \/ weather.limit = None THEN import = MaxImport
      ELSE \/ BatteryPower = Greatest(weather.limit - 200, 50)
           \/ import = MaxImport /\ BatteryPower < weather.limit
           \/ import = -MaxImport
ChargeSettles ==
  <>[](manager.mode = "force_charge" /\ inverter.enable) => <>[]Steady

\* So does a forced discharge: the inverter exports what the user entered last, or all
\* it can, although each update takes the power before it waits for its writes and
\* the updates of two tasks overtake each other (_update_discharge).
DischargeSettles ==
  <>[](manager.mode = "force_discharge" /\ inverter.enable) =>
    <>[](PowerOf(inverter.power) = IF discharge_power = None THEN Capacity ELSE discharge_power)
==============================================================================
