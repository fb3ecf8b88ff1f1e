----------------------------- MODULE Availability -----------------------------
(***************************************************************************)
(* What the connection state of ModbusController promises to whoever reads *)
(* is_connected: the inverter is available until NumFailedPolls polls in a *)
(* row have failed, and again as soon as one succeeds.                     *)
(***************************************************************************)
EXTENDS Integers

CONSTANT NumFailedPolls

VARIABLES
  available,   \* is_connected
  streak       \* polls failed in a row while still available

vars == <<available, streak>>

Init ==
  /\ available = TRUE
  /\ streak = 0

PollOk ==
  /\ available' = TRUE
  /\ streak' = 0

\* A failed poll that is not yet one too many.
PollMissed ==
  /\ available
  /\ streak + 1 < NumFailedPolls
  /\ streak' = streak + 1
  /\ UNCHANGED available

GiveUp ==
  /\ available
  /\ streak + 1 = NumFailedPolls
  /\ available' = FALSE
  /\ streak' = 0

Next == PollOk \/ PollMissed \/ GiveUp

Spec == Init /\ [][Next]_vars
===============================================================================
