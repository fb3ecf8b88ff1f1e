------------------------------ MODULE SerialBus ------------------------------
(***************************************************************************)
(* What ModbusClient promises its callers: calls are served one at a time, *)
(* in the order in which they were made, and the one being served is the   *)
(* oldest.  A cancelled caller leaves the queue wherever it stands.        *)
(***************************************************************************)
EXTENDS Naturals, Sequences, SequencesExt

CONSTANTS
  Task,         \* the coroutines that call the client
  Cancellable   \* those among them that may be cancelled

VARIABLE calls  \* the callers, the one being served first

vars == calls

Queued(t) == \E i \in DOMAIN calls : calls[i] = t

Without(t) == RemoveFirst(calls, t)

Init == calls = <<>>

Join(t) ==
  /\ ~Queued(t)
  /\ calls' = Append(calls, t)

Served ==
  /\ calls # <<>>
  /\ calls' = Tail(calls)

Leave(t) ==
  /\ t \in Cancellable
  /\ Queued(t)
  /\ calls' = Without(t)

Next ==
  \/ \E t \in Task : Join(t) \/ Leave(t)
  \/ Served

Spec == Init /\ [][Next]_vars
===============================================================================
