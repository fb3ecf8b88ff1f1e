----------------------------- MODULE ModbusClient -----------------------------
(***************************************************************************)
(* ModbusClient: coroutines share one synchronous pymodbus client.  A call *)
(* waits for an asyncio.Lock, which is fair, then runs in an executor      *)
(* thread: connect if need be, and one pymodbus transaction, which sends   *)
(* the request again when it gets no reply and retry_on_empty is set.      *)
(* write_registers clears that flag around its call, outside the lock.     *)
(*                                                                         *)
(* The steps of the coroutine are atomic between awaits; the thread runs   *)
(* in steps of its own, and reads retry_on_empty when it needs it.         *)
(***************************************************************************)
EXTENDS Integers, Sequences, SequencesExt

CONSTANTS
  Reader,       \* coroutines that read registers
  Writer,       \* coroutines that write registers
  Closer,       \* coroutines that close the connection
  Cancellable,  \* the coroutines whose caller may cancel them
  NumRetries,   \* _NUM_RETRIES
  PollDelay,    \* the adapter needs a pause after each call
  NoTask        \* nobody

Task == Reader \cup Writer \cup Closer

ASSUME ClientAssumption ==
  /\ Reader \cap Writer = {} /\ Reader \cap Closer = {} /\ Writer \cap Closer = {}
  /\ Cancellable \subseteq Task
  /\ NumRetries \in Nat
  /\ PollDelay \in BOOLEAN
  /\ NoTask \notin Task

VARIABLES
  lock,          \* who holds _lock
  waiters,       \* who waits for it, in order
  pc,            \* where each coroutine is
  saved,         \* old_retry_on_empty of each writer
  retryOnEmpty,  \* transaction.retry_on_empty
  connected,     \* the socket is open
  job,           \* the executor job of each call
  txLock,        \* who is inside pymodbus' _transaction_lock
  outermost,     \* history: the write that began when no other was under way
  outlasted,     \* history: a write that began during that one ended after it
  disturbed      \* history: a write was under way beside a read, or another
                 \* write ended beside a write

callVars == <<lock, waiters, pc, saved>>
histVars == <<outermost, outlasted, disturbed>>
vars == <<callVars, retryOnEmpty, connected, job, txLock, histVars>>

-------------------------------------------------------------------------------

JobPhase == {"none", "queued", "connected", "sending", "receiving", "done"}

Result == {"none", "ok", "error", "undecodable", "no_response", "not_connected"}

\* Where the job is, the retries its transaction has left, how often it has put
\* its request on the wire, and what the call returns.
JobState ==
  [at : JobPhase, retries : 0 .. NumRetries, sent : 0 .. NumRetries + 1, result : Result]

NoJob == [at |-> "none", retries |-> 0, sent |-> 0, result |-> "none"]

Idle(t) == pc[t] = "idle"

WritersUnderWay == \E w \in Writer : ~Idle(w)

Init ==
  /\ lock = NoTask
  /\ waiters = <<>>
  /\ pc = [t \in Task |-> "idle"]
  /\ saved = [t \in Task |-> TRUE]
  /\ retryOnEmpty = TRUE
  /\ connected = FALSE
  /\ job = [t \in Task |-> NoJob]
  /\ txLock = NoTask
  /\ outermost = NoTask
  /\ outlasted = FALSE
  /\ disturbed = [t \in Task |-> FALSE]

-------------------------------------------------------------------------------
(***************************************************************************)
(* The coroutine: _async_pymodbus_call, and write_registers around it.     *)
(***************************************************************************)

StartJob(t) == job' = [job EXCEPT ![t].at = "queued"]

Barging == lock = NoTask   \* mutant: a newcomer overtakes those who wait

\* asyncio.Lock is taken at once only if nobody holds or awaits it.
FreeToTake == lock = NoTask /\ waiters = <<>>

Acquire(t) ==
  IF FreeToTake
  THEN /\ lock' = t
       /\ pc' = [pc EXCEPT ![t] = "calling"]
       /\ StartJob(t)
       /\ UNCHANGED waiters
  ELSE /\ waiters' = Append(waiters, t)
       /\ pc' = [pc EXCEPT ![t] = "waiting"]
       /\ UNCHANGED <<lock, job>>

SaveRetries(t) ==   \* mutant: the flag is saved but stays as it is
  /\ saved' = [saved EXCEPT ![t] = retryOnEmpty]
  /\ UNCHANGED retryOnEmpty

\* A write disables retries before it waits for its turn.
DisableRetries(t) ==
  IF t \in Writer
  THEN /\ saved' = [saved EXCEPT ![t] = retryOnEmpty]
       /\ retryOnEmpty' = FALSE
  ELSE UNCHANGED <<saved, retryOnEmpty>>

\* History: t begins beside others.
NotesCall(t) ==
  /\ outermost' = IF t \in Writer /\ ~WritersUnderWay THEN t ELSE outermost
  /\ disturbed' = [u \in Task |->
                    IF u = t THEN t \in Reader /\ WritersUnderWay
                    ELSE disturbed[u] \/ (t \in Writer /\ u \in Reader /\ ~Idle(u))]
  /\ UNCHANGED outlasted

\* A job which a cancelled caller left behind counts as t's until it ends.
Call(t) ==
  /\ Idle(t)
  /\ job[t] = NoJob
  /\ DisableRetries(t)
  /\ Acquire(t)
  /\ NotesCall(t)
  /\ UNCHANGED <<connected, txLock>>

\* The lock was released and t is the first of its waiters.
Awake(t) ==
  /\ lock = NoTask
  /\ waiters # <<>> /\ Head(waiters) = t
  /\ lock' = t
  /\ waiters' = Tail(waiters)
  /\ pc' = [pc EXCEPT ![t] = "calling"]
  /\ StartJob(t)
  /\ UNCHANGED <<saved, retryOnEmpty, connected, txLock, histVars>>

\* The coroutine leaves the client.  History: it ends beside others.
Leaves(t) ==
  /\ pc' = [pc EXCEPT ![t] = "idle"]
  /\ saved' = [saved EXCEPT ![t] = TRUE]
  /\ outermost' = IF t = outermost THEN NoTask ELSE outermost
  /\ outlasted' = (outlasted \/ (t = outermost /\ \E w \in Writer \ {t} : ~Idle(w)))
  /\ disturbed' = [u \in Task |->
                    IF u = t THEN FALSE
                    ELSE disturbed[u] \/ (t \in Writer /\ u \in Writer /\ ~Idle(u))]

EndCallUnlessRaised(t) ==   \* mutant: restores the flag without a finally
  /\ Leaves(t)
  /\ retryOnEmpty' = IF t \in Writer /\ job[t].result # "not_connected"
                     THEN saved[t] ELSE retryOnEmpty

EndCallStaysOff(t) ==   \* mutant: restores nothing
  /\ Leaves(t)
  /\ UNCHANGED retryOnEmpty

\* The end of a call; a write first restores the flag it saved.
EndCall(t) ==
  /\ Leaves(t)
  /\ retryOnEmpty' = IF t \in Writer THEN saved[t] ELSE retryOnEmpty

\* The job is over and the coroutine resumes.  An exception skips the pause.
Resume(t) ==
  /\ pc[t] = "calling" /\ job[t].at = "done"
  /\ job' = [job EXCEPT ![t] = NoJob]
  /\ IF PollDelay /\ job[t].result # "not_connected"
     THEN /\ pc' = [pc EXCEPT ![t] = "pausing"]
          /\ UNCHANGED <<lock, saved, retryOnEmpty, histVars>>
     ELSE /\ lock' = NoTask
          /\ EndCall(t)
  /\ UNCHANGED <<waiters, connected, txLock>>

PauseOver(t) ==
  /\ pc[t] = "pausing"
  /\ lock' = NoTask
  /\ EndCall(t)
  /\ UNCHANGED <<waiters, connected, job, txLock>>

CancelStaysQueued(t) ==   \* mutant: a cancelled waiter is still in the queue
  /\ t \in Cancellable
  /\ ~Idle(t)
  /\ lock' = IF lock = t THEN NoTask ELSE lock
  /\ job' = [job EXCEPT ![t] = IF @.at \in {"queued", "done"} THEN NoJob ELSE @]
  /\ EndCall(t)
  /\ UNCHANGED <<waiters, connected, txLock>>

\* The caller is cancelled.  A job which has begun runs on in its thread, one
\* that has not is withdrawn.
Cancel(t) ==
  /\ t \in Cancellable
  /\ ~Idle(t)
  /\ lock' = IF lock = t THEN NoTask ELSE lock
  /\ waiters' = RemoveFirst(waiters, t)
  /\ \/ /\ job[t].at \in {"queued", "done"}
        /\ job' = [job EXCEPT ![t] = NoJob]
     \/ /\ job[t].at # "done"
        /\ UNCHANGED job
  /\ EndCall(t)
  /\ UNCHANGED <<connected, txLock>>

-------------------------------------------------------------------------------
(***************************************************************************)
(* The executor thread: connect, then TransactionManager.execute.          *)
(***************************************************************************)

\* Nobody waits for the outcome of a job whose caller was cancelled.
EndJob(t, outcome) ==
  job' = [job EXCEPT ![t] = IF pc[t] = "calling"
                            THEN [@ EXCEPT !.at = "done", !.result = outcome]
                            ELSE NoJob]

\* close() is a job too, but does not connect first.
JobCloses(t) ==
  /\ job[t].at = "queued" /\ t \in Closer
  /\ connected' = FALSE
  /\ EndJob(t, "ok")
  /\ UNCHANGED <<callVars, retryOnEmpty, txLock, histVars>>

\* Connecting succeeds or fails, unless the socket is open.
JobConnects(t) ==
  /\ job[t].at = "queued" /\ t \notin Closer
  /\ connected' \in {TRUE, connected}
  /\ IF connected'
     THEN job' = [job EXCEPT ![t].at = "connected"]
     ELSE EndJob(t, "not_connected")
  /\ UNCHANGED <<callVars, retryOnEmpty, txLock, histVars>>

BeginsUnlocked(t) ==   \* mutant: without pymodbus' _transaction_lock
  /\ job[t].at = "connected"
  /\ txLock' = t
  /\ job' = [job EXCEPT ![t].at = "sending", ![t].retries = NumRetries]
  /\ UNCHANGED <<callVars, retryOnEmpty, connected, histVars>>

TransactionBegins(t) ==
  /\ job[t].at = "connected"
  /\ txLock = NoTask
  /\ txLock' = t
  /\ job' = [job EXCEPT ![t].at = "sending", ![t].retries = NumRetries]
  /\ UNCHANGED <<callVars, retryOnEmpty, connected, histVars>>

\* _transact connects again if it must, and sends.  When it cannot, the reply
\* is empty.
Sends(t) ==
  /\ job[t].at = "sending"
  /\ connected' \in BOOLEAN
  /\ job' = [job EXCEPT ![t].at = "receiving",
                        ![t].sent = IF connected' THEN @ + 1 ELSE @]
  /\ UNCHANGED <<callVars, retryOnEmpty, txLock, histVars>>

\* A reply that can be read: the right one, a Modbus exception or the wrong type.
Replied(t) ==
  /\ job[t].at = "receiving"
  /\ connected
  /\ \E outcome \in {"ok", "error"} : EndJob(t, outcome)
  /\ txLock' = NoTask
  /\ UNCHANGED <<callVars, retryOnEmpty, connected, histVars>>

\* A reply that cannot: retry_on_invalid is off, so close the connection.
Garbled(t) ==
  /\ job[t].at = "receiving"
  /\ connected
  /\ connected' = FALSE
  /\ EndJob(t, "undecodable")
  /\ txLock' = NoTask
  /\ UNCHANGED <<callVars, retryOnEmpty, histVars>>

RetriesForever(t) ==   \* mutant: does not look at the retries left
  /\ job[t].at = "receiving"
  /\ retryOnEmpty
  /\ job' = [job EXCEPT ![t].at = "sending", ![t].retries = @ - 1]
  /\ UNCHANGED <<callVars, retryOnEmpty, connected, txLock, histVars>>

\* No reply, and the transaction may and does try again.  A reply that is late
\* but complete by then saves it the second request.
Retries(t) ==
  /\ job[t].at = "receiving"
  /\ job[t].retries > 0
  /\ retryOnEmpty
  /\ \E at \in {"sending"} \cup (IF connected THEN {"receiving"} ELSE {}) :
       job' = [job EXCEPT ![t].at = at, ![t].retries = @ - 1]
  /\ UNCHANGED <<callVars, retryOnEmpty, connected, txLock, histVars>>

\* No reply, and no retry left or wanted: close the connection.
GivesUp(t) ==
  /\ job[t].at = "receiving"
  /\ job[t].retries = 0 \/ ~retryOnEmpty
  /\ connected' = FALSE
  /\ EndJob(t, "no_response")
  /\ txLock' = NoTask
  /\ UNCHANGED <<callVars, retryOnEmpty, histVars>>

-------------------------------------------------------------------------------

Job(t) ==
  \/ JobCloses(t) \/ JobConnects(t) \/ TransactionBegins(t)
  \/ Sends(t) \/ Replied(t) \/ Garbled(t) \/ Retries(t) \/ GivesUp(t)

Coroutine(t) == Awake(t) \/ Resume(t) \/ PauseOver(t)

Next == \E t \in Task : Call(t) \/ Coroutine(t) \/ Cancel(t) \/ Job(t)

Spec == Init /\ [][Next]_vars

\* The event loop runs what is ready, and the steps of a job all end: pymodbus
\* bounds connecting and receiving with timeouts.  Nobody has to call or cancel.
Fairness == \A t \in Task : WF_vars(Coroutine(t)) /\ WF_vars(Job(t))

FairSpec == Spec /\ Fairness

-------------------------------------------------------------------------------
(***************************************************************************)
(* Properties.                                                             *)
(***************************************************************************)

InTransaction(t) == job[t].at \in {"sending", "receiving"}

TypeOK ==
  /\ lock \in Task \cup {NoTask}
  /\ waiters \in Seq(Task)
  /\ pc \in [Task -> {"idle", "waiting", "calling", "pausing"}]
  /\ saved \in [Task -> BOOLEAN]
  /\ retryOnEmpty \in BOOLEAN
  /\ connected \in BOOLEAN
  /\ job \in [Task -> JobState]
  /\ txLock \in Task \cup {NoTask}
  /\ outermost \in Writer \cup {NoTask}
  /\ outlasted \in BOOLEAN
  /\ disturbed \in [Task -> BOOLEAN]

\* Two transactions never share the wire.  The client's lock alone does not see
\* to it: a cancelled caller gives it up while its job runs on beside the job of
\* the next one, and only pymodbus' own lock keeps them apart.
OneTransaction ==
  /\ \A t, u \in Task : InTransaction(t) /\ InTransaction(u) => t = u
  /\ txLock # NoTask <=> \E t \in Task : InTransaction(t)

\* "assert client._client.transaction.retry_on_empty is True" after a write.
RetriesRestored == ~WritersUnderWay => retryOnEmpty

\* However many writes overlap, fail or are cancelled: when none is under way any
\* more, reads are retried again, unless a write has once outlasted one that it
\* began under.  (write_registers saves and restores a flag that all share.)
RetriesComeBack == ~WritersUnderWay /\ ~outlasted => retryOnEmpty

\* The request of a write goes out a second time only if another write ended
\* while it was under way, or if its own caller has been cancelled since: both
\* restore the flag under a job that may still have to send.
WriteSentOnce ==
  \A w \in Writer : job[w].sent > 1 => disturbed[w] \/ Idle(w)

\* A read that no write overlapped fails for want of a reply only after all of
\* its retries, unless a write has once outlasted another.
ReadsAreRetried ==
  \A t \in Reader :
    job[t].result = "no_response" /\ ~disturbed[t] /\ ~outlasted => job[t].retries = 0

\* The lock and its waiters are the queue that SerialBus speaks of.
Calls == IF lock = NoTask THEN waiters ELSE <<lock>> \o waiters

Bus == INSTANCE SerialBus WITH calls <- Calls

ImplementsSerialBus == Bus!Spec

\* Every call returns, however many others call and whatever the inverter does.
CallReturns == \A t \in Task : ~Idle(t) ~> Idle(t)
===============================================================================
