-------------------------- MODULE ModbusClientProofs --------------------------
(***************************************************************************)
(* Theorems about ModbusClient, for any number of readers, writers and     *)
(* closers, any of them cancellable, and any number of retries.            *)
(***************************************************************************)
EXTENDS ModbusClient, SequenceTheorems, TLAPS

-------------------------------------------------------------------------------
(***************************************************************************)
(* Removing an element from a sequence that has it once, or not at all.    *)
(***************************************************************************)

NoTwice(s) == \A i, j \in 1 .. Len(s) : s[i] = s[j] => i = j

\* RemoveAt leaves out one element and shifts those behind it.
LEMMA RemovedAt ==
  ASSUME NEW S, NEW s \in Seq(S), NEW i \in 1 .. Len(s)
  PROVE  /\ RemoveAt(s, i) \in Seq(S)
         /\ Len(RemoveAt(s, i)) = Len(s) - 1
         /\ \A j \in 1 .. Len(s) - 1 :
              RemoveAt(s, i)[j] = IF j < i THEN s[j] ELSE s[j + 1]
<1> DEFINE front == SubSeq(s, 1, i - 1)
           back  == SubSeq(s, i + 1, Len(s))
<1>1. /\ front \in Seq(S) /\ Len(front) = i - 1
      /\ \A j \in 1 .. i - 1 : front[j] = s[j]
  OBVIOUS
<1>2. /\ back \in Seq(S) /\ Len(back) = Len(s) - i
      /\ \A j \in 1 .. Len(s) - i : back[j] = s[i + j]
  OBVIOUS
<1>3. /\ front \o back \in Seq(S)
      /\ Len(front \o back) = Len(s) - 1
      /\ \A j \in 1 .. Len(s) - 1 :
           (front \o back)[j] = IF j <= i - 1 THEN front[j] ELSE back[j - (i - 1)]
  <2> HIDE DEF front, back
  <2> QED
    BY <1>1, <1>2, ConcatProperties
<1>4. \A j \in 1 .. Len(s) - 1 :
        (front \o back)[j] = IF j < i THEN s[j] ELSE s[j + 1]
  <2> HIDE DEF front, back
  <2>1. SUFFICES ASSUME NEW j \in 1 .. Len(s) - 1
                 PROVE  (front \o back)[j] = IF j < i THEN s[j] ELSE s[j + 1]
    OBVIOUS
  <2>2. CASE j < i
    BY <1>1, <1>3, <2>2
  <2>3. CASE ~(j < i)
    <3>1. j - (i - 1) \in 1 .. Len(s) - i /\ i + (j - (i - 1)) = j + 1 /\ ~(j <= i - 1)
      BY <2>3
    <3> QED
      BY <1>2, <1>3, <2>3, <3>1
  <2> QED
    BY <2>2, <2>3
<1> QED
  BY <1>3, <1>4 DEF RemoveAt

\* Where RemoveFirst finds an element that is there only once.
LEMMA RemovedOnce ==
  ASSUME NEW S, NEW s \in Seq(S), NoTwice(s), NEW i \in 1 .. Len(s)
  PROVE  RemoveFirst(s, s[i]) = RemoveAt(s, i)
<1>1. {k \in 1 .. Len(s) : s[k] = s[i]} = {i}
  BY DEF NoTwice
<1>2. SelectInSeq(s, LAMBDA v : v = s[i]) = i
  <2>1. Min({i}) = i
    BY DEF Min
  <2> QED
    BY <1>1, <2>1 DEF SelectInSeq
<1> QED
  BY <1>2 DEF RemoveFirst

LEMMA NothingRemoved ==
  ASSUME NEW s, NEW e, \A i \in 1 .. Len(s) : s[i] # e
  PROVE  RemoveFirst(s, e) = s
  BY DEF RemoveFirst

\* What is left has every other element, still once.
LEMMA Removed ==
  ASSUME NEW S, NEW s \in Seq(S), NoTwice(s), NEW e
  PROVE  /\ RemoveFirst(s, e) \in Seq(S)
         /\ NoTwice(RemoveFirst(s, e))
         /\ \A x \in S : (\E i \in 1 .. Len(RemoveFirst(s, e)) : RemoveFirst(s, e)[i] = x)
                     <=> x # e /\ \E i \in 1 .. Len(s) : s[i] = x
<1> DEFINE r == RemoveFirst(s, e)
<1>1. CASE \A i \in 1 .. Len(s) : s[i] # e
  BY <1>1, NothingRemoved
<1>2. ASSUME NEW i \in 1 .. Len(s), s[i] = e
      PROVE  /\ r \in Seq(S)
             /\ NoTwice(r)
             /\ \A x \in S : (\E j \in 1 .. Len(r) : r[j] = x)
                         <=> x # e /\ \E j \in 1 .. Len(s) : s[j] = x
  <2>1. r = RemoveAt(s, i)
    BY <1>2, RemovedOnce
  <2>2. /\ r \in Seq(S) /\ Len(r) = Len(s) - 1
        /\ \A j \in 1 .. Len(s) - 1 : r[j] = IF j < i THEN s[j] ELSE s[j + 1]
    BY <2>1, RemovedAt
  <2> HIDE DEF r
  <2>3. Len(s) \in Nat
    OBVIOUS
  <2>4. NoTwice(r)
    BY <2>2, <2>3 DEF NoTwice
  <2>5. ASSUME NEW x \in S
        PROVE  (\E j \in 1 .. Len(r) : r[j] = x) <=> x # e /\ \E j \in 1 .. Len(s) : s[j] = x
    <3>1. ASSUME NEW j \in 1 .. Len(r), r[j] = x
          PROVE  x # e /\ \E k \in 1 .. Len(s) : s[k] = x
      <4>1. CASE j < i
        <5>1. j \in 1 .. Len(s) /\ s[j] = x /\ j # i
          BY <2>2, <2>3, <3>1, <4>1
        <5> QED
          BY <5>1, <1>2 DEF NoTwice
      <4>2. CASE ~(j < i)
        <5>1. j + 1 \in 1 .. Len(s) /\ s[j + 1] = x /\ j + 1 # i
          BY <2>2, <2>3, <3>1, <4>2
        <5> QED
          BY <5>1, <1>2 DEF NoTwice
      <4> QED
        BY <4>1, <4>2
    <3>2. ASSUME x # e, NEW k \in 1 .. Len(s), s[k] = x
          PROVE  \E j \in 1 .. Len(r) : r[j] = x
      <4>1. CASE k < i
        <5>1. k \in 1 .. Len(r) /\ r[k] = x
          BY <2>2, <2>3, <3>2, <4>1
        <5> QED
          BY <5>1
      <4>2. CASE k > i
        <5>1. k - 1 \in 1 .. Len(r) /\ ~(k - 1 < i) /\ (k - 1) + 1 = k
          BY <2>2, <2>3, <4>2
        <5>2. r[k - 1] = x
          BY <2>2, <3>2, <5>1
        <5> QED
          BY <5>1, <5>2
      <4> QED
        BY <1>2, <3>2, <4>1, <4>2
    <3> QED
      BY <3>1, <3>2
  <2> QED
    BY <2>2, <2>4, <2>5
<1> QED
  BY <1>1, <1>2

-------------------------------------------------------------------------------
(***************************************************************************)
(* The inductive invariant.  CallerInv is about the coroutines: the lock   *)
(* belongs to the one that calls or pauses, the queue holds those that     *)
(* wait, each once.  JobInv is about the executor: what a job may be while *)
(* its coroutine stands where it does, what it has sent, and that          *)
(* pymodbus' lock belongs to the job whose transaction is under way.       *)
(***************************************************************************)

LockIsHeld == \A t \in Task : lock = t <=> pc[t] \in {"calling", "pausing"}

QueueIsOfWaiters ==
  /\ NoTwice(waiters)
  /\ \A t \in Task : pc[t] = "waiting" <=> \E i \in 1 .. Len(waiters) : waiters[i] = t

CallerInv ==
  /\ lock \in Task \cup {NoTask}
  /\ waiters \in Seq(Task)
  /\ pc \in [Task -> {"idle", "waiting", "calling", "pausing"}]
  /\ saved \in [Task -> BOOLEAN]
  /\ retryOnEmpty \in BOOLEAN
  /\ outermost \in Writer \cup {NoTask}
  /\ outlasted \in BOOLEAN
  /\ disturbed \in [Task -> BOOLEAN]
  /\ LockIsHeld
  /\ QueueIsOfWaiters

\* What the job j of a coroutine at p may be.
JobAt(j, p) ==
  /\ j.at = "none" => j = NoJob
  /\ p \in {"waiting", "pausing"} => j.at = "none"
  /\ p = "calling" => j.at # "none"
  /\ j.at = "done" => p = "calling"
  /\ j.result # "none" => j.at = "done"
  /\ j.at \in {"none", "queued", "connected"} => j.sent = 0
  /\ j.at = "sending" => j.sent + j.retries <= NumRetries
  /\ j.at = "receiving" => j.sent + j.retries <= NumRetries + 1

JobInv ==
  /\ connected \in BOOLEAN
  /\ job \in [Task -> JobState]
  /\ txLock \in Task \cup {NoTask}
  /\ \A t \in Task : JobAt(job[t], pc[t])
  /\ \A t \in Task : txLock = t <=> InTransaction(t)

IInv == CallerInv /\ JobInv

LEMMA NoJobType == NoJob \in JobState
  BY ClientAssumption DEF NoJob, JobState, JobPhase, Result

LEMMA InitInv == Init => IInv
<1> SUFFICES ASSUME Init PROVE IInv
  OBVIOUS
<1>1. CallerInv
  <2>1. waiters = <<>> /\ waiters \in Seq(Task) /\ Len(waiters) = 0
    BY DEF Init
  <2>2. QueueIsOfWaiters
    BY <2>1 DEF Init, QueueIsOfWaiters, NoTwice
  <2>3. LockIsHeld
    BY ClientAssumption DEF Init, LockIsHeld
  <2> QED
    BY <2>1, <2>2, <2>3 DEF Init, CallerInv
<1>2. JobInv
  <2>1. \A t \in Task : job[t] = NoJob /\ pc[t] = "idle" /\ txLock # t
    BY ClientAssumption DEF Init
  <2>2. \A t \in Task : JobAt(job[t], pc[t])
    BY <2>1 DEF JobAt, NoJob
  <2>3. \A t \in Task : txLock = t <=> InTransaction(t)
    BY <2>1 DEF InTransaction, NoJob
  <2> QED
    BY <2>2, <2>3, NoJobType DEF Init, JobInv
<1> QED
  BY <1>1, <1>2 DEF IInv

-------------------------------------------------------------------------------
(***************************************************************************)
(* The coroutines.                                                         *)
(***************************************************************************)

\* A coroutine that leaves its place in the client.
LEMMA EndCallKeeps ==
  ASSUME CallerInv, NEW t \in Task, EndCall(t)
  PROVE  /\ pc' \in [Task -> {"idle", "waiting", "calling", "pausing"}]
         /\ saved' \in [Task -> BOOLEAN]
         /\ retryOnEmpty' \in BOOLEAN
         /\ outermost' \in Writer \cup {NoTask}
         /\ outlasted' \in BOOLEAN
         /\ disturbed' \in [Task -> BOOLEAN]
         /\ pc'[t] = "idle"
         /\ \A u \in Task \ {t} : pc'[u] = pc[u]
<1>1. /\ pc' \in [Task -> {"idle", "waiting", "calling", "pausing"}]
      /\ saved' \in [Task -> BOOLEAN]
      /\ retryOnEmpty' \in BOOLEAN
      /\ outermost' \in Writer \cup {NoTask}
      /\ pc'[t] = "idle"
      /\ \A u \in Task \ {t} : pc'[u] = pc[u]
  BY DEF CallerInv, EndCall, Leaves
<1>2. outlasted' \in BOOLEAN
  BY DEF EndCall, Leaves
<1>3. disturbed' \in [Task -> BOOLEAN]
  <2>1. \A u \in Task : (IF u = t THEN FALSE
                        ELSE disturbed[u] \/ (t \in Writer /\ u \in Writer /\ ~Idle(u))) \in BOOLEAN
    BY DEF CallerInv
  <2> QED
    BY <2>1 DEF EndCall, Leaves
<1> QED
  BY <1>1, <1>2, <1>3

\* The holder of the lock lets go of it.
LEMMA LockReleased ==
  ASSUME CallerInv, NEW t \in Task, lock = t, lock' = NoTask, UNCHANGED waiters, EndCall(t)
  PROVE  CallerInv'
<1>1. /\ \A u \in Task \ {t} : pc[u] \notin {"calling", "pausing"}
      /\ pc[t] # "waiting"
  BY DEF CallerInv, LockIsHeld
<1>2. LockIsHeld'
  BY <1>1, EndCallKeeps, ClientAssumption DEF LockIsHeld
<1>3. QueueIsOfWaiters'
  BY <1>1, EndCallKeeps DEF CallerInv, QueueIsOfWaiters, NoTwice
<1> QED
  BY <1>2, <1>3, EndCallKeeps DEF CallerInv

LEMMA CallKeepsCallers ==
  ASSUME CallerInv, NEW t \in Task, Call(t)
  PROVE  CallerInv'
<1>1. saved' \in [Task -> BOOLEAN] /\ retryOnEmpty' \in BOOLEAN
  BY DEF Call, CallerInv, DisableRetries
<1>2. /\ outermost' \in Writer \cup {NoTask}
      /\ outlasted' \in BOOLEAN
      /\ disturbed' \in [Task -> BOOLEAN]
  <2>1. \A u \in Task : (IF u = t THEN t \in Reader /\ WritersUnderWay
                         ELSE disturbed[u] \/ (t \in Writer /\ u \in Reader /\ ~Idle(u))) \in BOOLEAN
    BY DEF CallerInv
  <2>2. disturbed' \in [Task -> BOOLEAN]
    BY <2>1 DEF Call, NotesCall
  <2> QED
    BY <2>2 DEF Call, NotesCall, CallerInv
<1>3. pc[t] = "idle" /\ lock # t
  BY DEF Call, Idle, CallerInv, LockIsHeld
<1>4. CASE FreeToTake
  <2>1. lock' = t /\ pc' = [pc EXCEPT ![t] = "calling"] /\ waiters' = waiters /\ lock = NoTask
    BY <1>4 DEF Call, Acquire, FreeToTake
  <2>2. LockIsHeld'
    BY <1>3, <2>1, ClientAssumption DEF CallerInv, LockIsHeld
  <2>3. QueueIsOfWaiters'
    BY <1>3, <2>1 DEF CallerInv, QueueIsOfWaiters, NoTwice
  <2> QED
    BY <1>1, <1>2, <2>1, <2>2, <2>3 DEF CallerInv
<1>5. CASE ~FreeToTake
  <2>1. lock' = lock /\ pc' = [pc EXCEPT ![t] = "waiting"] /\ waiters' = Append(waiters, t)
    BY <1>5 DEF Call, Acquire
  <2>2. /\ waiters' \in Seq(Task) /\ Len(waiters') = Len(waiters) + 1 /\ Len(waiters) \in Nat
        /\ \A i \in 1 .. Len(waiters) : waiters'[i] = waiters[i]
        /\ waiters'[Len(waiters) + 1] = t
    BY <2>1, AppendProperties DEF CallerInv
  <2>3. LockIsHeld'
    BY <1>3, <2>1 DEF CallerInv, LockIsHeld
  <2>4. \A i \in 1 .. Len(waiters) : waiters[i] # t
    BY <1>3 DEF CallerInv, QueueIsOfWaiters
  <2>5. NoTwice(waiters')
    BY <2>2, <2>4 DEF CallerInv, QueueIsOfWaiters, NoTwice
  <2>6. ASSUME NEW u \in Task
        PROVE  pc'[u] = "waiting" <=> \E i \in 1 .. Len(waiters') : waiters'[i] = u
    <3>1. CASE u = t
      BY <2>1, <2>2, <3>1 DEF CallerInv
    <3>2. CASE u # t
      <4>1. (\E i \in 1 .. Len(waiters') : waiters'[i] = u)
              <=> \E i \in 1 .. Len(waiters) : waiters[i] = u
        BY <2>2, <3>2
      <4> QED
        BY <2>1, <3>2, <4>1 DEF CallerInv, QueueIsOfWaiters
    <3> QED
      BY <3>1, <3>2
  <2>7. QueueIsOfWaiters'
    BY <2>5, <2>6 DEF QueueIsOfWaiters
  <2> QED
    BY <1>1, <1>2, <2>1, <2>2, <2>3, <2>7 DEF CallerInv
<1> QED
  BY <1>4, <1>5

LEMMA AwakeKeepsCallers ==
  ASSUME CallerInv, NEW t \in Task, Awake(t)
  PROVE  CallerInv'
<1>1. /\ lock = NoTask /\ lock' = t /\ waiters # <<>> /\ Head(waiters) = t
      /\ waiters' = Tail(waiters) /\ pc' = [pc EXCEPT ![t] = "calling"]
      /\ UNCHANGED <<saved, retryOnEmpty, histVars>>
  BY DEF Awake
<1>2. /\ waiters' \in Seq(Task) /\ Len(waiters') = Len(waiters) - 1 /\ Len(waiters) \in Nat \ {0}
      /\ \A i \in 1 .. Len(waiters) - 1 : waiters'[i] = waiters[i + 1]
      /\ waiters[1] = t
  <2>1. waiters \in Seq(Task) /\ waiters # <<>>
    BY <1>1 DEF CallerInv
  <2>2. /\ Tail(waiters) \in Seq(Task) /\ Len(Tail(waiters)) = Len(waiters) - 1
        /\ \A i \in 1 .. Len(Tail(waiters)) : Tail(waiters)[i] = waiters[i + 1]
    BY <2>1, HeadTailProperties
  <2>3. Len(waiters) \in Nat \ {0} /\ Head(waiters) = waiters[1]
    BY <2>1, EmptySeq
  <2> QED
    BY <1>1, <2>2, <2>3
<1>3. LockIsHeld'
  BY <1>1, ClientAssumption DEF CallerInv, LockIsHeld
<1>4. NoTwice(waiters')
  <2>1. SUFFICES ASSUME NEW i \in 1 .. Len(waiters'), NEW j \in 1 .. Len(waiters'),
                        waiters'[i] = waiters'[j]
                 PROVE  i = j
    BY DEF NoTwice
  <2>2. /\ i + 1 \in 1 .. Len(waiters) /\ j + 1 \in 1 .. Len(waiters)
        /\ waiters[i + 1] = waiters[j + 1]
    BY <1>2, <2>1
  <2>3. i + 1 = j + 1
    BY <2>2 DEF CallerInv, QueueIsOfWaiters, NoTwice
  <2> QED
    BY <2>3
<1>5. ASSUME NEW u \in Task
      PROVE  pc'[u] = "waiting" <=> \E i \in 1 .. Len(waiters') : waiters'[i] = u
  <2>1. CASE u = t
    <3>1. ASSUME NEW i \in 1 .. Len(waiters'), waiters'[i] = t
          PROVE  FALSE
      <4>1. i + 1 \in 1 .. Len(waiters) /\ 1 \in 1 .. Len(waiters) /\ i + 1 # 1
        BY <1>2
      <4>2. waiters[i + 1] = waiters[1]
        BY <1>2, <3>1
      <4> QED
        BY <4>1, <4>2 DEF CallerInv, QueueIsOfWaiters, NoTwice
    <3>2. pc'[t] = "calling"
      BY <1>1 DEF CallerInv
    <3> QED
      BY <2>1, <3>1, <3>2
  <2>2. CASE u # t
    <3>1. ASSUME NEW i \in 1 .. Len(waiters), waiters[i] = u
          PROVE  \E k \in 1 .. Len(waiters') : waiters'[k] = u
      <4>1. i # 1
        BY <1>2, <2>2, <3>1
      <4>2. i - 1 \in 1 .. Len(waiters') /\ (i - 1) + 1 = i
        BY <1>2, <4>1
      <4>3. waiters'[i - 1] = u
        BY <1>2, <3>1, <4>2
      <4> QED
        BY <4>2, <4>3
    <3>2. ASSUME NEW i \in 1 .. Len(waiters'), waiters'[i] = u
          PROVE  \E k \in 1 .. Len(waiters) : waiters[k] = u
      <4>1. i + 1 \in 1 .. Len(waiters) /\ waiters[i + 1] = u
        BY <1>2, <3>2
      <4> QED
        BY <4>1
    <3>3. pc'[u] = pc[u]
      BY <1>1, <2>2 DEF CallerInv
    <3> QED
      BY <3>1, <3>2, <3>3 DEF CallerInv, QueueIsOfWaiters
  <2> QED
    BY <2>1, <2>2
<1>6. QueueIsOfWaiters'
  BY <1>4, <1>5 DEF QueueIsOfWaiters
<1> QED
  BY <1>1, <1>2, <1>3, <1>6 DEF CallerInv, histVars

LEMMA ResumeKeepsCallers ==
  ASSUME CallerInv, NEW t \in Task, Resume(t)
  PROVE  CallerInv'
<1>1. pc[t] = "calling" /\ lock = t /\ UNCHANGED waiters
  BY DEF Resume, CallerInv, LockIsHeld
<1>2. CASE PollDelay /\ job[t].result # "not_connected"
  <2>1. pc' = [pc EXCEPT ![t] = "pausing"] /\ UNCHANGED <<lock, saved, retryOnEmpty, histVars>>
    BY <1>2 DEF Resume
  <2>2. LockIsHeld' /\ QueueIsOfWaiters'
    BY <1>1, <2>1 DEF CallerInv, LockIsHeld, QueueIsOfWaiters, NoTwice
  <2> QED
    BY <1>1, <2>1, <2>2 DEF CallerInv, histVars
<1>3. CASE ~(PollDelay /\ job[t].result # "not_connected")
  <2>1. lock' = NoTask /\ EndCall(t)
    BY <1>3 DEF Resume
  <2> QED
    BY <1>1, <2>1, LockReleased
<1> QED
  BY <1>2, <1>3

LEMMA PauseOverKeepsCallers ==
  ASSUME CallerInv, NEW t \in Task, PauseOver(t)
  PROVE  CallerInv'
  BY LockReleased DEF PauseOver, CallerInv, LockIsHeld

LEMMA CancelKeepsCallers ==
  ASSUME CallerInv, NEW t \in Task, Cancel(t)
  PROVE  CallerInv'
<1>1. /\ lock' = IF lock = t THEN NoTask ELSE lock
      /\ waiters' = RemoveFirst(waiters, t)
      /\ EndCall(t)
  BY DEF Cancel
<1>2. /\ waiters' \in Seq(Task) /\ NoTwice(waiters')
      /\ \A u \in Task : (\E i \in 1 .. Len(waiters') : waiters'[i] = u)
                  <=> u # t /\ \E i \in 1 .. Len(waiters) : waiters[i] = u
  <2>1. waiters \in Seq(Task) /\ NoTwice(waiters)
    BY DEF CallerInv, QueueIsOfWaiters
  <2>2. /\ RemoveFirst(waiters, t) \in Seq(Task) /\ NoTwice(RemoveFirst(waiters, t))
        /\ \A u \in Task : (\E i \in 1 .. Len(RemoveFirst(waiters, t)) : RemoveFirst(waiters, t)[i] = u)
                           <=> u # t /\ \E i \in 1 .. Len(waiters) : waiters[i] = u
    BY <2>1, Removed
  <2> QED
    BY <1>1, <2>2
<1>3. pc'[t] = "idle" /\ \A u \in Task \ {t} : pc'[u] = pc[u]
  BY <1>1, EndCallKeeps
<1>4. LockIsHeld'
  BY <1>1, <1>3, ClientAssumption DEF CallerInv, LockIsHeld
<1>5. QueueIsOfWaiters'
  BY <1>2, <1>3 DEF CallerInv, QueueIsOfWaiters
<1> QED
  BY <1>1, <1>2, <1>4, <1>5, EndCallKeeps DEF CallerInv

\* The executor's thread touches none of what the coroutines keep.
LEMMA JobLeavesCallers ==
  ASSUME NEW t \in Task, Job(t)
  PROVE  UNCHANGED <<lock, waiters, pc, saved, retryOnEmpty, histVars>>
  BY DEF Job, JobCloses, JobConnects, TransactionBegins, Sends, Replied, Garbled, Retries,
         GivesUp, callVars

LEMMA UnchangedKeepsCallers ==
  ASSUME CallerInv, UNCHANGED <<lock, waiters, pc, saved, retryOnEmpty, histVars>>
  PROVE  CallerInv'
  BY DEF CallerInv, LockIsHeld, QueueIsOfWaiters, NoTwice, histVars

-------------------------------------------------------------------------------
(***************************************************************************)
(* The jobs.                                                               *)
(***************************************************************************)

\* A step of one coroutine or of its job, which leaves the other ones' alone.
LEMMA JobStep ==
  ASSUME JobInv, NEW t \in Task, NEW j \in JobState,
         connected' \in BOOLEAN, txLock' \in Task \cup {NoTask},
         job' = [job EXCEPT ![t] = j],
         \A u \in Task \ {t} : pc'[u] = pc[u],
         JobAt(j, pc'[t]),
         txLock' = t <=> j.at \in {"sending", "receiving"},
         \A u \in Task \ {t} : txLock' = u <=> txLock = u
  PROVE  JobInv'
<1>1. job' \in [Task -> JobState] /\ job'[t] = j /\ \A u \in Task \ {t} : job'[u] = job[u]
  BY DEF JobInv
<1>2. \A u \in Task : JobAt(job'[u], pc'[u])
  BY <1>1 DEF JobInv
<1>3. \A u \in Task : txLock' = u <=> InTransaction(u)'
  BY <1>1 DEF JobInv, InTransaction
<1> QED
  BY <1>1, <1>2, <1>3 DEF JobInv

\* A step after which each job is as it was.
LEMMA JobsLeft ==
  ASSUME JobInv, NEW t \in Task, UNCHANGED <<connected, txLock, job>>,
         \A u \in Task \ {t} : pc'[u] = pc[u],
         JobAt(job[t], pc'[t])
  PROVE  JobInv'
<1>1. \A u \in Task : JobAt(job'[u], pc'[u])
  BY DEF JobInv
<1>2. \A u \in Task : txLock' = u <=> InTransaction(u)'
  BY DEF JobInv, InTransaction
<1> QED
  BY <1>1, <1>2 DEF JobInv

\* A coroutine's turn has come and its job is put in the executor's queue.
LEMMA StartJobKeepsJobs ==
  ASSUME CallerInv, JobInv, NEW t \in Task, job[t] = NoJob, StartJob(t),
         pc' = [pc EXCEPT ![t] = "calling"], UNCHANGED <<connected, txLock>>
  PROVE  JobInv'
<1> DEFINE j == [NoJob EXCEPT !.at = "queued"]
<1>1. job' = [job EXCEPT ![t] = j]
  BY DEF StartJob, JobInv
<1>2. j \in JobState /\ j.at = "queued" /\ j.sent = 0 /\ j.result = "none"
  BY NoJobType DEF NoJob, JobState, JobPhase
<1>3. pc'[t] = "calling" /\ \A u \in Task \ {t} : pc'[u] = pc[u]
  BY DEF CallerInv
<1>4. txLock # t
  BY DEF JobInv, InTransaction, NoJob
<1> HIDE DEF j
<1>5. JobAt(j, pc'[t])
  BY <1>2, <1>3 DEF JobAt
<1> QED
  BY <1>1, <1>2, <1>3, <1>4, <1>5, JobStep DEF JobInv

\* A coroutine's job is withdrawn or done with.
LEMMA NoJobKeepsJobs ==
  ASSUME JobInv, NEW t \in Task, job[t].at \in {"none", "queued", "done"},
         job' = [job EXCEPT ![t] = NoJob], UNCHANGED <<connected, txLock>>,
         \A u \in Task \ {t} : pc'[u] = pc[u],
         pc'[t] \in {"idle", "pausing"}
  PROVE  JobInv'
<1>1. JobAt(NoJob, pc'[t])
  BY DEF JobAt, NoJob
<1>2. txLock # t
  BY DEF JobInv, InTransaction
<1> QED
  BY <1>1, <1>2, NoJobType, JobStep DEF JobInv, NoJob

LEMMA CoroutineKeepsJobs ==
  ASSUME CallerInv, JobInv, NEW t \in Task,
         Call(t) \/ Awake(t) \/ Resume(t) \/ PauseOver(t) \/ Cancel(t)
  PROVE  JobInv'
<1>1. CASE Call(t)
  <2>1. CASE FreeToTake
    BY <1>1, <2>1, StartJobKeepsJobs DEF Call, Acquire
  <2>2. CASE ~FreeToTake
    <3>1. /\ UNCHANGED <<connected, txLock, job>> /\ pc' = [pc EXCEPT ![t] = "waiting"]
          /\ job[t] = NoJob
      BY <1>1, <2>2 DEF Call, Acquire
    <3>2. JobAt(job[t], pc'[t]) /\ \A u \in Task \ {t} : pc'[u] = pc[u]
      BY <3>1 DEF JobAt, NoJob, CallerInv
    <3> QED
      BY <3>1, <3>2, JobsLeft
  <2> QED
    BY <2>1, <2>2
<1>2. CASE Awake(t)
  <2>1. waiters # <<>> /\ Head(waiters) = t
    BY <1>2 DEF Awake
  <2>2. 1 \in 1 .. Len(waiters) /\ waiters[1] = t
    BY <2>1, EmptySeq DEF CallerInv
  <2>3. pc[t] = "waiting"
    BY <2>2 DEF CallerInv, QueueIsOfWaiters
  <2>4. job[t] = NoJob
    BY <2>3 DEF JobInv, JobAt
  <2> QED
    BY <1>2, <2>4, StartJobKeepsJobs DEF Awake
<1>3. CASE Resume(t)
  <2>1. /\ job[t].at = "done" /\ job' = [job EXCEPT ![t] = NoJob]
        /\ UNCHANGED <<connected, txLock>>
    BY <1>3 DEF Resume
  <2>2. pc'[t] \in {"idle", "pausing"} /\ \A u \in Task \ {t} : pc'[u] = pc[u]
    BY <1>3, EndCallKeeps DEF Resume, CallerInv
  <2> QED
    BY <2>1, <2>2, NoJobKeepsJobs
<1>4. CASE PauseOver(t)
  <2>1. EndCall(t) /\ pc[t] = "pausing" /\ UNCHANGED <<connected, job, txLock>>
    BY <1>4 DEF PauseOver
  <2>2. job[t] = NoJob
    BY <2>1 DEF JobInv, JobAt
  <2>3. JobAt(job[t], pc'[t]) /\ \A u \in Task \ {t} : pc'[u] = pc[u]
    BY <2>1, <2>2, EndCallKeeps DEF JobAt, NoJob
  <2> QED
    BY <2>1, <2>3, JobsLeft
<1>5. CASE Cancel(t)
  <2>1. UNCHANGED <<connected, txLock>> /\ EndCall(t)
    BY <1>5 DEF Cancel
  <2>2. pc'[t] = "idle" /\ \A u \in Task \ {t} : pc'[u] = pc[u]
    BY <2>1, EndCallKeeps
  <2>3. CASE job[t].at \in {"queued", "done"} /\ job' = [job EXCEPT ![t] = NoJob]
    BY <2>1, <2>2, <2>3, NoJobKeepsJobs
  <2>4. CASE job[t].at # "done" /\ UNCHANGED job
    <3>1. JobAt(job[t], pc'[t])
      BY <2>2, <2>4 DEF JobInv, JobAt
    <3> QED
      BY <2>1, <2>2, <2>4, <3>1, JobsLeft
  <2> QED
    BY <1>5, <2>3, <2>4 DEF Cancel
<1> QED
  BY <1>1, <1>2, <1>3, <1>4, <1>5

\* The end of a job, for a caller that waits for it or for nobody.
LEMMA EndJobKeepsJobs ==
  ASSUME CallerInv, JobInv, NEW t \in Task, NEW outcome \in Result \ {"none"},
         job[t].at # "none", EndJob(t, outcome),
         connected' \in BOOLEAN, txLock' \in Task \cup {NoTask}, txLock' # t,
         \A u \in Task \ {t} : txLock' = u <=> txLock = u,
         UNCHANGED pc
  PROVE  JobInv'
<1>1. CASE pc[t] = "calling"
  <2> DEFINE j == [job[t] EXCEPT !.at = "done", !.result = outcome]
  <2>1. job' = [job EXCEPT ![t] = j]
    BY <1>1 DEF EndJob, JobInv
  <2>2. j \in JobState /\ j.at = "done"
    BY DEF JobInv, JobState, JobPhase
  <2> HIDE DEF j
  <2>3. JobAt(j, pc'[t])
    BY <1>1, <2>2 DEF JobAt
  <2> QED
    BY <2>1, <2>2, <2>3, JobStep
<1>2. CASE pc[t] # "calling"
  <2>1. job' = [job EXCEPT ![t] = NoJob]
    BY <1>2 DEF EndJob, JobInv
  <2>2. JobAt(NoJob, pc'[t])
    BY <1>2 DEF JobAt, NoJob
  <2> QED
    BY <2>1, <2>2, NoJobType, JobStep DEF NoJob
<1> QED
  BY <1>1, <1>2

LEMMA JobKeepsJobs ==
  ASSUME CallerInv, JobInv, NEW t \in Task, Job(t)
  PROVE  JobInv'
<1>1. UNCHANGED pc
  BY JobLeavesCallers
<1>2. job[t] \in JobState /\ JobAt(job[t], pc[t])
  BY DEF JobInv
<1>3. txLock = t <=> job[t].at \in {"sending", "receiving"}
  BY DEF JobInv, InTransaction
<1>4. txLock = t => \A u \in Task \ {t} : NoTask # u /\ txLock # u
  BY ClientAssumption
<1>5. CASE JobCloses(t)
  <2>1. EndJob(t, "ok") /\ connected' = FALSE /\ UNCHANGED txLock /\ job[t].at = "queued"
    BY <1>5 DEF JobCloses
  <2> QED
    BY <1>1, <1>3, <2>1, EndJobKeepsJobs DEF JobInv, Result
<1>6. CASE JobConnects(t)
  <2>1. connected' \in BOOLEAN /\ UNCHANGED txLock /\ job[t].at = "queued"
    BY <1>6 DEF JobConnects, JobInv
  <2>2. CASE connected'
    <3> DEFINE j == [job[t] EXCEPT !.at = "connected"]
    <3>1. job' = [job EXCEPT ![t] = j]
      BY <1>6, <2>2 DEF JobConnects, JobInv
    <3>2. j \in JobState /\ j.at = "connected" /\ j.sent = job[t].sent /\ j.result = job[t].result
      BY <1>2 DEF JobState, JobPhase
    <3> HIDE DEF j
    <3>3. JobAt(j, pc'[t])
      BY <1>1, <1>2, <2>1, <3>2 DEF JobAt
    <3> QED
      BY <1>1, <1>3, <2>1, <3>1, <3>2, <3>3, JobStep DEF JobInv
  <2>3. CASE ~connected'
    BY <1>1, <1>3, <1>6, <2>1, <2>3, EndJobKeepsJobs DEF JobConnects, JobInv, Result
  <2> QED
    BY <2>2, <2>3
<1>7. CASE TransactionBegins(t)
  <2> DEFINE j == [job[t] EXCEPT !.at = "sending", !.retries = NumRetries]
  <2>1. /\ job[t].at = "connected" /\ txLock = NoTask /\ txLock' = t
        /\ job' = [job EXCEPT ![t] = j] /\ UNCHANGED connected
    BY <1>7 DEF TransactionBegins, JobInv
  <2>2. /\ j \in JobState /\ j.at = "sending" /\ j.sent = job[t].sent
        /\ j.result = job[t].result /\ j.retries = NumRetries
    <3>1. NumRetries \in 0 .. NumRetries
      BY ClientAssumption
    <3> QED
      BY <1>2, <3>1 DEF JobState, JobPhase
  <2> HIDE DEF j
  <2>3. JobAt(j, pc'[t])
    BY <1>1, <1>2, <2>1, <2>2, ClientAssumption DEF JobAt, JobState
  <2>4. /\ txLock' \in Task \cup {NoTask} /\ connected' \in BOOLEAN
        /\ \A u \in Task \ {t} : txLock' = u <=> txLock = u
        /\ txLock' = t <=> j.at \in {"sending", "receiving"}
    BY <2>1, <2>2, ClientAssumption DEF JobInv
  <2>5. \A u \in Task \ {t} : pc'[u] = pc[u]
    BY <1>1
  <2> QED
    BY <2>1, <2>2, <2>3, <2>4, <2>5, JobStep
<1>8. CASE Sends(t)
  <2> DEFINE j == [job[t] EXCEPT !.at = "receiving", !.sent = IF connected' THEN @ + 1 ELSE @]
  <2>1. /\ job[t].at = "sending" /\ connected' \in BOOLEAN
        /\ job' = [job EXCEPT ![t] = j] /\ UNCHANGED txLock
    BY <1>8 DEF Sends, JobInv
  <2>2. /\ j.at = "receiving" /\ j.sent \in {job[t].sent, job[t].sent + 1}
        /\ j.result = job[t].result /\ j.retries = job[t].retries
    BY <1>2 DEF JobState
  <2>3. job[t].sent + job[t].retries <= NumRetries
    BY <1>2, <2>1 DEF JobAt
  <2>4. j.sent \in 0 .. NumRetries + 1 /\ j.sent + j.retries <= NumRetries + 1
    BY <1>2, <2>2, <2>3, ClientAssumption DEF JobState
  <2>5. j \in JobState
    BY <1>2, <2>2, <2>4 DEF JobState, JobPhase
  <2> HIDE DEF j
  <2>6. JobAt(j, pc'[t])
    BY <1>1, <1>2, <2>1, <2>2, <2>4 DEF JobAt
  <2> QED
    BY <1>1, <1>3, <2>1, <2>2, <2>5, <2>6, JobStep DEF JobInv
<1>9. CASE Replied(t)
  <2>1. PICK outcome \in {"ok", "error"} : EndJob(t, outcome)
    BY <1>9 DEF Replied
  <2>2. job[t].at = "receiving" /\ UNCHANGED connected /\ txLock' = NoTask
    BY <1>9 DEF Replied
  <2> QED
    BY <1>1, <1>3, <1>4, <2>1, <2>2, EndJobKeepsJobs, ClientAssumption DEF JobInv, Result
<1>10. CASE Garbled(t)
  <2>1. /\ EndJob(t, "undecodable") /\ connected' = FALSE /\ txLock' = NoTask
        /\ job[t].at = "receiving"
    BY <1>10 DEF Garbled
  <2> QED
    BY <1>1, <1>3, <1>4, <2>1, EndJobKeepsJobs, ClientAssumption DEF JobInv, Result
<1>11. CASE Retries(t)
  <2>1. PICK at \in {"sending", "receiving"} :
          job' = [job EXCEPT ![t].at = at, ![t].retries = @ - 1]
    BY <1>11 DEF Retries
  <2> DEFINE j == [job[t] EXCEPT !.at = at, !.retries = @ - 1]
  <2>2. /\ job[t].at = "receiving" /\ job[t].retries > 0
        /\ job' = [job EXCEPT ![t] = j] /\ UNCHANGED <<connected, txLock>>
    BY <1>11, <2>1 DEF Retries, JobInv
  <2>3. /\ j.at = at /\ j.sent = job[t].sent
        /\ j.result = job[t].result /\ j.retries = job[t].retries - 1
    BY <1>2 DEF JobState
  <2>4. job[t].sent + job[t].retries <= NumRetries + 1
    BY <1>2, <2>2 DEF JobAt
  <2>5. j.retries \in 0 .. NumRetries /\ j.sent + j.retries <= NumRetries
    BY <1>2, <2>2, <2>3, <2>4, ClientAssumption DEF JobState
  <2>6. j \in JobState
    BY <1>2, <2>3, <2>5 DEF JobState, JobPhase
  <2> HIDE DEF j
  <2>7. JobAt(j, pc'[t])
    BY <1>1, <1>2, <2>2, <2>3, <2>5, <2>6, ClientAssumption DEF JobAt, JobState
  <2> QED
    BY <1>1, <1>3, <2>2, <2>3, <2>6, <2>7, JobStep DEF JobInv
<1>12. CASE GivesUp(t)
  <2>1. /\ EndJob(t, "no_response") /\ connected' = FALSE /\ txLock' = NoTask
        /\ job[t].at = "receiving"
    BY <1>12 DEF GivesUp
  <2> QED
    BY <1>1, <1>3, <1>4, <2>1, EndJobKeepsJobs, ClientAssumption DEF JobInv, Result
<1> QED
  BY <1>5, <1>6, <1>7, <1>8, <1>9, <1>10, <1>11, <1>12 DEF Job

-------------------------------------------------------------------------------

LEMMA NextInv == IInv /\ [Next]_vars => IInv'
<1> SUFFICES ASSUME IInv, [Next]_vars PROVE IInv'
  OBVIOUS
<1> USE DEF IInv
<1>1. CASE UNCHANGED vars
  <2>1. CallerInv'
    BY <1>1, UnchangedKeepsCallers DEF vars, callVars
  <2>2. JobInv'
    BY <1>1 DEF vars, callVars, JobInv, InTransaction
  <2> QED
    BY <2>1, <2>2
<1>2. ASSUME NEW t \in Task, Call(t) \/ Coroutine(t) \/ Cancel(t)
      PROVE  IInv'
  BY <1>2, CallKeepsCallers, AwakeKeepsCallers, ResumeKeepsCallers, PauseOverKeepsCallers,
     CancelKeepsCallers, CoroutineKeepsJobs DEF Coroutine
<1>3. ASSUME NEW t \in Task, Job(t)
      PROVE  IInv'
  BY <1>3, JobLeavesCallers, UnchangedKeepsCallers, JobKeepsJobs
<1> QED
  BY <1>1, <1>2, <1>3 DEF Next

LEMMA AlwaysIInv == Spec => []IInv
<1> QED
  BY InitInv, NextInv, PTL DEF Spec

\* Whatever calls, cancellations and failures there are, the state is one that the
\* client and pymodbus can be in: the request of a call is sent at most once
\* more than there are retries.
THEOREM Typed == Spec => []TypeOK
<1>1. IInv => TypeOK
  BY DEF IInv, CallerInv, JobInv, TypeOK
<1> QED
  BY <1>1, AlwaysIInv, PTL

\* For any callers, cancelled or not, two transactions never share the wire
\* (_async_pymodbus_call, TransactionManager.execute).
THEOREM TransactionsAreAlone == Spec => []OneTransaction
<1>1. IInv => OneTransaction
  <2> SUFFICES ASSUME IInv PROVE OneTransaction
    OBVIOUS
  <2>1. txLock \in Task \cup {NoTask} /\ \A t \in Task : txLock = t <=> InTransaction(t)
    BY DEF IInv, JobInv
  <2>2. \A t, u \in Task : InTransaction(t) /\ InTransaction(u) => t = u
    BY <2>1
  <2>3. txLock # NoTask <=> \E t \in Task : InTransaction(t)
    BY <2>1, ClientAssumption
  <2> QED
    BY <2>2, <2>3 DEF OneTransaction
<1> QED
  BY <1>1, AlwaysIInv, PTL

-------------------------------------------------------------------------------
(***************************************************************************)
(* The flag retry_on_empty, which is one for all the calls.  As long as no *)
(* write has outlasted the one it began under, the flag is off just while  *)
(* a write is under way, and it is the outermost write that saved it as    *)
(* TRUE and brings it back: writes nest, whatever calls and reads do.      *)
(***************************************************************************)

WritesNest ==
  /\ retryOnEmpty <=> ~WritersUnderWay
  /\ WritersUnderWay => outermost \in Writer /\ ~Idle(outermost)
  /\ \A w \in Writer : ~Idle(w) => (saved[w] <=> w = outermost)

FlagInv == ~outlasted => WritesNest

\* Waking up or pausing, a coroutine stays in the client.
LEMMA StaysUnderWay ==
  ASSUME CallerInv, NEW t \in Task,
         Awake(t) \/ (Resume(t) /\ PollDelay /\ job[t].result # "not_connected")
  PROVE  /\ UNCHANGED <<saved, retryOnEmpty, histVars>>
         /\ \A u \in Task : Idle(u)' <=> Idle(u)
<1>1. CASE Awake(t)
  <2>1. waiters # <<>> /\ Head(waiters) = t
    BY <1>1 DEF Awake
  <2>2. 1 \in 1 .. Len(waiters) /\ waiters[1] = t
    BY <2>1, EmptySeq DEF CallerInv
  <2>3. pc[t] = "waiting"
    BY <2>2 DEF CallerInv, QueueIsOfWaiters
  <2> QED
    BY <1>1, <2>3 DEF Awake, CallerInv, Idle
<1>2. CASE Resume(t) /\ PollDelay /\ job[t].result # "not_connected"
  BY <1>2 DEF Resume, CallerInv, Idle
<1> QED
  BY <1>1, <1>2

\* The end of a call, a write's included.
LEMMA EndCallRestores ==
  ASSUME CallerInv, FlagInv, NEW t \in Task, ~Idle(t), EndCall(t)
  PROVE  FlagInv'
<1> SUFFICES ASSUME ~outlasted' PROVE WritesNest'
  BY DEF FlagInv
<1>1. /\ pc'[t] = "idle" /\ \A u \in Task \ {t} : pc'[u] = pc[u]
      /\ saved' = [saved EXCEPT ![t] = TRUE]
      /\ outermost' = IF t = outermost THEN NoTask ELSE outermost
  BY EndCallKeeps DEF EndCall, Leaves
<1>2. WritesNest /\ ~(t = outermost /\ \E w \in Writer \ {t} : ~Idle(w))
  BY DEF FlagInv, EndCall, Leaves
<1>3. \A w \in Writer : w \in Task
  BY DEF Task
<1>4. CASE t \in Writer /\ t = outermost
  <2>1. retryOnEmpty' = saved[t] /\ saved[t] = TRUE
    BY <1>2, <1>3, <1>4 DEF EndCall, WritesNest, CallerInv
  <2>2. \A w \in Writer : Idle(w)'
    BY <1>1, <1>2, <1>3, <1>4 DEF Idle
  <2> QED
    BY <2>1, <2>2 DEF WritesNest, WritersUnderWay
<1>5. CASE t \in Writer /\ t # outermost
  <2>1. retryOnEmpty' = FALSE
    BY <1>2, <1>3, <1>5 DEF EndCall, WritesNest, CallerInv
  <2>2. outermost' = outermost /\ outermost \in Writer /\ ~Idle(outermost)'
    BY <1>1, <1>2, <1>3, <1>5 DEF WritesNest, WritersUnderWay, Idle
  <2>3. \A w \in Writer : ~Idle(w)' => (saved'[w] <=> w = outermost')
    BY <1>1, <1>2, <1>3, <2>2 DEF WritesNest, Idle, CallerInv
  <2> QED
    BY <2>1, <2>2, <2>3 DEF WritesNest, WritersUnderWay
<1>6. CASE t \notin Writer
  <2>1. retryOnEmpty' = retryOnEmpty /\ \A w \in Writer : pc'[w] = pc[w] /\ saved'[w] = saved[w]
    BY <1>1, <1>3, <1>6 DEF EndCall, CallerInv
  <2>2. outermost' = outermost
    BY <1>1, <1>6, ClientAssumption DEF CallerInv
  <2> QED
    BY <1>2, <2>1, <2>2 DEF WritesNest, WritersUnderWay, Idle
<1> QED
  BY <1>4, <1>5, <1>6

\* Steps that neither begin nor end a call leave the flag as it is.
LEMMA FlagLeft ==
  ASSUME FlagInv, UNCHANGED <<retryOnEmpty, saved, histVars>>,
         \A u \in Task : Idle(u)' <=> Idle(u)
  PROVE  FlagInv'
<1>1. \A w \in Writer : Idle(w)' <=> Idle(w)
  BY DEF Task
<1> QED
  BY <1>1 DEF FlagInv, WritesNest, WritersUnderWay, histVars, Idle

LEMMA FlagStep == IInv /\ FlagInv /\ [Next]_vars => FlagInv'
<1> SUFFICES ASSUME IInv, FlagInv, [Next]_vars
             PROVE  FlagInv'
  OBVIOUS
<1>1. CallerInv /\ CallerInv'
  BY NextInv DEF IInv
<1>2. CASE UNCHANGED vars
  BY <1>2, FlagLeft DEF vars, callVars, Idle
<1>3. ASSUME NEW t \in Task, Call(t)
      PROVE  FlagInv'
  <2> SUFFICES ASSUME ~outlasted' PROVE WritesNest'
    BY DEF FlagInv
  <2>1. /\ Idle(t) /\ ~Idle(t)'
        /\ \A u \in Task \ {t} : pc'[u] = pc[u]
    BY <1>1, <1>3 DEF Call, Acquire, Idle, CallerInv
  <2>2. WritesNest /\ outermost' = IF t \in Writer /\ ~WritersUnderWay THEN t ELSE outermost
    BY <1>3 DEF Call, NotesCall, FlagInv
  <2>3. CASE t \in Writer
    <3>1. saved' = [saved EXCEPT ![t] = retryOnEmpty] /\ retryOnEmpty' = FALSE
      BY <1>3, <2>3 DEF Call, DisableRetries
    <3>2. \A w \in Writer \ {t} : (Idle(w)' <=> Idle(w)) /\ saved'[w] = saved[w]
      BY <1>1, <2>1, <3>1 DEF Idle, CallerInv, Task
    <3>3. saved'[t] <=> ~WritersUnderWay
      BY <1>1, <2>2, <3>1 DEF WritesNest, CallerInv
    <3>4. outermost' \in Writer /\ pc'[outermost'] # "idle"
      BY <2>1, <2>2, <2>3, <3>2 DEF WritesNest, Idle
    <3>5. ASSUME NEW w \in Writer, ~Idle(w)'
          PROVE  saved'[w] <=> w = outermost'
      <4>1. CASE w = t
        BY <2>1, <2>2, <2>3, <3>3, <4>1 DEF WritesNest
      <4>2. CASE w # t
        <5>1. ~Idle(w) /\ WritersUnderWay
          BY <3>2, <3>5, <4>2 DEF WritersUnderWay
        <5> QED
          BY <2>2, <3>2, <4>2, <5>1 DEF WritesNest
      <4> QED
        BY <4>1, <4>2
    <3>6. WritersUnderWay'
      BY <2>1, <2>3 DEF WritersUnderWay
    <3>7. ~Idle(outermost)'
      BY <3>4 DEF Idle
    <3> QED
      BY <3>1, <3>4, <3>5, <3>6, <3>7 DEF WritesNest
  <2>4. CASE t \notin Writer
    <3>1. UNCHANGED <<saved, retryOnEmpty, outermost>> /\ \A w \in Writer : pc'[w] = pc[w]
      BY <1>3, <2>1, <2>2, <2>4 DEF Call, DisableRetries, Task
    <3> QED
      BY <2>2, <3>1 DEF WritesNest, WritersUnderWay, Idle
  <2> QED
    BY <2>3, <2>4
<1>4. ASSUME NEW t \in Task, Awake(t)
      PROVE  FlagInv'
  BY <1>1, <1>4, StaysUnderWay, FlagLeft
<1>5. ASSUME NEW t \in Task, Resume(t)
      PROVE  FlagInv'
  <2>1. CASE PollDelay /\ job[t].result # "not_connected"
    BY <1>1, <1>5, <2>1, StaysUnderWay, FlagLeft
  <2>2. CASE ~(PollDelay /\ job[t].result # "not_connected")
    BY <1>1, <1>5, <2>2, EndCallRestores DEF Resume, Idle
  <2> QED
    BY <2>1, <2>2
<1>6. ASSUME NEW t \in Task, PauseOver(t) \/ Cancel(t)
      PROVE  FlagInv'
  BY <1>1, <1>6, EndCallRestores DEF PauseOver, Cancel, Idle
<1>7. ASSUME NEW t \in Task, Job(t)
      PROVE  FlagInv'
  BY <1>7, JobLeavesCallers, FlagLeft DEF Idle
<1> QED
  BY <1>2, <1>3, <1>4, <1>5, <1>6, <1>7 DEF Next, Coroutine

LEMMA FlagInit == Init => FlagInv
  BY DEF Init, FlagInv, WritesNest, WritersUnderWay, Idle, Task

LEMMA FlagAlways == Spec => []FlagInv
<1> QED
  BY FlagInit, FlagStep, AlwaysIInv, PTL DEF Spec

\* For any callers, however their calls overlap, end and are cancelled: when no
\* write is under way, reads are retried, unless a write has once outlasted the
\* one it began under (write_registers' finally).
THEOREM RetriesAreRestored == Spec => []RetriesComeBack
<1>1. FlagInv => RetriesComeBack
  BY DEF FlagInv, WritesNest, RetriesComeBack
<1> QED
  BY <1>1, FlagAlways, PTL

\* Nobody is left who would turn retries on again.
RetriesLost == ~retryOnEmpty /\ \A w \in Writer : ~Idle(w) => ~saved[w]

LEMMA LossStep == IInv /\ RetriesLost /\ [Next]_vars => RetriesLost'
<1> SUFFICES ASSUME IInv, RetriesLost, [Next]_vars
             PROVE  RetriesLost'
  OBVIOUS
<1>1. CallerInv
  BY DEF IInv
<1>2. ASSUME UNCHANGED <<saved, retryOnEmpty>>, \A u \in Task : Idle(u)' <=> Idle(u)
      PROVE  RetriesLost'
  BY <1>2 DEF RetriesLost, Task, Idle
<1>3. ASSUME NEW t \in Task, ~Idle(t), EndCall(t)
      PROVE  RetriesLost'
  <2>1. pc'[t] = "idle" /\ \A u \in Task \ {t} : pc'[u] = pc[u] /\ saved'[u] = saved[u]
    BY <1>1, <1>3, EndCallKeeps DEF EndCall, Leaves, CallerInv
  <2>2. ~retryOnEmpty'
    BY <1>3 DEF EndCall, RetriesLost
  <2> QED
    BY <2>1, <2>2 DEF RetriesLost, Idle, Task
<1>4. ASSUME NEW t \in Task, Call(t)
      PROVE  RetriesLost'
  <2>1. \A u \in Task \ {t} : pc'[u] = pc[u] /\ saved'[u] = saved[u]
    BY <1>1, <1>4 DEF Call, Acquire, DisableRetries, CallerInv
  <2>2. ~retryOnEmpty' /\ (t \in Writer => ~saved'[t])
    BY <1>1, <1>4 DEF Call, DisableRetries, RetriesLost, CallerInv
  <2> QED
    BY <2>1, <2>2 DEF RetriesLost, Idle, Task
<1>5. ASSUME NEW t \in Task, Awake(t) \/ Resume(t)
      PROVE  RetriesLost'
  <2>1. CASE Awake(t) \/ (PollDelay /\ job[t].result # "not_connected")
    BY <1>1, <1>2, <1>5, <2>1, StaysUnderWay
  <2>2. CASE Resume(t) /\ ~(PollDelay /\ job[t].result # "not_connected")
    BY <1>3, <2>2 DEF Resume, Idle
  <2> QED
    BY <1>5, <2>1, <2>2
<1>6. ASSUME NEW t \in Task, PauseOver(t) \/ Cancel(t)
      PROVE  RetriesLost'
  BY <1>3, <1>6 DEF PauseOver, Cancel, Idle
<1>7. CASE UNCHANGED vars
  BY <1>2, <1>7 DEF vars, callVars, Idle
<1>8. ASSUME NEW t \in Task, Job(t)
      PROVE  RetriesLost'
  BY <1>2, <1>8, JobLeavesCallers DEF Idle
<1> QED
  BY <1>4, <1>5, <1>6, <1>7, <1>8 DEF Next, Coroutine

\* What two writes that overlap can do cannot be undone: once the flag is off and no
\* write under way has saved it as on, it stays off, whatever is called after
\* that.  MCClientRetriesLost reaches such a state.
THEOREM RetriesAreLostForGood == Spec => [][RetriesLost => RetriesLost']_vars
<1>1. IInv /\ [Next]_vars => [RetriesLost => RetriesLost']_vars
  BY LossStep
<1> QED
  BY <1>1, AlwaysIInv, PTL DEF Spec

-------------------------------------------------------------------------------
(***************************************************************************)
(* A write's request.  Whatever the other writes do, the flag is off while *)
(* a write is under way, until another write ends: so nothing makes        *)
(* pymodbus send the request of an undisturbed write again.                *)
(***************************************************************************)

FlagIsOffForWrites == \A w \in Writer : ~Idle(w) /\ ~disturbed[w] => ~retryOnEmpty

LEMMA OffStep == IInv /\ FlagIsOffForWrites /\ [Next]_vars => FlagIsOffForWrites'
<1> SUFFICES ASSUME IInv, FlagIsOffForWrites, [Next]_vars
             PROVE  FlagIsOffForWrites'
  OBVIOUS
<1>1. CallerInv
  BY DEF IInv
<1>2. \A w \in Writer : w \in Task
  BY DEF Task
<1>3. ASSUME UNCHANGED <<retryOnEmpty, disturbed>>, \A u \in Task : Idle(u)' <=> Idle(u)
      PROVE  FlagIsOffForWrites'
  BY <1>2, <1>3 DEF FlagIsOffForWrites, Idle
<1>4. ASSUME NEW t \in Task, ~Idle(t), EndCall(t)
      PROVE  FlagIsOffForWrites'
  <2>1. pc'[t] = "idle" /\ \A u \in Task \ {t} : pc'[u] = pc[u]
    BY <1>1, <1>4, EndCallKeeps
  <2>2. \A u \in Task \ {t} :
          disturbed'[u] <=> disturbed[u] \/ (t \in Writer /\ u \in Writer /\ ~Idle(u))
    BY <1>1, <1>4 DEF EndCall, Leaves, CallerInv
  <2>3. t \notin Writer => retryOnEmpty' = retryOnEmpty
    BY <1>4 DEF EndCall
  <2> QED
    BY <1>2, <2>1, <2>2, <2>3 DEF FlagIsOffForWrites, Idle
<1>5. ASSUME NEW t \in Task, Call(t)
      PROVE  FlagIsOffForWrites'
  <2>1. CASE t \in Writer
    BY <1>5, <2>1 DEF Call, DisableRetries, FlagIsOffForWrites
  <2>2. CASE t \notin Writer
    <3>1. /\ retryOnEmpty' = retryOnEmpty
          /\ \A w \in Writer : pc'[w] = pc[w] /\ (disturbed[w] => disturbed'[w])
      BY <1>1, <1>2, <1>5, <2>2 DEF Call, Acquire, DisableRetries, NotesCall, CallerInv
    <3> QED
      BY <3>1 DEF FlagIsOffForWrites, Idle
  <2> QED
    BY <2>1, <2>2
<1>6. ASSUME NEW t \in Task, Awake(t) \/ Resume(t)
      PROVE  FlagIsOffForWrites'
  <2>1. CASE Awake(t) \/ (PollDelay /\ job[t].result # "not_connected")
    BY <1>1, <1>3, <1>6, <2>1, StaysUnderWay DEF histVars
  <2>2. CASE Resume(t) /\ ~(PollDelay /\ job[t].result # "not_connected")
    BY <1>4, <2>2 DEF Resume, Idle
  <2> QED
    BY <1>6, <2>1, <2>2
<1>7. ASSUME NEW t \in Task, PauseOver(t) \/ Cancel(t)
      PROVE  FlagIsOffForWrites'
  BY <1>4, <1>7 DEF PauseOver, Cancel, Idle
<1>8. CASE UNCHANGED vars
  BY <1>3, <1>8 DEF vars, callVars, histVars, Idle
<1>9. ASSUME NEW t \in Task, Job(t)
      PROVE  FlagIsOffForWrites'
  BY <1>3, <1>9, JobLeavesCallers DEF histVars, Idle
<1> QED
  BY <1>5, <1>6, <1>7, <1>8, <1>9 DEF Next, Coroutine

\* A write that is under way and that nobody has disturbed.
Alone(w) == ~Idle(w) /\ ~disturbed[w]

RequestIsNew ==
  \A w \in Writer : Alone(w) => /\ job[w].at = "sending" => job[w].sent = 0
                               /\ job[w].sent <= 1

\* Who is undisturbed was so before, or has only just begun.
LEMMA AloneBefore ==
  ASSUME IInv, [Next]_vars, NEW w \in Writer, Alone(w)'
  PROVE  Alone(w) \/ Call(w)
<1> SUFFICES ASSUME ~Call(w)
             PROVE  Alone(w)
  OBVIOUS
<1>1. CallerInv /\ w \in Task
  BY DEF IInv, Task
<1>2. CASE UNCHANGED <<pc, disturbed>>
  BY <1>2 DEF Alone, Idle
<1>3. ASSUME NEW t \in Task, ~Idle(t), EndCall(t)
      PROVE  Alone(w)
  <2>1. pc'[t] = "idle" /\ \A u \in Task \ {t} : pc'[u] = pc[u] /\ (disturbed[u] => disturbed'[u])
    BY <1>1, <1>3, EndCallKeeps DEF EndCall, Leaves, CallerInv
  <2> QED
    BY <1>1, <2>1 DEF Alone, Idle
<1>4. ASSUME NEW t \in Task, Call(t)
      PROVE  Alone(w)
  <2>1. \A u \in Task \ {t} : pc'[u] = pc[u] /\ (disturbed[u] => disturbed'[u])
    BY <1>1, <1>4 DEF Call, Acquire, NotesCall, CallerInv
  <2> QED
    BY <1>1, <1>4, <2>1 DEF Alone, Idle
<1>5. ASSUME NEW t \in Task, Awake(t) \/ Resume(t)
      PROVE  Alone(w)
  <2>1. CASE Awake(t) \/ (PollDelay /\ job[t].result # "not_connected")
    BY <1>1, <1>5, <2>1, StaysUnderWay DEF histVars, Alone, Idle
  <2>2. CASE Resume(t) /\ ~(PollDelay /\ job[t].result # "not_connected")
    BY <1>3, <2>2 DEF Resume, Idle
  <2> QED
    BY <1>5, <2>1, <2>2
<1>6. ASSUME NEW t \in Task, PauseOver(t) \/ Cancel(t)
      PROVE  Alone(w)
  BY <1>3, <1>6 DEF PauseOver, Cancel, Idle
<1>7. ASSUME NEW t \in Task, Job(t)
      PROVE  Alone(w)
  BY <1>2, <1>7, JobLeavesCallers DEF histVars
<1>8. CASE UNCHANGED vars
  BY <1>2, <1>8 DEF vars, callVars, histVars
<1> QED
  BY <1>4, <1>5, <1>6, <1>7, <1>8 DEF Next, Coroutine

\* A step after which a write's job has sent no more than before it.
LEMMA NothingSent ==
  ASSUME IInv, JobInv, JobInv', RequestIsNew, [Next]_vars,
         \A w \in Writer :
           \/ job'[w] = job[w]
           \/ job'[w].at # "sending" /\ job'[w].sent \in {0, job[w].sent}
           \/ job[w].at = "connected" /\ job'[w].sent = job[w].sent
  PROVE  RequestIsNew'
<1> SUFFICES ASSUME NEW w \in Writer, Alone(w)'
             PROVE  /\ job'[w].at = "sending" => job'[w].sent = 0
                    /\ job'[w].sent <= 1
  BY DEF RequestIsNew
<1>1. w \in Task
  BY DEF Task
<1>2. job[w].at = "connected" => job[w].sent = 0
  BY <1>1 DEF JobInv, JobAt
<1>3. CASE Alone(w)
  BY <1>1, <1>2, <1>3 DEF RequestIsNew, JobInv, JobState
<1>4. CASE Call(w)
  BY <1>1, <1>4 DEF Call, NoJob
<1> QED
  BY <1>3, <1>4, AloneBefore

LEMMA RequestStep ==
  IInv /\ FlagIsOffForWrites /\ RequestIsNew /\ [Next]_vars => RequestIsNew'
<1> SUFFICES ASSUME IInv, FlagIsOffForWrites, RequestIsNew, [Next]_vars
             PROVE  RequestIsNew'
  OBVIOUS
<1>1. CallerInv /\ JobInv /\ JobInv'
  BY NextInv DEF IInv
<1>2. \A w \in Writer : w \in Task
  BY DEF Task
<1>3. CASE UNCHANGED vars
  BY <1>1, <1>3, NothingSent DEF vars
<1>4. ASSUME NEW t \in Task, UNCHANGED job \/ job' = [job EXCEPT ![t] = NoJob]
      PROVE  RequestIsNew'
  BY <1>1, <1>2, <1>4, NothingSent DEF JobInv, NoJob
<1>5. ASSUME NEW t \in Task, StartJob(t)
      PROVE  RequestIsNew'
  <2>1. \A w \in Writer : job'[w] = job[w]
                          \/ (job'[w].at # "sending" /\ job'[w].sent = job[w].sent)
    BY <1>1, <1>2, <1>5 DEF StartJob, JobInv, JobState
  <2> QED
    BY <1>1, <2>1, NothingSent
<1>6. ASSUME NEW t \in Task, NEW outcome, EndJob(t, outcome)
      PROVE  RequestIsNew'
  <2>1. \A w \in Writer : job'[w] = job[w]
                          \/ (job'[w].at # "sending" /\ job'[w].sent \in {0, job[w].sent})
    BY <1>1, <1>2, <1>6 DEF EndJob, JobInv, JobState, NoJob
  <2> QED
    BY <1>1, <2>1, NothingSent
<1>7. ASSUME NEW t \in Task, Call(t) \/ Coroutine(t) \/ Cancel(t)
      PROVE  RequestIsNew'
  BY <1>4, <1>5, <1>7 DEF Call, Acquire, Coroutine, Awake, Resume, PauseOver, Cancel
<1>8. ASSUME NEW t \in Task, JobCloses(t) \/ JobConnects(t)
      PROVE  RequestIsNew'
  <2>1. CASE EndJob(t, "ok") \/ EndJob(t, "not_connected")
    BY <1>6, <2>1
  <2>2. CASE job' = [job EXCEPT ![t].at = "connected"]
    <3>1. \A w \in Writer : job'[w] = job[w]
                            \/ (job'[w].at # "sending" /\ job'[w].sent = job[w].sent)
      BY <1>1, <1>2, <2>2 DEF JobInv, JobState
    <3> QED
      BY <1>1, <3>1, NothingSent
  <2> QED
    BY <1>8, <2>1, <2>2 DEF JobCloses, JobConnects
<1>9. ASSUME NEW t \in Task, TransactionBegins(t)
      PROVE  RequestIsNew'
  <2>1. \A w \in Writer : job'[w] = job[w]
                          \/ (job[w].at = "connected" /\ job'[w].sent = job[w].sent)
    BY <1>1, <1>2, <1>9 DEF TransactionBegins, JobInv, JobState
  <2> QED
    BY <1>1, <2>1, NothingSent
<1>10. ASSUME NEW t \in Task, Sends(t)
       PROVE  RequestIsNew'
  <2>1. ASSUME NEW w \in Writer, Alone(w)'
        PROVE  /\ job'[w].at = "sending" => job'[w].sent = 0
               /\ job'[w].sent <= 1
    <3>1. Alone(w)
      BY <1>10, <2>1 DEF Sends, callVars, histVars, Alone, Idle
    <3>2. CASE w = t
      <4>1. /\ job[w].sent = 0 /\ job'[w].at = "receiving"
            /\ job'[w].sent \in {job[w].sent, job[w].sent + 1}
        BY <1>1, <1>2, <1>10, <3>1, <3>2 DEF Sends, RequestIsNew, JobInv, JobState
      <4> QED
        BY <4>1
    <3>3. CASE w # t
      BY <1>1, <1>2, <1>10, <3>1, <3>3 DEF Sends, RequestIsNew, JobInv
    <3> QED
      BY <3>2, <3>3
  <2> QED
    BY <2>1 DEF RequestIsNew
<1>11. ASSUME NEW t \in Task, Retries(t)
       PROVE  RequestIsNew'
  <2>1. ASSUME NEW w \in Writer, Alone(w)'
        PROVE  Alone(w) /\ w # t
    <3>1. Alone(w)
      BY <1>11, <2>1 DEF Retries, callVars, histVars, Alone, Idle
    <3> QED
      BY <1>11, <3>1 DEF Retries, FlagIsOffForWrites, Alone
  <2>2. \A w \in Writer \ {t} : job'[w] = job[w]
    BY <1>1, <1>2, <1>11 DEF Retries, JobInv
  <2> QED
    BY <2>1, <2>2 DEF RequestIsNew
<1>12. ASSUME NEW t \in Task, Replied(t) \/ Garbled(t) \/ GivesUp(t)
       PROVE  RequestIsNew'
  BY <1>6, <1>12 DEF Replied, Garbled, GivesUp
<1> QED
  BY <1>3, <1>7, <1>8, <1>9, <1>10, <1>11, <1>12 DEF Next, Job

LEMMA RequestInit == Init => FlagIsOffForWrites /\ RequestIsNew
  BY DEF Init, FlagIsOffForWrites, RequestIsNew, Alone, Idle, Task

\* For any callers and any number of retries: a write whose request goes out a second
\* time is one during which another write ended, or whose own caller has been
\* cancelled (write_registers, _transact).
THEOREM WritesAreSentOnce == Spec => []WriteSentOnce
<1>1. IInv /\ RequestIsNew => WriteSentOnce
  <2> SUFFICES ASSUME IInv, RequestIsNew, NEW w \in Writer, job[w].sent > 1, ~disturbed[w], ~Idle(w)
               PROVE  FALSE
    BY DEF WriteSentOnce
  <2>1. job[w].sent \in Nat /\ job[w].sent <= 1
    BY ClientAssumption DEF IInv, JobInv, JobState, RequestIsNew, Alone, Task
  <2> QED
    BY <2>1
<1> QED
  BY <1>1, RequestInit, OffStep, RequestStep, AlwaysIInv, PTL DEF Spec

-------------------------------------------------------------------------------
(***************************************************************************)
(* A read's retries.                                                       *)
(***************************************************************************)

\* A read with a writer beside it is marked as disturbed, for as long as it is under way.
ReadsAreMarked == \A t \in Reader : ~Idle(t) /\ WritersUnderWay => disturbed[t]

ReadsInv == ReadsAreMarked /\ ReadsAreRetried

\* Steps of the coroutines but for Call: no writer begins, and who leaves is idle.
LEMMA MarksLeft ==
  ASSUME CallerInv, ReadsAreMarked, NEW t \in Task,
         \A u \in Task \ {t} : pc'[u] = pc[u] /\ (disturbed[u] => disturbed'[u]),
         pc'[t] = "idle" \/ (pc[t] # "idle" /\ disturbed'[t] = disturbed[t])
  PROVE  ReadsAreMarked'
<1>1. WritersUnderWay' => WritersUnderWay
  BY DEF WritersUnderWay, Idle, Task
<1> QED
  BY <1>1 DEF ReadsAreMarked, Idle, Task

LEMMA MarkStep ==
  ASSUME IInv, ReadsAreMarked, [Next]_vars
  PROVE  ReadsAreMarked'
<1>1. CallerInv
  BY DEF IInv
<1>2. CASE UNCHANGED vars
  BY <1>2 DEF vars, callVars, histVars, ReadsAreMarked, WritersUnderWay, Idle
<1>3. ASSUME NEW t \in Task, Call(t)
      PROVE  ReadsAreMarked'
  <2>1. \A u \in Task \ {t} :
          /\ pc'[u] = pc[u]
          /\ disturbed'[u] <=> disturbed[u] \/ (t \in Writer /\ u \in Reader /\ pc[u] # "idle")
    BY <1>1, <1>3 DEF Call, Acquire, NotesCall, Idle, CallerInv
  <2>2. disturbed'[t] <=> t \in Reader /\ WritersUnderWay
    BY <1>3 DEF Call, NotesCall
  <2>3. t \in Reader => (WritersUnderWay' <=> WritersUnderWay)
    BY <2>1, ClientAssumption DEF WritersUnderWay, Idle, Task
  <2>4. t \notin Writer => (WritersUnderWay' <=> WritersUnderWay)
    BY <2>1 DEF WritersUnderWay, Idle, Task
  <2>5. ASSUME NEW u \in Reader, ~Idle(u)', WritersUnderWay'
        PROVE  disturbed'[u]
    <3>1. CASE u = t
      BY <2>2, <2>3, <2>5, <3>1
    <3>2. CASE u # t
      BY <2>1, <2>4, <2>5, <3>2 DEF ReadsAreMarked, Idle, Task
    <3> QED
      BY <3>1, <3>2
  <2> QED
    BY <2>5 DEF ReadsAreMarked
<1>4. ASSUME NEW t \in Task, ~Idle(t), EndCall(t)
      PROVE  ReadsAreMarked'
  <2>1. \A u \in Task \ {t} : disturbed[u] => disturbed'[u]
    BY <1>4 DEF EndCall, Leaves
  <2>2. pc'[t] = "idle" /\ \A u \in Task \ {t} : pc'[u] = pc[u]
    BY <1>1, <1>4, EndCallKeeps
  <2> QED
    BY <1>1, <2>1, <2>2, MarksLeft DEF CallerInv
<1>5. ASSUME NEW t \in Task, NEW p, pc[t] # "idle", pc' = [pc EXCEPT ![t] = p], UNCHANGED histVars
      PROVE  ReadsAreMarked'
  BY <1>1, <1>5, MarksLeft DEF CallerInv, histVars
<1>6. ASSUME NEW t \in Task, Awake(t)
      PROVE  ReadsAreMarked'
  <2>1. waiters # <<>> /\ Head(waiters) = t
    BY <1>6 DEF Awake
  <2>2. 1 \in 1 .. Len(waiters) /\ waiters[1] = t
    BY <1>1, <2>1, EmptySeq DEF CallerInv
  <2>3. pc[t] = "waiting"
    BY <1>1, <2>2 DEF CallerInv, QueueIsOfWaiters
  <2> QED
    BY <1>5, <1>6, <2>3 DEF Awake
<1>7. ASSUME NEW t \in Task, Resume(t)
      PROVE  ReadsAreMarked'
  BY <1>4, <1>5, <1>7 DEF Resume, Idle
<1>8. ASSUME NEW t \in Task, PauseOver(t) \/ Cancel(t)
      PROVE  ReadsAreMarked'
  BY <1>4, <1>8 DEF PauseOver, Cancel, Idle
<1>9. ASSUME NEW t \in Task, Job(t)
      PROVE  ReadsAreMarked'
  BY <1>9, JobLeavesCallers DEF histVars, ReadsAreMarked, WritersUnderWay, Idle
<1> QED
  BY <1>2, <1>3, <1>6, <1>7, <1>8, <1>9 DEF Next, Coroutine

\* A read that ends without a reply has used its retries, or a write turned them off.
LEMMA RetriedStep ==
  ASSUME IInv, FlagInv, ReadsInv, [Next]_vars
  PROVE  ReadsAreRetried'
<1>1. CallerInv /\ JobInv
  BY DEF IInv
<1>2. SUFFICES ASSUME NEW r \in Reader, job'[r].result = "no_response", ~disturbed'[r], ~outlasted'
               PROVE  job'[r].retries = 0
  BY DEF ReadsAreRetried
<1>3. r \in Task /\ job[r] \in JobState /\ JobAt(job[r], pc[r])
  BY <1>1 DEF Task, JobInv
<1>4. CASE job'[r] = job[r]
  <2>1. pc[r] = "calling"
    BY <1>2, <1>3, <1>4 DEF JobAt
  <2> DEFINE Remembered == (disturbed[r] => disturbed'[r]) /\ (outlasted => outlasted')
  <2>2. Remembered
    <3>1. CASE UNCHANGED vars
      BY <3>1 DEF vars, histVars
    <3>2. ASSUME NEW t \in Task, Call(t)
          PROVE  Remembered
      BY <1>3, <2>1, <3>2 DEF Call, NotesCall, Idle
    <3>3. ASSUME NEW t \in Task, Awake(t)
          PROVE  Remembered
      BY <3>3 DEF Awake, histVars
    <3>4. ASSUME NEW t \in Task, Resume(t)
          PROVE  Remembered
      <4>1. t # r
        BY <1>1, <1>2, <1>3, <1>4, <3>4 DEF Resume, JobInv, NoJob
      <4> QED
        BY <1>1, <1>3, <3>4, <4>1 DEF Resume, EndCall, Leaves, histVars, CallerInv
    <3>5. ASSUME NEW t \in Task, PauseOver(t)
          PROVE  Remembered
      BY <1>1, <1>3, <2>1, <3>5 DEF PauseOver, EndCall, Leaves, CallerInv
    <3>6. ASSUME NEW t \in Task, Cancel(t)
          PROVE  Remembered
      <4>1. t # r
        <5>1. job[r].at = "done" /\ job[r] # NoJob
          BY <1>2, <1>3, <1>4 DEF JobAt, NoJob
        <5> QED
          BY <1>1, <1>3, <1>4, <3>6, <5>1 DEF Cancel, JobInv
      <4> QED
        BY <1>1, <1>3, <3>6, <4>1 DEF Cancel, EndCall, Leaves, CallerInv
    <3>7. ASSUME NEW t \in Task, Job(t)
          PROVE  Remembered
      BY <3>7, JobLeavesCallers DEF histVars
    <3> QED
      BY <3>1, <3>2, <3>3, <3>4, <3>5, <3>6, <3>7 DEF Next, Coroutine
  <2> QED
    BY <1>2, <1>4, <2>2 DEF ReadsInv, ReadsAreRetried
<1>5. CASE job'[r] # job[r]
  <2>1. GivesUp(r) /\ pc[r] = "calling" /\ job'[r].retries = job[r].retries
    <3>1. ASSUME NEW t \in Task, UNCHANGED job \/ job' = [job EXCEPT ![t] = NoJob]
          PROVE  FALSE
      BY <1>1, <1>2, <1>3, <1>5, <3>1 DEF JobInv, NoJob
    <3>2. ASSUME NEW t \in Task, pc[t] # "calling", StartJob(t)
          PROVE  FALSE
      <4>1. t = r
        BY <1>1, <1>3, <1>5, <3>2 DEF StartJob, JobInv
      <4>2. job'[r].result = job[r].result
        BY <1>1, <1>3, <3>2, <4>1 DEF StartJob, JobInv, JobState
      <4> QED
        BY <1>2, <1>3, <3>2, <4>1, <4>2 DEF JobAt
    <3>3. ASSUME NEW t \in Task, NEW outcome, outcome # "no_response", EndJob(t, outcome)
          PROVE  FALSE
      <4>1. t = r
        BY <1>1, <1>3, <1>5, <3>3 DEF EndJob, JobInv
      <4>2. job'[r].result \in {outcome, "none"}
        BY <1>1, <1>3, <3>3, <4>1 DEF EndJob, JobInv, JobState, NoJob
      <4> QED
        BY <1>2, <3>3, <4>2
    <3>4. ASSUME NEW t \in Task, job[t].at # "done", NEW j,
                 job' = [job EXCEPT ![t] = j], j.result = job[t].result
          PROVE  FALSE
      <4>1. t = r /\ job'[r] = j
        BY <1>1, <1>3, <1>5, <3>4 DEF JobInv
      <4> QED
        BY <1>2, <1>3, <3>4, <4>1 DEF JobAt
    <3>5. ASSUME NEW t \in Task, Call(t) \/ Coroutine(t) \/ Cancel(t)
          PROVE  FALSE
      <4>1. CASE Call(t)
        BY <3>1, <3>2, <4>1 DEF Call, Acquire, Idle
      <4>2. CASE Awake(t)
        BY <1>1, <3>2, <4>2, ClientAssumption DEF Awake, CallerInv, LockIsHeld
      <4>3. CASE Resume(t) \/ PauseOver(t) \/ Cancel(t)
        BY <3>1, <4>3 DEF Resume, PauseOver, Cancel
      <4> QED
        BY <3>5, <4>1, <4>2, <4>3 DEF Coroutine
    <3>6. ASSUME NEW t \in Task, JobCloses(t) \/ JobConnects(t) \/ Replied(t) \/ Garbled(t)
          PROVE  FALSE
      <4>1. CASE job[t].at = "queued" /\ job' = [job EXCEPT ![t].at = "connected"]
        <5>1. job' = [job EXCEPT ![t] = [job[t] EXCEPT !.at = "connected"]]
              /\ [job[t] EXCEPT !.at = "connected"].result = job[t].result
          BY <1>1, <4>1 DEF JobInv, JobState
        <5> QED
          BY <3>4, <4>1, <5>1
      <4>2. CASE \E outcome \in {"ok", "not_connected", "error", "undecodable"} : EndJob(t, outcome)
        BY <3>3, <4>2
      <4> QED
        BY <3>6, <4>1, <4>2 DEF JobCloses, JobConnects, Replied, Garbled
    <3>7. ASSUME NEW t \in Task, TransactionBegins(t) \/ Sends(t) \/ Retries(t)
          PROVE  FALSE
      <4>1. job[t].at # "done" /\ job[t] \in JobState
        BY <1>1, <3>7 DEF TransactionBegins, Sends, Retries, JobInv
      <4>2. \E at, retries, sent :
              job' = [job EXCEPT ![t] = [job[t] EXCEPT !.at = at, !.retries = retries, !.sent = sent]]
        <5>1. CASE TransactionBegins(t)
          <6>1. job' = [job EXCEPT ![t] = [job[t] EXCEPT !.at = "sending", !.retries = NumRetries,
                                                          !.sent = job[t].sent]]
            BY <1>1, <4>1, <5>1 DEF TransactionBegins, JobInv, JobState
          <6> QED
            BY <6>1
        <5>2. CASE Sends(t)
          <6>1. PICK sent : sent = IF connected' THEN job[t].sent + 1 ELSE job[t].sent
            OBVIOUS
          <6>2. job' = [job EXCEPT ![t] = [job[t] EXCEPT !.at = "receiving", !.retries = job[t].retries,
                                                          !.sent = sent]]
            BY <1>1, <4>1, <5>2, <6>1 DEF Sends, JobInv, JobState
          <6> QED
            BY <6>2
        <5>3. CASE Retries(t)
          <6>1. PICK at : job' = [job EXCEPT ![t].at = at, ![t].retries = @ - 1]
            BY <5>3 DEF Retries
          <6>2. job' = [job EXCEPT ![t] = [job[t] EXCEPT !.at = at, !.retries = job[t].retries - 1,
                                                          !.sent = job[t].sent]]
            BY <1>1, <4>1, <6>1 DEF JobInv, JobState
          <6> QED
            BY <6>2
        <5> QED
          BY <3>7, <5>1, <5>2, <5>3
      <4>3. PICK at, retries, sent :
              job' = [job EXCEPT ![t] = [job[t] EXCEPT !.at = at, !.retries = retries, !.sent = sent]]
        BY <4>2
      <4>4. [job[t] EXCEPT !.at = at, !.retries = retries, !.sent = sent].result = job[t].result
        BY <4>1 DEF JobState
      <4> QED
        BY <3>4, <4>1, <4>3, <4>4
    <3>8. ASSUME NEW t \in Task, GivesUp(t)
          PROVE  GivesUp(r) /\ pc[r] = "calling" /\ job'[r].retries = job[r].retries
      <4>1. t = r
        BY <1>1, <1>3, <1>5, <3>8 DEF GivesUp, EndJob, JobInv
      <4>2. pc[r] = "calling"
        BY <1>1, <1>2, <1>3, <3>8, <4>1 DEF GivesUp, EndJob, JobInv, NoJob
      <4> QED
        BY <1>1, <1>3, <3>8, <4>1, <4>2 DEF GivesUp, EndJob, JobInv, JobState
    <3>9. CASE UNCHANGED vars
      BY <1>5, <3>9 DEF vars
    <3> QED
      BY <3>5, <3>6, <3>7, <3>8, <3>9 DEF Next, Job
  <2>2. disturbed[r] = disturbed'[r] /\ ~outlasted
    BY <1>2, <2>1 DEF GivesUp, histVars
  <2>3. ~WritersUnderWay
    BY <1>1, <1>2, <2>1, <2>2 DEF ReadsInv, ReadsAreMarked, Idle
  <2> QED
    BY <2>1, <2>2, <2>3 DEF GivesUp, FlagInv, WritesNest
<1> QED
  BY <1>4, <1>5

LEMMA ReadsInit == Init => ReadsInv
  BY DEF Init, ReadsInv, ReadsAreMarked, ReadsAreRetried, WritersUnderWay, Idle, NoJob, Task

\* For any callers: a read with no write beside it fails for want of a reply only
\* after all of its retries, unless a write has once outlasted the one it began
\* under (_transact and its retry_on_empty).
THEOREM ReadsUseTheirRetries == Spec => []ReadsAreRetried
<1>1. IInv /\ FlagInv /\ ReadsInv /\ [Next]_vars => ReadsInv'
  BY MarkStep, RetriedStep DEF ReadsInv
<1>2. ReadsInv => ReadsAreRetried
  BY DEF ReadsInv
<1> QED
  BY <1>1, <1>2, ReadsInit, AlwaysIInv, FlagAlways, PTL DEF Spec

-------------------------------------------------------------------------------
(***************************************************************************)
(* The refinement.  The queue that SerialBus speaks of is the holder of    *)
(* the lock and its waiters behind it.                                     *)
(***************************************************************************)

\* The sequence s behind u.
LEMMA Behind ==
  ASSUME NEW S, NEW s \in Seq(S), NEW u \in S
  PROVE  /\ <<u>> \o s \in Seq(S)
         /\ Len(<<u>> \o s) = Len(s) + 1
         /\ (<<u>> \o s)[1] = u
         /\ \A i \in 1 .. Len(s) : (<<u>> \o s)[i + 1] = s[i]
         /\ \A i \in 2 .. Len(s) + 1 : (<<u>> \o s)[i] = s[i - 1]
<1>1. <<u>> \in Seq(S) /\ Len(<<u>>) = 1 /\ <<u>>[1] = u /\ Len(s) \in Nat
  OBVIOUS
<1>2. /\ <<u>> \o s \in Seq(S)
      /\ Len(<<u>> \o s) = 1 + Len(s)
      /\ \A i \in 1 .. 1 + Len(s) : (<<u>> \o s)[i] = IF i <= 1 THEN <<u>>[i] ELSE s[i - 1]
  BY <1>1, ConcatProperties
<1>3. \A i \in 2 .. Len(s) + 1 : (<<u>> \o s)[i] = s[i - 1]
  BY <1>1, <1>2
<1>4. ASSUME NEW i \in 1 .. Len(s)
      PROVE  (<<u>> \o s)[i + 1] = s[i]
  <2>1. i + 1 \in 2 .. Len(s) + 1 /\ (i + 1) - 1 = i
    BY <1>1
  <2> QED
    BY <1>3, <2>1
<1> QED
  BY <1>1, <1>2, <1>3, <1>4

\* The first one leaves, or one behind it.
LEMMA BehindRemoved ==
  ASSUME NEW S, NEW s \in Seq(S), NEW u \in S, NoTwice(s), \A i \in 1 .. Len(s) : s[i] # u
  PROVE  /\ NoTwice(<<u>> \o s)
         /\ Tail(<<u>> \o s) = s
         /\ RemoveFirst(<<u>> \o s, u) = s
         /\ \A e \in S \ {u} : RemoveFirst(<<u>> \o s, e) = <<u>> \o RemoveFirst(s, e)
<1> DEFINE c == <<u>> \o s
<1>1. /\ c \in Seq(S) /\ Len(c) = Len(s) + 1 /\ Len(s) \in Nat
      /\ c[1] = u
      /\ \A i \in 1 .. Len(s) : c[i + 1] = s[i]
      /\ \A i \in 2 .. Len(s) + 1 : c[i] = s[i - 1]
  BY Behind
<1> HIDE DEF c
<1>2. NoTwice(c)
  <2>1. SUFFICES ASSUME NEW i \in 1 .. Len(c), NEW j \in 1 .. Len(c), c[i] = c[j], i # j
                 PROVE  FALSE
    BY DEF NoTwice
  <2>2. ASSUME NEW k \in 2 .. Len(s) + 1
        PROVE  k - 1 \in 1 .. Len(s) /\ c[k] = s[k - 1] /\ c[k] # u
    <3>1. k - 1 \in 1 .. Len(s)
      BY <1>1
    <3> QED
      BY <1>1, <3>1
  <2>3. i # 1 /\ j # 1
    BY <1>1, <2>1, <2>2
  <2>4. /\ i - 1 \in 1 .. Len(s) /\ j - 1 \in 1 .. Len(s) /\ i - 1 # j - 1
        /\ s[i - 1] = s[j - 1]
    BY <1>1, <2>1, <2>2, <2>3
  <2> QED
    BY <2>4 DEF NoTwice
<1>3. Tail(c) = s
  <2>1. c # <<>>
    BY <1>1
  <2>2. /\ Tail(c) \in Seq(S) /\ Len(Tail(c)) = Len(s)
        /\ \A i \in 1 .. Len(s) : Tail(c)[i] = s[i]
    BY <1>1, <2>1, HeadTailProperties
  <2> QED
    BY <2>2, SeqEqual
<1>4. RemoveFirst(c, u) = s
  <2>1. 1 \in 1 .. Len(c)
    BY <1>1
  <2>2. RemoveFirst(c, u) = RemoveAt(c, 1)
    BY <1>1, <1>2, <2>1, RemovedOnce
  <2>3. /\ RemoveAt(c, 1) \in Seq(S) /\ Len(RemoveAt(c, 1)) = Len(s)
        /\ \A j \in 1 .. Len(s) : RemoveAt(c, 1)[j] = c[j + 1]
    <3>1. /\ RemoveAt(c, 1) \in Seq(S) /\ Len(RemoveAt(c, 1)) = Len(c) - 1
          /\ \A j \in 1 .. Len(c) - 1 :
               RemoveAt(c, 1)[j] = IF j < 1 THEN c[j] ELSE c[j + 1]
      BY <1>1, <2>1, RemovedAt
    <3>2. Len(c) - 1 = Len(s)
      BY <1>1
    <3>3. \A j \in 1 .. Len(s) : ~(j < 1)
      OBVIOUS
    <3> QED
      BY <3>1, <3>2, <3>3
  <2>4. \A j \in 1 .. Len(s) : RemoveAt(c, 1)[j] = s[j]
    BY <1>1, <2>3
  <2> QED
    BY <2>2, <2>3, <2>4, SeqEqual
<1>5. ASSUME NEW e \in S \ {u}
      PROVE  RemoveFirst(c, e) = <<u>> \o RemoveFirst(s, e)
  <2>1. CASE \A i \in 1 .. Len(s) : s[i] # e
    <3>1. ASSUME NEW i \in 1 .. Len(c), c[i] = e
          PROVE  FALSE
      <4>1. i # 1 /\ i - 1 \in 1 .. Len(s) /\ i \in 2 .. Len(s) + 1
        BY <1>1, <3>1
      <4> QED
        BY <1>1, <2>1, <3>1, <4>1
    <3> QED
      BY <2>1, <3>1, NothingRemoved DEF c
  <2>2. ASSUME NEW i \in 1 .. Len(s), s[i] = e
        PROVE  RemoveFirst(c, e) = <<u>> \o RemoveFirst(s, e)
    <3>1. i + 1 \in 1 .. Len(c) /\ c[i + 1] = e
      BY <1>1, <2>2
    <3>2. RemoveFirst(c, e) = RemoveAt(c, i + 1) /\ RemoveFirst(s, e) = RemoveAt(s, i)
      BY <1>1, <1>2, <2>2, <3>1, RemovedOnce
    <3> DEFINE lhs == RemoveAt(c, i + 1)
               rest == RemoveAt(s, i)
    <3>3. /\ lhs \in Seq(S) /\ Len(lhs) = Len(s)
          /\ \A j \in 1 .. Len(s) : lhs[j] = IF j < i + 1 THEN c[j] ELSE c[j + 1]
      <4>1. /\ lhs \in Seq(S) /\ Len(lhs) = Len(c) - 1
            /\ \A j \in 1 .. Len(c) - 1 : lhs[j] = IF j < i + 1 THEN c[j] ELSE c[j + 1]
        BY <1>1, <3>1, RemovedAt
      <4>2. Len(c) - 1 = Len(s)
        BY <1>1
      <4> HIDE DEF lhs
      <4> QED
        BY <4>1, <4>2
    <3>4. /\ rest \in Seq(S) /\ Len(rest) = Len(s) - 1
          /\ \A j \in 1 .. Len(s) - 1 : rest[j] = IF j < i THEN s[j] ELSE s[j + 1]
      BY RemovedAt
    <3> HIDE DEF lhs, rest
    <3>5. /\ <<u>> \o rest \in Seq(S) /\ Len(<<u>> \o rest) = Len(s)
          /\ (<<u>> \o rest)[1] = u
          /\ \A j \in 2 .. Len(s) : (<<u>> \o rest)[j] = rest[j - 1]
      BY <1>1, <3>4, Behind
    <3>6. ASSUME NEW j \in 1 .. Len(s)
          PROVE  lhs[j] = (<<u>> \o rest)[j]
      <4>1. CASE j = 1
        BY <1>1, <3>3, <3>5, <4>1
      <4>2. CASE j # 1 /\ j < i + 1
        <5>1. j \in 2 .. Len(s) /\ j - 1 \in 1 .. Len(s) - 1 /\ j - 1 < i /\ j \in 2 .. Len(s) + 1
          BY <1>1, <4>2
        <5>2. lhs[j] = s[j - 1]
          BY <1>1, <3>3, <4>2, <5>1
        <5>3. (<<u>> \o rest)[j] = s[j - 1]
          BY <3>4, <3>5, <5>1
        <5> QED
          BY <5>2, <5>3
      <4>3. CASE ~(j < i + 1)
        <5>1. j \in 2 .. Len(s) /\ j - 1 \in 1 .. Len(s) - 1 /\ ~(j - 1 < i) /\ (j - 1) + 1 = j
          BY <1>1, <4>3
        <5>2. lhs[j] = s[j]
          BY <1>1, <3>3, <4>3
        <5>3. (<<u>> \o rest)[j] = s[j]
          BY <3>4, <3>5, <5>1
        <5> QED
          BY <5>2, <5>3
      <4> QED
        BY <4>1, <4>2, <4>3
    <3>7. lhs = <<u>> \o rest
      <4> DEFINE rhs == <<u>> \o rest
      <4>1. rhs \in Seq(S) /\ Len(rhs) = Len(lhs) /\ \A j \in 1 .. Len(lhs) : lhs[j] = rhs[j]
        BY <3>3, <3>5, <3>6
      <4> HIDE DEF rhs
      <4>2. lhs = rhs
        BY <3>3, <4>1, SeqEqual
      <4> QED
        BY <4>2 DEF rhs
    <3> QED
      BY <3>2, <3>7 DEF lhs, rest
  <2> QED
    BY <2>1, <2>2
<1> QED
  BY <1>2, <1>3, <1>4, <1>5 DEF c

\* The queue holds those that are not idle, each once.
LEMMA CallsHoldTheBusy ==
  ASSUME CallerInv
  PROVE  /\ Calls \in Seq(Task)
         /\ NoTwice(Calls)
         /\ \A t \in Task : Bus!Queued(t) <=> ~Idle(t)
<1>1. waiters \in Seq(Task) /\ NoTwice(waiters)
  BY DEF CallerInv, QueueIsOfWaiters
<1>2. \A t \in Task : pc[t] \in {"idle", "waiting", "calling", "pausing"}
  BY DEF CallerInv
<1>3. CASE lock = NoTask
  <2>1. Calls = waiters
    BY <1>3 DEF Calls
  <2>2. DOMAIN Calls = 1 .. Len(waiters)
    BY <1>1, <2>1
  <2>3. \A t \in Task : Bus!Queued(t) <=> pc[t] = "waiting"
    BY <2>1, <2>2 DEF Bus!Queued, CallerInv, QueueIsOfWaiters
  <2>4. \A t \in Task : pc[t] \notin {"calling", "pausing"}
    BY <1>3, ClientAssumption DEF CallerInv, LockIsHeld
  <2> QED
    BY <1>1, <1>2, <2>1, <2>3, <2>4 DEF Idle
<1>4. CASE lock # NoTask
  <2>1. lock \in Task /\ Calls = <<lock>> \o waiters
    BY <1>4 DEF Calls, CallerInv
  <2>2. \A i \in 1 .. Len(waiters) : waiters[i] # lock
    BY <2>1 DEF CallerInv, LockIsHeld, QueueIsOfWaiters
  <2>3. NoTwice(Calls)
    BY <1>1, <2>1, <2>2, BehindRemoved
  <2>4. /\ Calls \in Seq(Task) /\ Len(Calls) = Len(waiters) + 1 /\ Len(waiters) \in Nat
        /\ Calls[1] = lock
        /\ \A i \in 1 .. Len(waiters) : Calls[i + 1] = waiters[i]
        /\ \A i \in 2 .. Len(waiters) + 1 : Calls[i] = waiters[i - 1]
    BY <1>1, <2>1, Behind
  <2>5. DOMAIN Calls = 1 .. Len(Calls)
    BY <2>4
  <2>6. ASSUME NEW t \in Task
        PROVE  Bus!Queued(t) <=> t = lock \/ \E i \in 1 .. Len(waiters) : waiters[i] = t
    <3>1. ASSUME NEW i \in 1 .. Len(Calls), Calls[i] = t, t # lock
          PROVE  \E k \in 1 .. Len(waiters) : waiters[k] = t
      <4>1. i \in 2 .. Len(waiters) + 1 /\ i - 1 \in 1 .. Len(waiters)
        BY <2>4, <3>1
      <4> QED
        BY <2>4, <3>1, <4>1
    <3>2. ASSUME NEW k \in 1 .. Len(waiters), waiters[k] = t
          PROVE  \E i \in 1 .. Len(Calls) : Calls[i] = t
      <4>1. k + 1 \in 1 .. Len(Calls) /\ Calls[k + 1] = t
        BY <2>4, <3>2
      <4> QED
        BY <4>1
    <3>3. 1 \in 1 .. Len(Calls)
      BY <2>4
    <3> QED
      BY <2>4, <2>5, <3>1, <3>2, <3>3 DEF Bus!Queued
  <2>7. \A t \in Task : t = lock <=> pc[t] \in {"calling", "pausing"}
    BY DEF CallerInv, LockIsHeld
  <2> QED
    BY <1>2, <2>3, <2>4, <2>6, <2>7 DEF CallerInv, QueueIsOfWaiters, Idle
<1> QED
  BY <1>3, <1>4

\* A caller takes the free lock, or a place behind the others.
LEMMA CallJoins ==
  ASSUME CallerInv, NEW t \in Task, Call(t)
  PROVE  Bus!Join(t)
<1>1. ~Bus!Queued(t)
  BY CallsHoldTheBusy DEF Call
<1>2. waiters \in Seq(Task)
  BY DEF CallerInv
<1>3. CASE FreeToTake
  <2>1. lock = NoTask /\ waiters = <<>> /\ lock' = t /\ waiters' = <<>>
    BY <1>3 DEF Call, Acquire, FreeToTake
  <2>2. Calls = <<>> /\ Calls' = <<t>> \o <<>>
    BY <2>1, ClientAssumption DEF Calls
  <2>3. Calls' = Append(Calls, t)
    BY <2>2
  <2> QED
    BY <1>1, <2>3 DEF Bus!Join
<1>4. CASE ~FreeToTake
  <2>1. lock' = lock /\ waiters' = Append(waiters, t)
    BY <1>4 DEF Call, Acquire
  <2>2. CASE lock = NoTask
    BY <1>1, <2>1, <2>2 DEF Calls, Bus!Join
  <2>3. CASE lock # NoTask
    <3>1. Calls = <<lock>> \o waiters /\ Calls' = <<lock>> \o Append(waiters, t)
      BY <2>1, <2>3 DEF Calls
    <3>2. lock \in Task /\ <<lock>> \in Seq(Task) /\ <<t>> \in Seq(Task)
      BY <2>3 DEF CallerInv
    <3>3. Append(waiters, t) = waiters \o <<t>>
      BY <1>2, AppendIsConcat
    <3>4. <<lock>> \o (waiters \o <<t>>) = (<<lock>> \o waiters) \o <<t>>
      BY <1>2, <3>2, ConcatAssociative
    <3>5. <<lock>> \o waiters \in Seq(Task)
      BY <1>2, <3>2, ConcatProperties
    <3>6. (<<lock>> \o waiters) \o <<t>> = Append(<<lock>> \o waiters, t)
      BY <3>5, AppendIsConcat
    <3>7. Calls' = Append(Calls, t)
      BY <3>1, <3>3, <3>4, <3>6
    <3> QED
      BY <1>1, <3>7 DEF Bus!Join
  <2> QED
    BY <2>2, <2>3
<1> QED
  BY <1>3, <1>4

\* The first waiter becomes the holder: the queue is the same.
LEMMA AwakeStutters ==
  ASSUME CallerInv, NEW t \in Task, Awake(t)
  PROVE  UNCHANGED Calls
<1>1. /\ lock = NoTask /\ lock' = t /\ waiters # <<>> /\ Head(waiters) = t
      /\ waiters' = Tail(waiters)
  BY DEF Awake
<1>2. Calls = waiters /\ Calls' = <<t>> \o Tail(waiters)
  BY <1>1, ClientAssumption DEF Calls
<1>3. /\ waiters \in Seq(Task) /\ Len(waiters) \in Nat \ {0} /\ waiters[1] = t
      /\ Tail(waiters) \in Seq(Task) /\ Len(Tail(waiters)) = Len(waiters) - 1
      /\ \A i \in 1 .. Len(Tail(waiters)) : Tail(waiters)[i] = waiters[i + 1]
  BY <1>1, EmptySeq, HeadTailProperties DEF CallerInv
<1>4. /\ <<t>> \o Tail(waiters) \in Seq(Task) /\ Len(<<t>> \o Tail(waiters)) = Len(waiters)
      /\ (<<t>> \o Tail(waiters))[1] = t
      /\ \A i \in 2 .. Len(waiters) : (<<t>> \o Tail(waiters))[i] = Tail(waiters)[i - 1]
  <2>1. /\ <<t>> \o Tail(waiters) \in Seq(Task)
        /\ Len(<<t>> \o Tail(waiters)) = Len(Tail(waiters)) + 1
        /\ (<<t>> \o Tail(waiters))[1] = t
        /\ \A i \in 2 .. Len(Tail(waiters)) + 1 :
             (<<t>> \o Tail(waiters))[i] = Tail(waiters)[i - 1]
    BY <1>3, Behind
  <2>2. Len(Tail(waiters)) + 1 = Len(waiters)
    BY <1>3
  <2> QED
    BY <2>1, <2>2
<1>5. ASSUME NEW i \in 1 .. Len(waiters)
      PROVE  waiters[i] = (<<t>> \o Tail(waiters))[i]
  <2>1. CASE i = 1
    BY <1>3, <1>4, <2>1
  <2>2. CASE i # 1
    <3>1. i \in 2 .. Len(waiters) /\ i - 1 \in 1 .. Len(Tail(waiters)) /\ (i - 1) + 1 = i
      BY <1>3, <2>2
    <3> QED
      BY <1>3, <1>4, <3>1
  <2> QED
    BY <2>1, <2>2
<1>6. waiters = <<t>> \o Tail(waiters)
  BY <1>3, <1>4, <1>5, SeqEqual
<1> QED
  BY <1>2, <1>6

\* The holder is first in the queue, and served when it lets go of the lock.
LEMMA ReleaseServes ==
  ASSUME CallerInv, NEW t \in Task, lock = t, lock' = NoTask, UNCHANGED waiters
  PROVE  Bus!Served
<1>1. waiters \in Seq(Task) /\ NoTwice(waiters) /\ \A i \in 1 .. Len(waiters) : waiters[i] # t
  BY DEF CallerInv, LockIsHeld, QueueIsOfWaiters
<1>2. Calls = <<t>> \o waiters /\ Calls' = waiters
  BY ClientAssumption DEF Calls
<1>3. Tail(Calls) = waiters
  BY <1>1, <1>2, BehindRemoved
<1>4. Calls # <<>>
  <2>1. Len(Calls) = Len(waiters) + 1 /\ Len(waiters) \in Nat
    BY <1>1, <1>2, Behind
  <2> QED
    BY <2>1
<1> QED
  BY <1>2, <1>3, <1>4 DEF Bus!Served

\* A cancelled caller leaves the queue, the holder of the lock or one that waits.
LEMMA CancelLeaves ==
  ASSUME CallerInv, NEW t \in Task, Cancel(t)
  PROVE  Bus!Leave(t)
<1>1. /\ t \in Cancellable /\ ~Idle(t)
      /\ lock' = IF lock = t THEN NoTask ELSE lock
      /\ waiters' = RemoveFirst(waiters, t)
  BY DEF Cancel
<1>2. Bus!Queued(t)
  BY <1>1, CallsHoldTheBusy
<1>3. waiters \in Seq(Task) /\ NoTwice(waiters)
  BY DEF CallerInv, QueueIsOfWaiters
<1>4. Calls' = RemoveFirst(Calls, t)
  <2>1. CASE lock = NoTask
    <3>1. Calls = waiters /\ Calls' = waiters'
      BY <1>1, <2>1 DEF Calls
    <3> QED
      BY <1>1, <3>1
  <2>2. CASE lock # NoTask
    <3>1. lock \in Task /\ Calls = <<lock>> \o waiters /\ \A i \in 1 .. Len(waiters) : waiters[i] # lock
      BY <2>2 DEF Calls, CallerInv, LockIsHeld, QueueIsOfWaiters
    <3>2. /\ RemoveFirst(<<lock>> \o waiters, lock) = waiters
          /\ t # lock => RemoveFirst(<<lock>> \o waiters, t) = <<lock>> \o RemoveFirst(waiters, t)
      <4>1. ASSUME NEW u \in Task, \A i \in 1 .. Len(waiters) : waiters[i] # u
            PROVE  /\ RemoveFirst(<<u>> \o waiters, u) = waiters
                   /\ \A e \in Task \ {u} :
                        RemoveFirst(<<u>> \o waiters, e) = <<u>> \o RemoveFirst(waiters, e)
        BY <1>3, <4>1, BehindRemoved
      <4> QED
        BY <3>1, <4>1
    <3>3. CASE lock = t
      <4>1. waiters' = waiters
        BY <1>1, <3>1, <3>3, NothingRemoved
      <4>2. Calls' = waiters
        BY <1>1, <3>3, <4>1 DEF Calls
      <4> QED
        BY <3>1, <3>2, <3>3, <4>2
    <3>4. CASE lock # t
      <4>1. Calls' = <<lock>> \o RemoveFirst(waiters, t)
        BY <1>1, <2>2, <3>4 DEF Calls
      <4> QED
        BY <3>1, <3>2, <3>4, <4>1
    <3> QED
      BY <3>3, <3>4
  <2> QED
    BY <2>1, <2>2
<1> QED
  <2>1. Bus!Without(t) = RemoveFirst(Calls, t)
    BY DEF Bus!Without, Bus!RemoveFirst, RemoveFirst, Bus!RemoveAt, RemoveAt,
           Bus!SelectInSeq, SelectInSeq, Bus!Min, Min
  <2> QED
    BY <1>1, <1>2, <1>4, <2>1 DEF Bus!Leave

\* For its callers the client is SerialBus: calls are served one at a time and in
\* the order in which they were made, whoever is cancelled (_async_pymodbus_call).
THEOREM SerialBusImplemented == Spec => ImplementsSerialBus
<1>1. Init => Bus!Init
  BY DEF Init, Bus!Init, Calls
<1>2. IInv /\ [Next]_vars => [Bus!Next]_(Bus!vars)
  <2> SUFFICES ASSUME IInv, [Next]_vars
               PROVE  [Bus!Next]_(Bus!vars)
    OBVIOUS
  <2>1. CallerInv
    BY DEF IInv
  <2>2. CASE UNCHANGED vars
    BY <2>2 DEF vars, callVars, Calls, Bus!vars
  <2>3. ASSUME NEW t \in Task, Call(t)
        PROVE  Bus!Next
    BY <2>1, <2>3, CallJoins DEF Bus!Next
  <2>4. ASSUME NEW t \in Task, Awake(t)
        PROVE  UNCHANGED Bus!vars
    BY <2>1, <2>4, AwakeStutters DEF Bus!vars
  <2>5. ASSUME NEW t \in Task, Resume(t)
        PROVE  [Bus!Next]_(Bus!vars)
    <3>1. lock = t /\ UNCHANGED waiters
      BY <2>1, <2>5 DEF Resume, CallerInv, LockIsHeld
    <3>2. CASE UNCHANGED lock
      BY <3>1, <3>2 DEF Calls, Bus!vars
    <3>3. CASE lock' = NoTask
      BY <2>1, <3>1, <3>3, ReleaseServes DEF Bus!Next
    <3> QED
      BY <2>5, <3>2, <3>3 DEF Resume
  <2>6. ASSUME NEW t \in Task, PauseOver(t)
        PROVE  Bus!Next
    BY <2>1, <2>6, ReleaseServes DEF PauseOver, CallerInv, LockIsHeld, Bus!Next
  <2>7. ASSUME NEW t \in Task, Cancel(t)
        PROVE  Bus!Next
    BY <2>1, <2>7, CancelLeaves DEF Bus!Next
  <2>8. ASSUME NEW t \in Task, Job(t)
        PROVE  UNCHANGED Bus!vars
    BY <2>8, JobLeavesCallers DEF Calls, Bus!vars
  <2> QED
    BY <2>2, <2>3, <2>4, <2>5, <2>6, <2>7, <2>8 DEF Next, Coroutine
<1> QED
  BY <1>1, <1>2, AlwaysIInv, PTL DEF Spec, ImplementsSerialBus, Bus!Spec

-------------------------------------------------------------------------------
(***************************************************************************)
(* Why calls return: who waits for whom, and what is left to do.           *)
(* CoroutineReady and JobReady are the guards of the steps under fairness, *)
(* written out: this is CallReturns but for the argument about ENABLED.    *)
(***************************************************************************)

\* A step of t's coroutine, of its executor thread: what their guards ask.
CoroutineReady(t) ==
  \/ lock = NoTask /\ waiters # <<>> /\ Head(waiters) = t
  \/ pc[t] = "calling" /\ job[t].at = "done"
  \/ pc[t] = "pausing"

JobReady(t) ==
  \/ job[t].at = "queued" \/ InTransaction(t)
  \/ job[t].at = "connected" /\ txLock = NoTask

\* Whom t waits for: itself, when it can go on.
WaitsFor(t) ==
  CASE pc[t] = "waiting" /\ lock # NoTask -> lock
    [] pc[t] = "waiting" /\ lock = NoTask -> Head(waiters)
    [] job[t].at = "connected" /\ txLock # NoTask -> txLock
    [] OTHER -> t

\* Whoever is in the client, or has left a job there, waits for one that can go
\* on, for one that waits for such a one, or for nobody: two locks, and no circle.
NoCircularWait ==
  \A t \in Task : ~Idle(t) \/ job[t] # NoJob =>
    LET last == WaitsFor(WaitsFor(t))
    IN  last \in Task /\ (CoroutineReady(last) \/ JobReady(last))

\* What is left to do for t once it has the lock, in steps of its own.
JobWork(j) ==
  CASE j.at = "queued" -> 2 * NumRetries + 4
    [] j.at = "connected" -> 2 * NumRetries + 3
    [] j.at = "sending" -> 2 * j.retries + 2
    [] j.at = "receiving" -> 2 * j.retries + 1
    [] OTHER -> 0

Work(j, p) == JobWork(j) + (CASE p = "calling" -> 2 [] p = "pausing" -> 1 [] OTHER -> 0)

\* Each step that t or its thread takes inside the lock leaves less to do, and no
\* step of anybody more, but for the one that gives the lock to it.
WorkComesToAnEnd ==
  [][\A t \in Task :
       LET before == Work(job[t], pc[t])
           after == Work(job'[t], pc'[t])
       IN  /\ Resume(t) \/ PauseOver(t) \/ Job(t) => after < before
           /\ after > before => lock = NoTask /\ lock' = t]_vars

LEMMA NobodyInACircle == IInv => NoCircularWait
<1> SUFFICES ASSUME IInv, NEW t \in Task, ~Idle(t) \/ job[t] # NoJob
             PROVE  LET last == WaitsFor(WaitsFor(t))
                    IN  last \in Task /\ (CoroutineReady(last) \/ JobReady(last))
  BY DEF NoCircularWait
<1>1. \A u \in Task : JobAt(job[u], pc[u]) /\ job[u] \in JobState
  BY DEF IInv, JobInv
<1>2. \A u \in Task : txLock = u <=> InTransaction(u)
  BY DEF IInv, JobInv
<1>3. txLock # NoTask => /\ txLock \in Task /\ InTransaction(txLock)
                         /\ WaitsFor(txLock) = txLock /\ JobReady(txLock)
  <2>1. SUFFICES ASSUME txLock # NoTask
                 PROVE  /\ txLock \in Task /\ InTransaction(txLock)
                        /\ WaitsFor(txLock) = txLock /\ JobReady(txLock)
    OBVIOUS
  <2>2. txLock \in Task /\ InTransaction(txLock)
    BY <1>2, <2>1 DEF IInv, JobInv
  <2>3. pc[txLock] # "waiting"
    BY <1>1, <2>2 DEF JobAt, InTransaction
  <2> QED
    BY <2>2, <2>3 DEF WaitsFor, JobReady, InTransaction
\* Who does not wait for the client's lock waits at most for pymodbus'.
<1>4. ASSUME NEW u \in Task, ~Idle(u) \/ job[u] # NoJob, pc[u] # "waiting"
      PROVE  \/ WaitsFor(u) = u /\ (CoroutineReady(u) \/ JobReady(u))
             \/ WaitsFor(u) = txLock /\ txLock # NoTask
  <2>1. pc[u] \in {"idle", "calling", "pausing"}
    BY <1>4 DEF IInv, CallerInv
  <2>2. job[u].at \in JobPhase
    BY <1>1 DEF JobState
  <2>3. CASE job[u].at = "connected" /\ txLock # NoTask
    BY <1>4, <2>3 DEF WaitsFor
  <2>4. CASE ~(job[u].at = "connected" /\ txLock # NoTask)
    <3>1. WaitsFor(u) = u
      BY <1>4, <2>4 DEF WaitsFor
    <3>2. pc[u] # "pausing" => job[u].at # "none"
      BY <1>1, <1>4, <2>1 DEF Idle, JobAt
    <3>3. job[u].at = "done" => pc[u] = "calling"
      BY <1>1 DEF JobAt
    <3> QED
      BY <2>2, <2>4, <3>1, <3>2, <3>3 DEF CoroutineReady, JobReady, InTransaction, JobPhase
  <2> QED
    BY <2>3, <2>4
<1>5. \A u \in Task : pc[u] = "waiting" => job[u].at # "connected"
  BY <1>1 DEF JobAt
<1>6. CASE pc[t] # "waiting"
  BY <1>3, <1>4, <1>6
<1>7. CASE pc[t] = "waiting" /\ lock # NoTask
  <2>1. WaitsFor(t) = lock
    BY <1>7, <1>5 DEF WaitsFor
  <2>2. lock \in Task /\ pc[lock] \in {"calling", "pausing"}
    BY <1>7 DEF IInv, CallerInv, LockIsHeld
  <2> QED
    BY <1>3, <1>4, <2>1, <2>2 DEF Idle
<1>8. CASE pc[t] = "waiting" /\ lock = NoTask
  <2>1. waiters \in Seq(Task) /\ \E i \in 1 .. Len(waiters) : waiters[i] = t
    BY <1>8 DEF IInv, CallerInv, QueueIsOfWaiters
  <2>2. waiters # <<>> /\ Head(waiters) = waiters[1] /\ 1 \in 1 .. Len(waiters)
    BY <2>1, EmptySeq
  <2>3. Head(waiters) \in Task /\ pc[Head(waiters)] = "waiting"
    BY <2>1, <2>2 DEF IInv, CallerInv, QueueIsOfWaiters
  <2>4. WaitsFor(t) = Head(waiters) /\ WaitsFor(Head(waiters)) = Head(waiters)
    BY <1>8, <1>5, <2>3 DEF WaitsFor
  <2> QED
    BY <1>8, <2>2, <2>3, <2>4 DEF CoroutineReady
<1> QED
  BY <1>6, <1>7, <1>8

\* With calls cancelled at any time and their jobs left to run on, the client's
\* lock and pymodbus' never make two callers wait for each other, and no wake-up
\* is lost: when nobody holds the client's lock, the first who waits may take it.
THEOREM NobodyWaitsInACircle == Spec => []NoCircularWait
  BY NobodyInACircle, AlwaysIInv, PTL

LEMMA WorkIsNatural ==
  ASSUME NEW j \in JobState, NEW p
  PROVE  JobWork(j) \in Nat /\ Work(j, p) \in Nat
<1>1. NumRetries \in Nat /\ j.retries \in Nat
  BY ClientAssumption DEF JobState
<1>2. JobWork(j) \in Nat
  BY <1>1 DEF JobWork
<1> QED
  BY <1>2 DEF Work

\* Ending a job ends its work.
LEMMA EndJobWorks ==
  ASSUME IInv, NEW t \in Task, NEW outcome, EndJob(t, outcome)
  PROVE  /\ JobWork(job'[t]) = 0
         /\ \A u \in Task \ {t} : job'[u] = job[u]
<1>1. job \in [Task -> JobState]
  BY DEF IInv, JobInv
<1>2. job'[t].at \in {"done", "none"}
  BY <1>1 DEF EndJob, NoJob, JobState
<1> QED
  BY <1>1, <1>2 DEF EndJob, JobWork

LEMMA JobWorks ==
  ASSUME IInv, NEW t \in Task, Job(t)
  PROVE  /\ Work(job'[t], pc'[t]) < Work(job[t], pc[t])
         /\ \A u \in Task \ {t} : Work(job'[u], pc'[u]) = Work(job[u], pc[u])
<1>1. pc' = pc
  BY JobLeavesCallers
<1>2. job \in [Task -> JobState] /\ job[t] \in JobState
  BY DEF IInv, JobInv
<1>3. job[t].retries \in Nat /\ NumRetries \in Nat /\ job[t].retries <= NumRetries
  BY <1>2, ClientAssumption DEF JobState
<1>4. SUFFICES /\ JobWork(job'[t]) \in Nat /\ JobWork(job'[t]) < JobWork(job[t])
               /\ \A u \in Task \ {t} : job'[u] = job[u]
  BY <1>1, <1>2, WorkIsNatural DEF Work
<1>5. ASSUME job[t].at \in {"queued", "receiving"}, \E outcome : EndJob(t, outcome)
      PROVE  /\ JobWork(job'[t]) \in Nat /\ JobWork(job'[t]) < JobWork(job[t])
             /\ \A u \in Task \ {t} : job'[u] = job[u]
  <2>1. JobWork(job'[t]) = 0 /\ \A u \in Task \ {t} : job'[u] = job[u]
    BY <1>5, EndJobWorks
  <2>2. JobWork(job[t]) \in Nat /\ JobWork(job[t]) > 0
    BY <1>3, <1>5 DEF JobWork
  <2> QED
    BY <2>1, <2>2
<1>6. CASE JobCloses(t) \/ Replied(t) \/ Garbled(t) \/ GivesUp(t)
  BY <1>5, <1>6 DEF JobCloses, Replied, Garbled, GivesUp
<1>7. CASE JobConnects(t)
  <2>1. CASE connected'
    <3>1. /\ job[t].at = "queued" /\ job'[t].at = "connected"
          /\ \A u \in Task \ {t} : job'[u] = job[u]
      BY <1>2, <1>7, <2>1 DEF JobConnects, JobState
    <3> QED
      BY <1>3, <3>1 DEF JobWork
  <2>2. CASE ~connected'
    BY <1>5, <1>7, <2>2 DEF JobConnects
  <2> QED
    BY <2>1, <2>2
<1>8. CASE TransactionBegins(t)
  <2>1. /\ job[t].at = "connected" /\ job'[t].at = "sending" /\ job'[t].retries = NumRetries
        /\ \A u \in Task \ {t} : job'[u] = job[u]
    BY <1>2, <1>8 DEF TransactionBegins, JobState
  <2> QED
    BY <1>3, <2>1 DEF JobWork
<1>9. CASE Sends(t)
  <2>1. /\ job[t].at = "sending" /\ job'[t].at = "receiving" /\ job'[t].retries = job[t].retries
        /\ \A u \in Task \ {t} : job'[u] = job[u]
    BY <1>2, <1>9 DEF Sends, JobState
  <2> QED
    BY <1>3, <2>1 DEF JobWork
<1>10. CASE Retries(t)
  <2>1. /\ job[t].at = "receiving" /\ job'[t].at \in {"sending", "receiving"}
        /\ job[t].retries > 0 /\ job'[t].retries = job[t].retries - 1
        /\ \A u \in Task \ {t} : job'[u] = job[u]
    BY <1>2, <1>10 DEF Retries, JobState
  <2> QED
    BY <1>3, <2>1 DEF JobWork
<1> QED
  BY <1>6, <1>7, <1>8, <1>9, <1>10 DEF Job

\* A coroutine works itself only on its way out of the lock.
LEMMA CoroutineWorks ==
  ASSUME IInv, NEW t \in Task, Resume(t) \/ PauseOver(t)
  PROVE  /\ Work(job'[t], pc'[t]) < Work(job[t], pc[t])
         /\ \A u \in Task \ {t} : Work(job'[u], pc'[u]) = Work(job[u], pc[u])
<1>1. job \in [Task -> JobState] /\ JobAt(job[t], pc[t]) /\ pc \in [Task -> {"idle", "waiting", "calling", "pausing"}]
  BY DEF IInv, JobInv, CallerInv
<1>2. CASE Resume(t)
  <2>1. /\ pc[t] = "calling" /\ job[t].at = "done" /\ job'[t] = NoJob
        /\ pc'[t] \in {"pausing", "idle"}
        /\ \A u \in Task \ {t} : job'[u] = job[u] /\ pc'[u] = pc[u]
    BY <1>1, <1>2 DEF Resume, EndCall, Leaves
  <2>2. JobWork(job[t]) = 0 /\ JobWork(NoJob) = 0
    BY <2>1 DEF JobWork, NoJob
  <2> QED
    BY <2>1, <2>2 DEF Work
<1>3. CASE PauseOver(t)
  <2>1. /\ pc[t] = "pausing" /\ pc'[t] = "idle" /\ job' = job
        /\ \A u \in Task \ {t} : pc'[u] = pc[u]
    BY <1>1, <1>3 DEF PauseOver, EndCall, Leaves
  <2>2. JobWork(job[t]) = 0
    BY <1>1, <2>1 DEF JobAt, JobWork
  <2> QED
    BY <2>1, <2>2 DEF Work
<1> QED
  BY <1>2, <1>3

\* Calling, and being woken, gives work to nobody but who gets the lock; being
\* cancelled takes work away.
LEMMA OthersWork ==
  ASSUME IInv, NEW t \in Task, Call(t) \/ Awake(t) \/ Cancel(t), NEW u \in Task,
         Work(job'[u], pc'[u]) > Work(job[u], pc[u])
  PROVE  lock = NoTask /\ lock' = u
<1>1. /\ job \in [Task -> JobState] /\ JobAt(job[t], pc[t])
      /\ pc \in [Task -> {"idle", "waiting", "calling", "pausing"}]
  BY DEF IInv, JobInv, CallerInv
<1>2. Work(job[u], pc[u]) \in Nat /\ JobWork(job[u]) \in Nat
  BY <1>1, WorkIsNatural
<1>3. ASSUME job'[u] = job[u] /\ pc'[u] = pc[u]
      PROVE  FALSE
  BY <1>2, <1>3
<1>4. CASE Call(t) \/ Awake(t)
  <2>1. CASE FreeToTake \/ Awake(t)
    <3>1. /\ lock = NoTask /\ lock' = t
          /\ \A s \in Task \ {t} : job'[s] = job[s] /\ pc'[s] = pc[s]
      BY <1>1, <1>4, <2>1 DEF Call, Acquire, Awake, StartJob, FreeToTake
    <3> QED
      BY <1>3, <3>1
  <2>2. CASE Call(t) /\ ~FreeToTake
    <3>1. /\ job' = job /\ pc[t] = "idle" /\ pc'[t] = "waiting"
          /\ \A s \in Task \ {t} : pc'[s] = pc[s]
      BY <1>1, <2>2 DEF Call, Acquire, Idle
    <3>2. u = t
      BY <1>3, <3>1
    <3> QED
      BY <1>2, <3>1, <3>2 DEF Work
  <2> QED
    BY <1>4, <2>1, <2>2
<1>5. CASE Cancel(t)
  <2>1. /\ pc'[t] = "idle" /\ job'[t] \in {job[t], NoJob}
        /\ \A s \in Task \ {t} : job'[s] = job[s] /\ pc'[s] = pc[s]
    BY <1>1, <1>5 DEF Cancel, EndCall, Leaves
  <2>2. u = t
    BY <1>3, <2>1
  <2>3. JobWork(NoJob) = 0
    BY DEF JobWork, NoJob
  <2>4. JobWork(job'[t]) <= JobWork(job[t])
    BY <1>2, <2>1, <2>2, <2>3
  <2> QED
    BY <1>2, <2>1, <2>2, <2>3, <2>4 DEF Work
<1> QED
  BY <1>4, <1>5

\* What a call has to do inside the lock is bounded by the retries and only ever
\* shrinks: with NobodyWaitsInACircle, and the queue of SerialBusImplemented in
\* which nobody is overtaken, this is why calls return when the fairness that
\* CallReturns asks for lets every step that is ready be taken.
THEOREM WorkEnds == Spec => WorkComesToAnEnd
<1>1. ASSUME IInv, [Next]_vars
      PROVE  [\A t \in Task :
                LET before == Work(job[t], pc[t])
                    after == Work(job'[t], pc'[t])
                IN  /\ Resume(t) \/ PauseOver(t) \/ Job(t) => after < before
                    /\ after > before => lock = NoTask /\ lock' = t]_vars
  <2> SUFFICES ASSUME Next, NEW t \in Task
               PROVE  /\ Resume(t) \/ PauseOver(t) \/ Job(t)
                           => Work(job'[t], pc'[t]) < Work(job[t], pc[t])
                      /\ Work(job'[t], pc'[t]) > Work(job[t], pc[t]) => lock = NoTask /\ lock' = t
    BY <1>1
  <2>1. \A u \in Task : job[u] \in JobState
    BY <1>1 DEF IInv, JobInv
  <2>2. Work(job[t], pc[t]) \in Nat
    BY <2>1, WorkIsNatural
  <2>3. Resume(t) \/ PauseOver(t) \/ Job(t) => Work(job'[t], pc'[t]) < Work(job[t], pc[t])
    BY <1>1, JobWorks, CoroutineWorks
  <2>4. ASSUME NEW u \in Task, Resume(u) \/ PauseOver(u) \/ Job(u),
               Work(job'[t], pc'[t]) > Work(job[t], pc[t])
        PROVE  FALSE
    <3>1. job'[t] \in JobState
      <4>1. IInv'
        BY <1>1, NextInv
      <4> QED
        BY <4>1 DEF IInv, JobInv
    <3>2. Work(job'[t], pc'[t]) \in Nat
      BY <3>1, WorkIsNatural
    <3>3. Work(job'[t], pc'[t]) <= Work(job[t], pc[t])
      BY <1>1, <2>2, <3>2, <2>4, JobWorks, CoroutineWorks
    <3> QED
      BY <2>2, <2>4, <3>2, <3>3
  <2>5. ASSUME Work(job'[t], pc'[t]) > Work(job[t], pc[t])
        PROVE  lock = NoTask /\ lock' = t
    <3>1. PICK u \in Task : Call(u) \/ Coroutine(u) \/ Cancel(u) \/ Job(u)
      BY DEF Next
    <3>2. Call(u) \/ Awake(u) \/ Cancel(u)
      BY <2>4, <2>5, <3>1 DEF Coroutine
    <3> QED
      BY <1>1, <2>5, <3>2, OthersWork
  <2> QED
    BY <2>3, <2>5
<1> QED
  BY <1>1, AlwaysIInv, PTL DEF Spec, WorkComesToAnEnd
===============================================================================
