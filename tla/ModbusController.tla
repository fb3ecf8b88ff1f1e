--------------------------- MODULE ModbusController ---------------------------
(***************************************************************************)
(* ModbusController: the cache of register values that the entities of an  *)
(* inverter read, the timer-driven refresh that fills it, the writes that  *)
(* go past it to the inverter, and the connection state.                   *)
(*                                                                         *)
(* Every coroutine runs on one event loop, so what happens between two     *)
(* awaits is one step here.  A call of the ModbusClient is two steps: the  *)
(* coroutine joins the client's queue `bus` (SerialBus says what the       *)
(* client promises of it), and when it reaches the head the inverter       *)
(* answers and the coroutine runs on to its next await.                    *)
(***************************************************************************)
EXTENDS Integers, Sequences, FiniteSets

CONSTANTS
  Address,               \* register addresses
  Value,                 \* contents of a register
  None,                  \* Python's None
  Entity,                \* the entities that may be added to Home Assistant
  EntityAddresses,       \* entity -> the addresses it listens on
  OnConnection,          \* addresses whose poll type is ON_CONNECTION
  Setting,               \* addresses which only writes change
  WriteBlock,            \* the sets of addresses a caller writes at once
  Refresher,             \* coroutines running _refresh
  Writer,                \* coroutines running write_registers
  NumFailedPolls,        \* _NUM_FAILED_POLLS_FOR_DISCONNECTION
  WriteConfirmAttempts,  \* _WRITE_CONFIRM_ATTEMPTS
  RemoteControl,         \* the inverter has a remote control manager
  ReadPlan(_)            \* the reads, in order, that cover a set of addresses

ASSUME ConstantsAssumption ==
  /\ Address \subseteq Int
  /\ None \notin Value
  /\ EntityAddresses \in [Entity -> SUBSET Address]
  /\ OnConnection \subseteq Address
  /\ Setting \subseteq Address
  /\ WriteBlock \subseteq SUBSET Setting
  /\ Refresher \cap Writer = {}
  /\ NumFailedPolls \in Nat \ {0}
  /\ WriteConfirmAttempts \in Nat \ {0}
  /\ RemoteControl \in BOOLEAN

ASSUME ReadPlanAssumption ==
  \A S \in SUBSET Address : ReadPlan(S) \in Seq(SUBSET Address)

\* What the theorem ListIsReadPlan says of the requests of _create_read_ranges.
ASSUME ReadPlanCovers ==
  \A S \in SUBSET Address : \A a \in S :
    \E i \in DOMAIN ReadPlan(S) : a \in ReadPlan(S)[i]

ASSUME ReadPlanIsFinite ==
  \A S \in SUBSET Address : \A i \in DOMAIN ReadPlan(S) : IsFiniteSet(ReadPlan(S)[i])

VARIABLES
  \* The inverter and the adapter in front of it
  device,        \* what each register holds
  illegal,       \* the registers it answers IllegalAddress for
  link,          \* "up", or "down" when no request gets an answer
  bus,           \* the coroutines queueing for the ModbusClient, in order
  \* ModbusController
  data,          \* _data: the entry of each watched address
  listeners,     \* _update_listeners
  detected,      \* _detected_invalid_ranges
  connection,    \* _connection_state
  failed,        \* _num_failed_poll_attempts
  error,         \* _current_connection_error is set and its issue is raised
  invalidIssue,  \* the invalid_ranges issue is raised
  refreshLock,   \* _refresh_lock is held
  shown,         \* the availability each entity last wrote to Home Assistant
  \* The locals of _refresh and _read_all_registers
  rpc,           \* where the coroutine is
  plan,          \* the reads it still has to make
  singles,       \* the registers of a refused read it now tries one by one
  got,           \* what it has read so far
  \* The locals of write_registers and _confirm_write_succeeded
  wpc,           \* where the coroutine is
  want,          \* the values it writes, None where it writes nothing
  attempts,      \* the read-backs it has made
  \* History
  stale,         \* addresses the last successful poll left at an older value
  unrecorded     \* addresses the inverter took from a write not (yet) recorded

deviceVars == <<device, illegal, link>>
connectionVars == <<connection, failed, error, shown>>
refreshVars == <<refreshLock, rpc, plan, singles, got>>
writeVars == <<wpc, want, attempts, unrecorded>>

vars == <<deviceVars, bus, data, listeners, detected, connectionVars,
          invalidIssue, refreshVars, writeVars, stale>>

-------------------------------------------------------------------------------

Absent == [read |-> None, written |-> None, watched |-> FALSE]

\* written is the written value while its _INVERTER_WRITE_DELAY_SECS last.
Entry == [read : Value \cup {None}, written : Value \cup {None}, watched : BOOLEAN]

Watched == {a \in Address : data[a].watched}

read(a) == IF data[a].written # None THEN data[a].written ELSE data[a].read

is_connected == connection \in {"INITIAL", "CONNECTED"}

NotRead == [read |-> FALSE, value |-> None]

ReadResult == [read : BOOLEAN, value : Value \cup {None}]

NothingRead == [a \in Address |-> NotRead]

NothingWritten == [a \in Address |-> None]

Task == Refresher \cup Writer

Init ==
  /\ device \in [Address -> Value]
  /\ illegal \in SUBSET Address
  /\ link = "up"
  /\ bus = <<>>
  /\ data = [a \in Address |-> Absent]
  /\ listeners = {}
  /\ detected = {}
  /\ connection = "INITIAL"
  /\ failed = 0
  /\ error = FALSE
  /\ invalidIssue = FALSE
  /\ refreshLock = FALSE
  /\ shown = [e \in Entity |-> FALSE]
  /\ rpc = [r \in Refresher |-> "idle"]
  /\ plan = [r \in Refresher |-> <<>>]
  /\ singles = [r \in Refresher |-> {}]
  /\ got = [r \in Refresher |-> NothingRead]
  /\ wpc = [w \in Writer |-> "idle"]
  /\ want = [w \in Writer |-> NothingWritten]
  /\ attempts = [w \in Writer |-> 0]
  /\ stale = {}
  /\ unrecorded = {}

-------------------------------------------------------------------------------
(***************************************************************************)
(* Entities come and go.                                                   *)
(***************************************************************************)

\* A new entity shows the availability it finds when it is added.
register_modbus_entity(e) ==
  /\ e \notin listeners
  /\ listeners' = listeners \cup {e}
  /\ data' = [a \in Address |->
                IF a \in EntityAddresses[e] /\ ~data[a].watched
                THEN [Absent EXCEPT !.watched = TRUE] ELSE data[a]]
  /\ shown' = [shown EXCEPT ![e] = is_connected]
  /\ UNCHANGED <<deviceVars, bus, detected, connection, failed, error,
                 invalidIssue, refreshVars, writeVars, stale>>

\* The addresses nobody listens on once e is gone.
UnusedWithout(e) ==
  EntityAddresses[e] \ UNION {EntityAddresses[f] : f \in listeners \ {e}}

remove_modbus_entity(e) ==
  /\ e \in listeners
  /\ listeners' = listeners \ {e}
  /\ data' = [a \in Address |-> IF a \in UnusedWithout(e) THEN Absent ELSE data[a]]
  /\ shown' = [shown EXCEPT ![e] = FALSE]
  /\ stale' = stale \ UnusedWithout(e)
  /\ UNCHANGED <<deviceVars, bus, detected, connection, failed, error,
                 invalidIssue, refreshVars, writeVars>>

-------------------------------------------------------------------------------
(***************************************************************************)
(* _refresh, started by the timer.                                         *)
(***************************************************************************)

NotifiesNobody(available) == UNCHANGED shown   \* mutant: the callback is missing

\* Every listener writes its state again.
_notify_is_connected_changed(available) ==
  shown' = [e \in Entity |-> IF e \in listeners THEN available ELSE shown[e]]

LeaveRefreshReconnected(r, found) ==   \* mutant: only reports on a reconnection
  /\ refreshLock' = FALSE
  /\ invalidIssue' = (invalidIssue \/ (found # {} /\ connection = "DISCONNECTED"))
  /\ rpc' = [rpc EXCEPT ![r] = IF RemoteControl THEN "poll_complete" ELSE "idle"]

\* The end of the locked part of a refresh, once detected registers are in
\* found, and the await of poll_complete_callback behind it.
LeaveRefresh(r, found) ==
  /\ refreshLock' = FALSE
  /\ invalidIssue' = (invalidIssue \/ found # {})
  /\ rpc' = [rpc EXCEPT ![r] = IF RemoteControl THEN "poll_complete" ELSE "idle"]

ForgetReads(r) ==
  /\ plan' = [plan EXCEPT ![r] = <<>>]
  /\ singles' = [singles EXCEPT ![r] = {}]
  /\ got' = [got EXCEPT ![r] = NothingRead]

\* All reads succeeded: only now are they recorded.
PollSucceeded(r, reads, found) ==
  /\ data' = [a \in Address |->
                IF data[a].watched /\ reads[a].read
                THEN [data[a] EXCEPT !.read = reads[a].value] ELSE data[a]]
  /\ stale' = {a \in Watched : data[a].read # None /\ ~reads[a].read}
  /\ failed' = 0
  /\ connection' = "CONNECTED"
  /\ IF connection = "DISCONNECTED"
     THEN /\ error' = FALSE
          /\ _notify_is_connected_changed(TRUE)
     ELSE UNCHANGED <<error, shown>>
  /\ IF connection = "DISCONNECTED" /\ RemoteControl
     THEN /\ rpc' = [rpc EXCEPT ![r] = "became_connected"]
          /\ refreshLock' = TRUE
          /\ UNCHANGED invalidIssue
     ELSE LeaveRefresh(r, found)
  /\ ForgetReads(r)

PollFailedCounts(r) ==   \* mutant: goes on counting while disconnected
  /\ failed' = failed + 1
  /\ IF failed + 1 >= NumFailedPolls
     THEN /\ connection' = "DISCONNECTED"
          /\ error' = TRUE
          /\ _notify_is_connected_changed(FALSE)
     ELSE UNCHANGED <<connection, error, shown>>
  /\ LeaveRefresh(r, detected)
  /\ ForgetReads(r)
  /\ UNCHANGED <<data, stale>>

PollFailedTooOften(r) ==   \* mutant: off by one in the failures allowed
  /\ IF connection = "DISCONNECTED"
     THEN UNCHANGED connectionVars
     ELSE /\ failed' = failed + 1
          /\ IF failed >= NumFailedPolls
             THEN /\ connection' = "DISCONNECTED"
                  /\ error' = TRUE
                  /\ _notify_is_connected_changed(FALSE)
             ELSE UNCHANGED <<connection, error, shown>>
  /\ LeaveRefresh(r, detected)
  /\ ForgetReads(r)
  /\ UNCHANGED <<data, stale>>

PollFailed(r) ==
  /\ IF connection = "DISCONNECTED"
     THEN UNCHANGED connectionVars
     ELSE /\ failed' = failed + 1
          /\ IF failed + 1 >= NumFailedPolls
             THEN /\ connection' = "DISCONNECTED"
                  /\ error' = TRUE
                  /\ _notify_is_connected_changed(FALSE)
             ELSE UNCHANGED <<connection, error, shown>>
  /\ LeaveRefresh(r, detected)
  /\ ForgetReads(r)
  /\ UNCHANGED <<data, stale>>

PollsWhenConnecting ==   \* mutant: every poll type is treated as ON_CONNECTION
  {a \in Watched : connection # "CONNECTED" /\ a \notin detected}

PollsOnFirstConnection ==   \* mutant: forgets to read them after a reconnection
  {a \in Watched : /\ a \in OnConnection => connection = "INITIAL"
                   /\ a \notin detected}

\* What the poll asks for.  A register found to be invalid is not asked for
\* again, and an ON_CONNECTION one only while not connected.
PollSet ==
  {a \in Watched : /\ a \in OnConnection => connection # "CONNECTED"
                   /\ a \notin detected}

AlwaysAcquired == TRUE   \* mutant: does not look at the refresh lock

AcquiredIfConnected == ~refreshLock /\ is_connected   \* mutant: stops polling

_acquire_nonblocking == ~refreshLock

\* The timer fires while no refresh is under way.
StartRefresh(r) ==
  LET reads == ReadPlan(PollSet) IN
    /\ rpc[r] = "idle"
    /\ _acquire_nonblocking
    /\ IF reads = <<>>
       THEN /\ PollSucceeded(r, NothingRead, detected)
            /\ UNCHANGED bus
       ELSE /\ refreshLock' = TRUE
            /\ rpc' = [rpc EXCEPT ![r] = "reading"]
            /\ plan' = [plan EXCEPT ![r] = reads]
            /\ bus' = Append(bus, r)
            /\ UNCHANGED <<data, stale, connectionVars, invalidIssue, singles, got>>
    /\ UNCHANGED <<deviceVars, listeners, detected, writeVars>>

\* The timer fires while a slow refresh still holds the lock: give up.
AbortRefresh(r) ==
  /\ rpc[r] = "idle"
  /\ ~_acquire_nonblocking
  /\ UNCHANGED vars

\* t's request is the next one the client makes.
AtHead(t) == bus # <<>> /\ Head(bus) = t

\* The request the coroutine waits for: a read of the plan, or a single register.
Request(r) ==
  IF singles[r] = {} THEN Head(plan[r])
  ELSE {a \in singles[r] : \A b \in singles[r] : a <= b}

\* The read is dealt with, result is what is known now.  Go on to the next
\* read, or end the poll.
ReadDone(r, result) ==
  LET remaining == IF singles[r] = {} THEN Tail(plan[r]) ELSE plan[r]
      left == singles[r] \ Request(r)
  IN  IF remaining = <<>> /\ left = {}
      THEN /\ PollSucceeded(r, result, detected')
           /\ bus' = Tail(bus)
      ELSE /\ plan' = [plan EXCEPT ![r] = remaining]
           /\ singles' = [singles EXCEPT ![r] = left]
           /\ got' = [got EXCEPT ![r] = result]
           /\ bus' = Append(Tail(bus), r)
           /\ UNCHANGED <<data, stale, connectionVars, invalidIssue, refreshLock, rpc>>

ReadAnswered(r) ==
  /\ rpc[r] = "reading" /\ AtHead(r)
  /\ link = "up"
  /\ Request(r) \cap illegal = {}
  /\ UNCHANGED detected
  /\ ReadDone(r, [a \in Address |->
                    IF a \in Request(r) THEN [read |-> TRUE, value |-> device[a]]
                    ELSE got[r][a]])
  /\ UNCHANGED <<deviceVars, listeners, writeVars>>

\* IllegalAddress for a read of the plan: try each of its registers by itself.
ReadRefused(r) ==
  /\ rpc[r] = "reading" /\ AtHead(r)
  /\ link = "up"
  /\ singles[r] = {}
  /\ Request(r) \cap illegal # {}
  /\ singles' = [singles EXCEPT ![r] = Request(r)]
  /\ plan' = [plan EXCEPT ![r] = Tail(@)]
  /\ bus' = Append(Tail(bus), r)
  /\ UNCHANGED <<deviceVars, data, listeners, detected, connectionVars,
                 invalidIssue, refreshLock, rpc, got, writeVars, stale>>

\* IllegalAddress for a single register: it is invalid, record None for it.
RegisterInvalid(r) ==
  /\ rpc[r] = "reading" /\ AtHead(r)
  /\ link = "up"
  /\ singles[r] # {}
  /\ Request(r) \cap illegal # {}
  /\ detected' = detected \cup Request(r)
  /\ ReadDone(r, [a \in Address |->
                    IF a \in Request(r) THEN [read |-> TRUE, value |-> None]
                    ELSE got[r][a]])
  /\ UNCHANGED <<deviceVars, listeners, writeVars>>

\* Any other failure of a read ends the poll, and nothing of it is recorded.
ReadFailed(r) ==
  /\ rpc[r] = "reading" /\ AtHead(r)
  /\ link = "down"
  /\ bus' = Tail(bus)
  /\ PollFailed(r)
  /\ UNCHANGED <<deviceVars, listeners, detected, writeVars>>

\* became_connected_callback returns, still under the refresh lock.
BecameConnected(r) ==
  /\ rpc[r] = "became_connected"
  /\ LeaveRefresh(r, detected)
  /\ UNCHANGED <<deviceVars, bus, data, listeners, detected, connectionVars,
                 plan, singles, got, writeVars, stale>>

RaisesLocked(r) ==   \* mutant: releases the refresh lock without a finally
  /\ rpc[r] = "became_connected"
  /\ rpc' = [rpc EXCEPT ![r] = "idle"]
  /\ UNCHANGED <<deviceVars, bus, data, listeners, detected, connectionVars, refreshLock,
                 invalidIssue, plan, singles, got, writeVars, stale>>

\* became_connected_callback raises, and the refresh with it.
BecameConnectedRaises(r) ==
  /\ rpc[r] = "became_connected"
  /\ refreshLock' = FALSE
  /\ rpc' = [rpc EXCEPT ![r] = "idle"]
  /\ UNCHANGED <<deviceVars, bus, data, listeners, detected, connectionVars,
                 invalidIssue, plan, singles, got, writeVars, stale>>

\* poll_complete_callback returns or raises; the lock is free meanwhile.
PollComplete(r) ==
  /\ rpc[r] = "poll_complete"
  /\ rpc' = [rpc EXCEPT ![r] = "idle"]
  /\ UNCHANGED <<deviceVars, bus, data, listeners, detected, connectionVars,
                 invalidIssue, refreshLock, plan, singles, got, writeVars, stale>>

-------------------------------------------------------------------------------
(***************************************************************************)
(* write_registers.                                                        *)
(***************************************************************************)

Target(w) == {a \in Address : want[w][a] # None}

StartWrite(w) ==
  /\ wpc[w] = "idle"
  /\ \E block \in WriteBlock : \E values \in [block -> Value] :
       want' = [want EXCEPT ![w] = [a \in Address |->
                                      IF a \in block THEN values[a] ELSE None]]
  /\ wpc' = [wpc EXCEPT ![w] = "writing"]
  /\ bus' = Append(bus, w)
  /\ UNCHANGED <<deviceVars, data, listeners, detected, connectionVars,
                 invalidIssue, refreshVars, attempts, stale, unrecorded>>

_record_write_success(w) ==
  data' = [a \in Address |->
             IF data[a].watched /\ a \in Target(w)
             THEN [data[a] EXCEPT !.written = want[w][a]] ELSE data[a]]

\* The coroutine returns or raises.
EndWrite(w) ==
  /\ wpc' = [wpc EXCEPT ![w] = "idle"]
  /\ want' = [want EXCEPT ![w] = NothingWritten]
  /\ attempts' = [attempts EXCEPT ![w] = 0]

Applied(w) == [a \in Address |-> IF a \in Target(w) THEN want[w][a] ELSE device[a]]

\* The inverter can take the write: otherwise the request changes nothing.
CanApply(w) == link = "up" /\ Target(w) \cap illegal = {}

\* The inverter takes the write, but nobody learns of it.
Taken(w) ==
  /\ CanApply(w)
  /\ device' = Applied(w)
  /\ unrecorded' = unrecorded \cup Target(w)

WriteAnswered(w) ==
  /\ wpc[w] = "writing" /\ AtHead(w)
  /\ CanApply(w)
  /\ device' = Applied(w)
  /\ unrecorded' = unrecorded \ Target(w)
  /\ _record_write_success(w)
  /\ EndWrite(w)
  /\ bus' = Tail(bus)
  /\ UNCHANGED <<illegal, link, listeners, detected, connectionVars,
                 invalidIssue, refreshVars, stale>>

\* No response: the request or the reply was lost.  Read the registers back.
WriteUnanswered(w) ==
  /\ wpc[w] = "writing" /\ AtHead(w)
  /\ Taken(w) \/ UNCHANGED <<device, unrecorded>>
  /\ wpc' = [wpc EXCEPT ![w] = "confirming"]
  /\ bus' = Append(Tail(bus), w)
  /\ UNCHANGED <<illegal, link, data, listeners, detected, connectionVars,
                 invalidIssue, refreshVars, want, attempts, stale>>

\* Any other failure is raised, whether or not the inverter took the write.
WriteFailed(w) ==
  /\ wpc[w] = "writing" /\ AtHead(w)
  /\ Taken(w) \/ UNCHANGED <<device, unrecorded>>
  /\ EndWrite(w)
  /\ bus' = Tail(bus)
  /\ UNCHANGED <<illegal, link, data, listeners, detected, connectionVars,
                 invalidIssue, refreshVars, stale>>

AnyReadBack(w) == CanApply(w)   \* mutant: does not compare what it read back

\* The read-back returned just what was written.
ReadBackMatches(w) ==
  /\ CanApply(w)
  /\ \A a \in Target(w) : device[a] = want[w][a]

WriteConfirmed(w) ==
  /\ wpc[w] = "confirming" /\ AtHead(w)
  /\ ReadBackMatches(w)
  /\ unrecorded' = unrecorded \ Target(w)
  /\ _record_write_success(w)
  /\ EndWrite(w)
  /\ bus' = Tail(bus)
  /\ UNCHANGED <<deviceVars, listeners, detected, connectionVars, invalidIssue,
                 refreshVars, stale>>

RetriesReadBack(w) ==   \* mutant: does not count its attempts
  /\ wpc[w] = "confirming" /\ AtHead(w)
  /\ ~ReadBackMatches(w)
  /\ wpc' = [wpc EXCEPT ![w] = "sleeping"]
  /\ bus' = Tail(bus)
  /\ UNCHANGED <<deviceVars, data, listeners, detected, connectionVars,
                 invalidIssue, refreshVars, want, attempts, stale, unrecorded>>

\* It failed or returned something else: sleep and try again, or raise.
ReadBackDiffers(w) ==
  /\ wpc[w] = "confirming" /\ AtHead(w)
  /\ ~ReadBackMatches(w)
  /\ IF attempts[w] + 1 < WriteConfirmAttempts
     THEN /\ wpc' = [wpc EXCEPT ![w] = "sleeping"]
          /\ attempts' = [attempts EXCEPT ![w] = @ + 1]
          /\ UNCHANGED want
     ELSE EndWrite(w)
  /\ bus' = Tail(bus)
  /\ UNCHANGED <<deviceVars, data, listeners, detected, connectionVars,
                 invalidIssue, refreshVars, stale, unrecorded>>

\* The read-back could not even connect: ConnectionException is not caught.
ReadBackRaises(w) ==
  /\ wpc[w] = "confirming" /\ AtHead(w)
  /\ link = "down"
  /\ EndWrite(w)
  /\ bus' = Tail(bus)
  /\ UNCHANGED <<deviceVars, data, listeners, detected, connectionVars,
                 invalidIssue, refreshVars, stale, unrecorded>>

ConfirmAgain(w) ==
  /\ wpc[w] = "sleeping"
  /\ wpc' = [wpc EXCEPT ![w] = "confirming"]
  /\ bus' = Append(bus, w)
  /\ UNCHANGED <<deviceVars, data, listeners, detected, connectionVars,
                 invalidIssue, refreshVars, want, attempts, stale, unrecorded>>

-------------------------------------------------------------------------------
(***************************************************************************)
(* Time and the inverter.                                                  *)
(***************************************************************************)

UntilReadBack(a) ==   \* mutant: shows the written value until a poll reads it
  /\ data[a].written # None
  /\ data[a].read = data[a].written
  /\ data' = [data EXCEPT ![a].written = None]
  /\ UNCHANGED <<deviceVars, bus, listeners, detected, connectionVars,
                 invalidIssue, refreshVars, writeVars, stale>>

\* _INVERTER_WRITE_DELAY_SECS have passed since a was written.
WriteDelayOver(a) ==
  /\ data[a].written # None
  /\ data' = [data EXCEPT ![a].written = None]
  /\ UNCHANGED <<deviceVars, bus, listeners, detected, connectionVars,
                 invalidIssue, refreshVars, writeVars, stale>>

\* The inverter updates a measurement.
InverterChanges(a) ==
  /\ a \notin Setting
  /\ \E v \in Value \ {device[a]} : device' = [device EXCEPT ![a] = v]
  /\ UNCHANGED <<illegal, link, bus, data, listeners, detected, connectionVars,
                 invalidIssue, refreshVars, writeVars, stale>>

LinkChanges ==
  /\ link' = IF link = "up" THEN "down" ELSE "up"
  /\ UNCHANGED <<device, illegal, bus, data, listeners, detected,
                 connectionVars, invalidIssue, refreshVars, writeVars, stale>>

-------------------------------------------------------------------------------

ReadServed(r) ==
  ReadAnswered(r) \/ ReadRefused(r) \/ RegisterInvalid(r) \/ ReadFailed(r)

WriteServed(w) ==
  \/ WriteAnswered(w) \/ WriteUnanswered(w) \/ WriteFailed(w)
  \/ WriteConfirmed(w) \/ ReadBackDiffers(w) \/ ReadBackRaises(w)

Refresh(r) ==
  \/ StartRefresh(r) \/ AbortRefresh(r) \/ ReadServed(r)
  \/ BecameConnected(r) \/ BecameConnectedRaises(r) \/ PollComplete(r)

Write(w) == StartWrite(w) \/ WriteServed(w) \/ ConfirmAgain(w)

Environment ==
  \/ \E a \in Address : WriteDelayOver(a) \/ InverterChanges(a)
  \/ LinkChanges

Next ==
  \/ \E e \in Entity : register_modbus_entity(e) \/ remove_modbus_entity(e)
  \/ \E r \in Refresher : Refresh(r)
  \/ \E w \in Writer : Write(w)
  \/ Environment

Spec == Init /\ [][Next]_vars

(***************************************************************************)
(* The timer keeps firing, a request to the inverter ends (pymodbus times  *)
(* out), the callbacks return, time passes.  Nobody has to write, to add   *)
(* or remove an entity, and neither link nor inverter has to change.       *)
(***************************************************************************)
Fairness ==
  /\ WF_vars(\E r \in Refresher : StartRefresh(r))
  /\ \A r \in Refresher :
       /\ WF_vars(ReadServed(r))
       /\ WF_vars(BecameConnected(r) \/ BecameConnectedRaises(r))
       /\ WF_vars(PollComplete(r))
  /\ \A w \in Writer : WF_vars(WriteServed(w)) /\ WF_vars(ConfirmAgain(w))
  /\ \A a \in Address : WF_vars(WriteDelayOver(a))

FairSpec == Spec /\ Fairness

-------------------------------------------------------------------------------
(***************************************************************************)
(* Properties.                                                             *)
(***************************************************************************)

LockedPhases == {"reading", "became_connected"}

TypeOK ==
  /\ device \in [Address -> Value]
  /\ illegal \subseteq Address
  /\ link \in {"up", "down"}
  /\ bus \in Seq(Task)
  /\ data \in [Address -> Entry]
  /\ listeners \subseteq Entity
  /\ detected \subseteq Address
  /\ connection \in {"INITIAL", "DISCONNECTED", "CONNECTED"}
  /\ failed \in 0 .. NumFailedPolls
  /\ error \in BOOLEAN
  /\ invalidIssue \in BOOLEAN
  /\ refreshLock \in BOOLEAN
  /\ shown \in [Entity -> BOOLEAN]
  /\ rpc \in [Refresher -> LockedPhases \cup {"idle", "poll_complete"}]
  /\ plan \in [Refresher -> Seq(SUBSET Address)]
  /\ singles \in [Refresher -> SUBSET Address]
  /\ got \in [Refresher -> [Address -> ReadResult]]
  /\ wpc \in [Writer -> {"idle", "writing", "confirming", "sleeping"}]
  /\ want \in [Writer -> [Address -> Value \cup {None}]]
  /\ attempts \in [Writer -> 0 .. WriteConfirmAttempts]
  /\ stale \subseteq Address
  /\ unrecorded \subseteq Address

\* Two refreshes are never under way at once, and a refresh that raises or
\* ends gives the lock back: it is held exactly while one is in its locked part
\* ("Make sure that we don't do two refreshes at the same time").
OneRefreshAtATime ==
  /\ \A r, s \in Refresher :
       rpc[r] \in LockedPhases /\ rpc[s] \in LockedPhases => r = s
  /\ refreshLock <=> \E r \in Refresher : rpc[r] \in LockedPhases

\* The message, the issue and what every entity shows agree with the state:
\* the user sees "unavailable" and the connection_error issue exactly while the
\* controller is DISCONNECTED, whenever an entity was added or removed.
AvailabilityIsShown ==
  /\ error <=> connection = "DISCONNECTED"
  /\ \A e \in listeners : shown[e] <=> is_connected

\* A successful poll leaves no watched register behind: the values in _data are
\* of one poll ("ensuring that we don't record potentially inconsistent data"),
\* but for those which are only read on connection.
NoRegisterLeftBehind == stale \subseteq OnConnection

\* What the refresh and the entities know of an address stays in step: only an
\* address of a listener has an entry, and every one of them has.
WatchedByListeners ==
  Watched = UNION {EntityAddresses[e] : e \in listeners}

\* A coroutine waits for the client at most once, and exactly while it is at a
\* read or a write: no reply is ever taken by the wrong coroutine.
WaitsAreQueued ==
  /\ \A i, j \in DOMAIN bus : bus[i] = bus[j] => i = j
  /\ \A t \in Task :
       (\E i \in DOMAIN bus : bus[i] = t) <=>
         \/ t \in Refresher /\ rpc[t] = "reading"
         \/ t \in Writer /\ wpc[t] \in {"writing", "confirming"}

\* The written value that entities show in place of the one last read is what
\* the inverter holds, unless a later write was taken by the inverter and failed
\* or got no reply: no write is recorded over a newer one, nor is one that the
\* inverter never took (_confirm_write_succeeded, _record_write_success).
ShownWritesHold ==
  \A a \in Address :
    data[a].written \notin {None, device[a]} => a \in unrecorded

\* Becoming connected, for the first time or again, refreshes every watched
\* register, those which are only read on connection included.
ConnectingReadsAll ==
  [][connection # "CONNECTED" /\ connection' = "CONNECTED" => stale' = {}]_vars

\* A register which was found invalid is not asked for again by a later poll:
\* "Have we found that we can't read this register? Don't try again."
InvalidNotReadAgain ==
  [][\A r \in Refresher : rpc[r] = "idle" /\ rpc'[r] = "reading" =>
       \A i \in DOMAIN plan'[r] : plan'[r][i] \cap detected = {}]_vars

\* is_connected is what Availability says.
ConnectionStreak == IF connection = "DISCONNECTED" THEN 0 ELSE failed

ConnectionAvailability ==
  INSTANCE Availability WITH available <- is_connected, streak <- ConnectionStreak

ImplementsAvailability == ConnectionAvailability!Spec

\* With the link up for good, the controller ends up connected for good.
RecoversWithLink == <>[](link = "up") => <>[](connection = "CONNECTED")

\* With the link down for good and something to poll, it ends up disconnected.
NoticesLostLink ==
  <>[](link = "down" /\ PollSet # {}) => <>[](connection = "DISCONNECTED")

\* Every refresh and every write returns, however the inverter behaves.
CallsReturn ==
  /\ \A r \in Refresher : rpc[r] # "idle" ~> rpc[r] = "idle"
  /\ \A w \in Writer : wpc[w] # "idle" ~> wpc[w] = "idle"

\* A register found to be invalid is reported, even when the refresh that found
\* it is cut short by a failing callback.
InvalidIsReported == detected # {} ~> invalidIssue

\* Once nobody writes a periodically read setting any more and the link stays
\* up, an entity that keeps watching it reads what the inverter holds, whatever
\* polls and unanswered writes came before.
SettingConverges ==
  \A a \in Setting \ OnConnection :
    <>[](link = "up" /\ data[a].watched /\ \A w \in Writer : wpc[w] = "idle")
      => <>[](data[a].watched /\ a \notin illegal => read(a) = device[a])
===============================================================================
