------------------------ MODULE ModbusControllerProofs ------------------------
(***************************************************************************)
(* Theorems about ModbusController, for any register map, any entities and *)
(* any number of coroutines.                                               *)
(***************************************************************************)
EXTENDS ModbusController, FiniteSetTheorems, WellFoundedInduction, TLAPS

-------------------------------------------------------------------------------
(***************************************************************************)
(* Types.  They rest on two facts more: a refresh that is reading has      *)
(* something left to read, and failed polls are only counted up to the one *)
(* that disconnects.                                                       *)
(***************************************************************************)

HasRequest ==
  \A r \in Refresher : rpc[r] = "reading" => singles[r] # {} \/ plan[r] # <<>>

FailuresLeft == connection # "DISCONNECTED" => failed < NumFailedPolls

TypeInv == TypeOK /\ HasRequest /\ FailuresLeft

\* What the end of a poll changes.
PollType ==
  /\ data \in [Address -> Entry]
  /\ connection \in {"INITIAL", "DISCONNECTED", "CONNECTED"}
  /\ failed \in 0 .. NumFailedPolls
  /\ error \in BOOLEAN
  /\ invalidIssue \in BOOLEAN
  /\ refreshLock \in BOOLEAN
  /\ shown \in [Entity -> BOOLEAN]
  /\ rpc \in [Refresher -> LockedPhases \cup {"idle", "poll_complete"}]
  /\ plan \in [Refresher -> Seq(SUBSET Address)]
  /\ singles \in [Refresher -> SUBSET Address]
  /\ got \in [Refresher -> [Address -> ReadResult]]
  /\ stale \subseteq Address
  /\ HasRequest
  /\ FailuresLeft

\* What only writes and the inverter change.
RestType ==
  /\ device \in [Address -> Value]
  /\ illegal \subseteq Address
  /\ link \in {"up", "down"}
  /\ bus \in Seq(Task)
  /\ listeners \subseteq Entity
  /\ detected \subseteq Address
  /\ wpc \in [Writer -> {"idle", "writing", "confirming", "sleeping"}]
  /\ want \in [Writer -> [Address -> Value \cup {None}]]
  /\ attempts \in [Writer -> 0 .. WriteConfirmAttempts]
  /\ unrecorded \subseteq Address

LEMMA TypeInvParts == TypeInv <=> PollType /\ RestType
  BY DEF TypeInv, TypeOK, PollType, RestType

\* The locals of a refresh that forgets its reads.
LEMMA ForgetReadsType ==
  ASSUME PollType, NEW r \in Refresher, ForgetReads(r)
  PROVE  /\ plan' \in [Refresher -> Seq(SUBSET Address)]
         /\ singles' \in [Refresher -> SUBSET Address]
         /\ got' \in [Refresher -> [Address -> ReadResult]]
         /\ \A s \in Refresher \ {r} : plan'[s] = plan[s] /\ singles'[s] = singles[s]
<1>1. NothingRead \in [Address -> ReadResult]
  BY DEF NothingRead, NotRead, ReadResult
<1>2. <<>> \in Seq(SUBSET Address)
  OBVIOUS
<1> QED
  BY <1>1, <1>2 DEF ForgetReads, PollType

LEMMA LeaveRefreshType ==
  ASSUME PollType, NEW r \in Refresher, NEW found, LeaveRefresh(r, found)
  PROVE  /\ refreshLock' \in BOOLEAN /\ invalidIssue' \in BOOLEAN
         /\ rpc' \in [Refresher -> LockedPhases \cup {"idle", "poll_complete"}]
         /\ rpc'[r] # "reading"
         /\ \A s \in Refresher \ {r} : rpc'[s] = rpc[s]
  BY ConstantsAssumption DEF LeaveRefresh, PollType, LockedPhases

LEMMA PollSucceededType ==
  ASSUME PollType, listeners \subseteq Entity, NEW r \in Refresher,
         NEW reads \in [Address -> ReadResult], NEW found,
         PollSucceeded(r, reads, found)
  PROVE  PollType'
<1>1. data' \in [Address -> Entry]
  <2>1. ASSUME NEW a \in Address
        PROVE  [data[a] EXCEPT !.read = reads[a].value] \in Entry
    <3>1. data[a] \in Entry /\ reads[a].value \in Value \cup {None}
      BY DEF PollType, ReadResult
    <3> QED
      BY <3>1 DEF Entry
  <2>2. \A a \in Address : data[a] \in Entry
    BY DEF PollType
  <2> QED
    BY <2>1, <2>2 DEF PollSucceeded
<1>2. stale' \subseteq Address
  BY DEF PollSucceeded, Watched
<1>3. /\ connection' = "CONNECTED" /\ failed' = 0
      /\ failed' \in 0 .. NumFailedPolls
      /\ FailuresLeft'
  BY ConstantsAssumption DEF PollSucceeded, FailuresLeft
<1>4. error' \in BOOLEAN /\ shown' \in [Entity -> BOOLEAN]
  BY DEF PollSucceeded, PollType, _notify_is_connected_changed
<1>5. /\ refreshLock' \in BOOLEAN /\ invalidIssue' \in BOOLEAN
      /\ rpc' \in [Refresher -> LockedPhases \cup {"idle", "poll_complete"}]
      /\ rpc'[r] # "reading"
      /\ \A s \in Refresher \ {r} : rpc'[s] = rpc[s]
  <2>1. CASE connection = "DISCONNECTED" /\ RemoteControl
    BY <2>1 DEF PollSucceeded, PollType, LockedPhases
  <2>2. CASE ~(connection = "DISCONNECTED" /\ RemoteControl)
    BY <2>2, LeaveRefreshType DEF PollSucceeded
  <2> QED
    BY <2>1, <2>2
<1>6. /\ plan' \in [Refresher -> Seq(SUBSET Address)]
      /\ singles' \in [Refresher -> SUBSET Address]
      /\ got' \in [Refresher -> [Address -> ReadResult]]
      /\ \A s \in Refresher \ {r} : plan'[s] = plan[s] /\ singles'[s] = singles[s]
  BY ForgetReadsType DEF PollSucceeded
<1>7. HasRequest'
  BY <1>5, <1>6 DEF HasRequest, PollType
<1> QED
  BY <1>1, <1>2, <1>3, <1>4, <1>5, <1>6, <1>7 DEF PollType

LEMMA PollFailedType ==
  ASSUME PollType, listeners \subseteq Entity, NEW r \in Refresher, PollFailed(r)
  PROVE  PollType'
<1>1. /\ connection' \in {"INITIAL", "DISCONNECTED", "CONNECTED"}
      /\ failed' \in 0 .. NumFailedPolls
      /\ error' \in BOOLEAN
      /\ shown' \in [Entity -> BOOLEAN]
      /\ FailuresLeft'
  <2>1. CASE connection = "DISCONNECTED"
    BY <2>1 DEF PollFailed, PollType, connectionVars, FailuresLeft
  <2>2. CASE connection # "DISCONNECTED" /\ failed + 1 >= NumFailedPolls
    <3>1. /\ failed' = failed + 1 /\ connection' = "DISCONNECTED" /\ error' = TRUE
          /\ shown' = [e \in Entity |-> IF e \in listeners THEN FALSE ELSE shown[e]]
      BY <2>2 DEF PollFailed, _notify_is_connected_changed
    <3>2. failed \in 0 .. NumFailedPolls /\ failed < NumFailedPolls
      BY <2>2 DEF PollType, FailuresLeft
    <3>3. failed' \in 0 .. NumFailedPolls
      BY <3>1, <3>2, ConstantsAssumption
    <3>4. shown' \in [Entity -> BOOLEAN]
      BY <3>1 DEF PollType
    <3> QED
      BY <3>1, <3>3, <3>4 DEF FailuresLeft
  <2>3. CASE connection # "DISCONNECTED" /\ ~(failed + 1 >= NumFailedPolls)
    BY <2>3, ConstantsAssumption DEF PollFailed, PollType, FailuresLeft
  <2> QED
    BY <2>1, <2>2, <2>3
<1>2. /\ refreshLock' \in BOOLEAN /\ invalidIssue' \in BOOLEAN
      /\ rpc' \in [Refresher -> LockedPhases \cup {"idle", "poll_complete"}]
      /\ rpc'[r] # "reading"
      /\ \A s \in Refresher \ {r} : rpc'[s] = rpc[s]
  BY LeaveRefreshType DEF PollFailed
<1>3. /\ plan' \in [Refresher -> Seq(SUBSET Address)]
      /\ singles' \in [Refresher -> SUBSET Address]
      /\ got' \in [Refresher -> [Address -> ReadResult]]
      /\ \A s \in Refresher \ {r} : plan'[s] = plan[s] /\ singles'[s] = singles[s]
  BY ForgetReadsType DEF PollFailed
<1>4. HasRequest'
  BY <1>2, <1>3 DEF HasRequest, PollType
<1>5. data' \in [Address -> Entry] /\ stale' \subseteq Address
  BY DEF PollFailed, PollType
<1> QED
  BY <1>1, <1>2, <1>3, <1>4, <1>5 DEF PollType

LEMMA RequestType ==
  ASSUME PollType, NEW r \in Refresher, rpc[r] = "reading"
  PROVE  /\ Request(r) \subseteq Address
         /\ singles[r] = {} => plan[r] # <<>> /\ Tail(plan[r]) \in Seq(SUBSET Address)
<1>1. singles[r] \in SUBSET Address /\ plan[r] \in Seq(SUBSET Address)
  BY DEF PollType
<1>2. CASE singles[r] = {}
  <2>1. plan[r] # <<>>
    BY <1>2 DEF PollType, HasRequest
  <2>2. Head(plan[r]) \in SUBSET Address /\ Tail(plan[r]) \in Seq(SUBSET Address)
    BY <1>1, <2>1
  <2> QED
    BY <1>2, <2>1, <2>2 DEF Request
<1>3. CASE singles[r] # {}
  BY <1>1, <1>3 DEF Request
<1> QED
  BY <1>2, <1>3

LEMMA QueueType ==
  ASSUME NEW q \in Seq(Task), NEW t \in Task
  PROVE  /\ Append(q, t) \in Seq(Task)
         /\ q # <<>> => Tail(q) \in Seq(Task) /\ Append(Tail(q), t) \in Seq(Task)
  OBVIOUS

LEMMA ReadDoneType ==
  ASSUME PollType, RestType, NEW r \in Refresher, rpc[r] = "reading", AtHead(r),
         NEW result \in [Address -> ReadResult], ReadDone(r, result)
  PROVE  PollType' /\ bus' \in Seq(Task)
<1> DEFINE remaining == IF singles[r] = {} THEN Tail(plan[r]) ELSE plan[r]
           left == singles[r] \ Request(r)
<1>1. /\ r \in Task /\ bus \in Seq(Task) /\ bus # <<>>
      /\ Tail(bus) \in Seq(Task) /\ Append(Tail(bus), r) \in Seq(Task)
  <2>1. r \in Task /\ bus \in Seq(Task) /\ bus # <<>>
    BY DEF Task, RestType, AtHead
  <2> QED
    BY <2>1, QueueType
<1>2. CASE remaining = <<>> /\ left = {}
  <2>1. PollSucceeded(r, result, detected') /\ bus' = Tail(bus)
    BY <1>2 DEF ReadDone
  <2> QED
    BY <1>1, <2>1, PollSucceededType DEF RestType
<1>3. CASE ~(remaining = <<>> /\ left = {})
  <2>1. /\ plan' = [plan EXCEPT ![r] = remaining]
        /\ singles' = [singles EXCEPT ![r] = left]
        /\ got' = [got EXCEPT ![r] = result]
        /\ bus' = Append(Tail(bus), r)
        /\ UNCHANGED <<data, stale, connectionVars, invalidIssue, refreshLock, rpc>>
    BY <1>3 DEF ReadDone
  <2>2. remaining \in Seq(SUBSET Address) /\ left \in SUBSET Address
    BY RequestType DEF PollType
  <2> HIDE DEF remaining, left
  <2>3. /\ plan' \in [Refresher -> Seq(SUBSET Address)]
        /\ singles' \in [Refresher -> SUBSET Address]
        /\ got' \in [Refresher -> [Address -> ReadResult]]
    BY <2>1, <2>2 DEF PollType
  <2>4. HasRequest'
    BY <1>3, <2>1 DEF HasRequest, PollType
  <2>5. FailuresLeft'
    BY <2>1 DEF FailuresLeft, PollType, connectionVars
  <2> QED
    BY <1>1, <2>1, <2>3, <2>4, <2>5 DEF PollType, connectionVars
<1> QED
  BY <1>2, <1>3

-------------------------------------------------------------------------------

LEMMA InitType == Init => TypeInv
<1> SUFFICES ASSUME Init PROVE TypeInv
  OBVIOUS
<1>1. /\ Absent \in Entry
      /\ NothingRead \in [Address -> ReadResult]
      /\ NothingWritten \in [Address -> Value \cup {None}]
  BY DEF Absent, Entry, NothingRead, NotRead, ReadResult, NothingWritten
<1>2. <<>> \in Seq(SUBSET Address) /\ <<>> \in Seq(Task)
  OBVIOUS
<1>3. RestType
  BY <1>1, <1>2, ConstantsAssumption DEF Init, RestType
<1>4. HasRequest /\ FailuresLeft
  BY ConstantsAssumption DEF Init, HasRequest, FailuresLeft
<1>5. /\ data \in [Address -> Entry]
      /\ got \in [Refresher -> [Address -> ReadResult]]
      /\ plan \in [Refresher -> Seq(SUBSET Address)]
      /\ singles \in [Refresher -> SUBSET Address]
  BY <1>1, <1>2 DEF Init
<1>6. /\ connection = "INITIAL" /\ failed = 0 /\ failed \in 0 .. NumFailedPolls
  BY ConstantsAssumption DEF Init
<1>7. PollType
  <2>1. error \in BOOLEAN /\ invalidIssue \in BOOLEAN /\ refreshLock \in BOOLEAN
    BY DEF Init
  <2>2. shown \in [Entity -> BOOLEAN]
    BY DEF Init
  <2>3. rpc \in [Refresher -> LockedPhases \cup {"idle", "poll_complete"}]
    BY DEF Init, LockedPhases
  <2>4. stale \subseteq Address
    BY DEF Init
  <2> QED
    BY <1>4, <1>5, <1>6, <2>1, <2>2, <2>3, <2>4 DEF PollType
<1> QED
  BY <1>3, <1>7, TypeInvParts

LEMMA EntityType ==
  ASSUME PollType, RestType, NEW e \in Entity,
         register_modbus_entity(e) \/ remove_modbus_entity(e)
  PROVE  PollType' /\ RestType'
<1>1. Absent \in Entry /\ [Absent EXCEPT !.watched = TRUE] \in Entry
  BY DEF Absent, Entry
<1>2. \A a \in Address : data[a] \in Entry
  BY DEF PollType
<1>3. is_connected \in BOOLEAN
  BY DEF is_connected
<1>4. CASE register_modbus_entity(e)
  <2>1. data' \in [Address -> Entry]
    BY <1>1, <1>2, <1>4 DEF register_modbus_entity
  <2>2. /\ listeners' \subseteq Entity
        /\ shown' \in [Entity -> BOOLEAN]
        /\ UNCHANGED <<deviceVars, bus, detected, connection, failed, error,
                       invalidIssue, refreshVars, writeVars, stale>>
    BY <1>3, <1>4 DEF register_modbus_entity, PollType, RestType
  <2> QED
    BY <2>1, <2>2 DEF PollType, RestType, deviceVars, refreshVars, writeVars,
                      HasRequest, FailuresLeft
<1>5. CASE remove_modbus_entity(e)
  <2>1. data' \in [Address -> Entry]
    BY <1>1, <1>2, <1>5 DEF remove_modbus_entity
  <2>2. /\ listeners' \subseteq Entity
        /\ shown' \in [Entity -> BOOLEAN]
        /\ stale' \subseteq Address
        /\ UNCHANGED <<deviceVars, bus, detected, connection, failed, error,
                       invalidIssue, refreshVars, writeVars>>
    BY <1>5 DEF remove_modbus_entity, PollType, RestType
  <2> QED
    BY <2>1, <2>2 DEF PollType, RestType, deviceVars, refreshVars, writeVars,
                      HasRequest, FailuresLeft
<1> QED
  BY <1>4, <1>5

LEMMA StartRefreshType ==
  ASSUME PollType, RestType, NEW r \in Refresher, StartRefresh(r)
  PROVE  PollType' /\ RestType'
<1> DEFINE planned == ReadPlan(PollSet)
<1>1. planned \in Seq(SUBSET Address)
  BY ReadPlanAssumption DEF PollSet, Watched
<1>2. UNCHANGED <<deviceVars, listeners, detected, writeVars>>
  BY DEF StartRefresh
<1>3. CASE planned = <<>>
  <2>1. PollSucceeded(r, NothingRead, detected) /\ bus' = bus
    BY <1>3 DEF StartRefresh
  <2>2. NothingRead \in [Address -> ReadResult]
    BY DEF NothingRead, NotRead, ReadResult
  <2>3. PollType'
    BY <2>1, <2>2, PollSucceededType DEF RestType
  <2> QED
    BY <1>2, <2>1, <2>3 DEF RestType, deviceVars, writeVars
<1>4. CASE planned # <<>>
  <2> HIDE DEF planned
  <2>1. /\ refreshLock' = TRUE
        /\ rpc' = [rpc EXCEPT ![r] = "reading"]
        /\ plan' = [plan EXCEPT ![r] = planned]
        /\ bus' = Append(bus, r)
        /\ UNCHANGED <<data, stale, connectionVars, invalidIssue, singles, got>>
    BY <1>4 DEF StartRefresh, planned
  <2>2. bus' \in Seq(Task)
    BY <2>1, QueueType DEF RestType, Task
  <2>3. /\ plan' \in [Refresher -> Seq(SUBSET Address)]
        /\ rpc' \in [Refresher -> LockedPhases \cup {"idle", "poll_complete"}]
    BY <1>1, <2>1 DEF PollType, LockedPhases
  <2>4. HasRequest'
    BY <1>4, <2>1 DEF HasRequest, PollType
  <2>5. PollType'
    BY <2>1, <2>3, <2>4 DEF PollType, FailuresLeft, connectionVars
  <2> QED
    BY <1>2, <2>2, <2>5 DEF RestType, deviceVars, writeVars
<1> QED
  BY <1>3, <1>4

LEMMA ReadServedType ==
  ASSUME PollType, RestType, NEW r \in Refresher, ReadServed(r)
  PROVE  PollType' /\ RestType'
<1>1. /\ rpc[r] = "reading" /\ AtHead(r)
      /\ UNCHANGED <<deviceVars, listeners, writeVars>>
  BY DEF ReadServed, ReadAnswered, ReadRefused, RegisterInvalid, ReadFailed
<1>2. Request(r) \subseteq Address
  BY <1>1, RequestType
<1>3. got[r] \in [Address -> ReadResult]
  BY DEF PollType
<1>4. r \in Task /\ bus \in Seq(Task) /\ bus # <<>>
  BY <1>1 DEF RestType, Task, AtHead
<1>5. CASE ReadAnswered(r)
  <2> DEFINE result == [a \in Address |->
                          IF a \in Request(r) THEN [read |-> TRUE, value |-> device[a]]
                          ELSE got[r][a]]
  <2>1. result \in [Address -> ReadResult]
    BY <1>3 DEF RestType, ReadResult
  <2>2. ReadDone(r, result) /\ detected' = detected
    BY <1>5 DEF ReadAnswered
  <2>3. PollType' /\ bus' \in Seq(Task)
    BY <1>1, <2>1, <2>2, ReadDoneType
  <2> QED
    BY <1>1, <2>2, <2>3 DEF RestType, deviceVars, writeVars
<1>6. CASE ReadRefused(r)
  <2>1. /\ singles[r] = {} /\ Request(r) # {}
        /\ singles' = [singles EXCEPT ![r] = Request(r)]
        /\ plan' = [plan EXCEPT ![r] = Tail(plan[r])]
        /\ bus' = Append(Tail(bus), r)
        /\ UNCHANGED <<data, detected, connectionVars, invalidIssue, refreshLock,
                       rpc, got, stale>>
    BY <1>6 DEF ReadRefused
  <2>2. Tail(plan[r]) \in Seq(SUBSET Address)
    BY <1>1, <2>1, RequestType
  <2>3. /\ singles' \in [Refresher -> SUBSET Address]
        /\ plan' \in [Refresher -> Seq(SUBSET Address)]
    BY <1>2, <2>1, <2>2 DEF PollType
  <2>4. HasRequest'
    BY <2>1 DEF HasRequest, PollType
  <2>5. bus' \in Seq(Task)
    BY <1>4, <2>1, QueueType
  <2>6. PollType'
    BY <2>1, <2>3, <2>4 DEF PollType, FailuresLeft, connectionVars
  <2> QED
    BY <1>1, <2>1, <2>5, <2>6 DEF RestType, deviceVars, writeVars
<1>7. CASE RegisterInvalid(r)
  <2> DEFINE result == [a \in Address |->
                          IF a \in Request(r) THEN [read |-> TRUE, value |-> None]
                          ELSE got[r][a]]
  <2>1. result \in [Address -> ReadResult]
    BY <1>3 DEF ReadResult
  <2>2. ReadDone(r, result) /\ detected' = detected \cup Request(r)
    BY <1>7 DEF RegisterInvalid
  <2>3. PollType' /\ bus' \in Seq(Task)
    BY <1>1, <2>1, <2>2, ReadDoneType
  <2> QED
    BY <1>1, <1>2, <2>2, <2>3 DEF RestType, deviceVars, writeVars
<1>8. CASE ReadFailed(r)
  <2>1. PollFailed(r) /\ bus' = Tail(bus) /\ detected' = detected
    BY <1>8 DEF ReadFailed
  <2>2. PollType'
    BY <2>1, PollFailedType DEF RestType
  <2>3. bus' \in Seq(Task)
    BY <1>4, <2>1, QueueType
  <2> QED
    BY <1>1, <2>1, <2>2, <2>3 DEF RestType, deviceVars, writeVars
<1> QED
  BY <1>5, <1>6, <1>7, <1>8 DEF ReadServed

\* The callbacks at the end of a refresh.
LEMMA CallbackType ==
  ASSUME PollType, RestType, NEW r \in Refresher,
         BecameConnected(r) \/ BecameConnectedRaises(r) \/ PollComplete(r)
  PROVE  PollType' /\ RestType'
<1>1. /\ refreshLock' \in BOOLEAN /\ invalidIssue' \in BOOLEAN
      /\ rpc' \in [Refresher -> LockedPhases \cup {"idle", "poll_complete"}]
      /\ rpc'[r] # "reading"
      /\ \A s \in Refresher \ {r} : rpc'[s] = rpc[s]
  <2>1. CASE BecameConnected(r)
    BY <2>1, LeaveRefreshType DEF BecameConnected
  <2>2. CASE BecameConnectedRaises(r)
    BY <2>2 DEF BecameConnectedRaises, PollType, LockedPhases
  <2>3. CASE PollComplete(r)
    BY <2>3 DEF PollComplete, PollType, LockedPhases
  <2> QED
    BY <2>1, <2>2, <2>3
<1>2. UNCHANGED <<deviceVars, bus, data, listeners, detected, connectionVars,
                 plan, singles, got, writeVars, stale>>
  BY DEF BecameConnected, BecameConnectedRaises, PollComplete
<1>3. HasRequest'
  BY <1>1, <1>2 DEF HasRequest, PollType
<1>4. PollType'
  BY <1>1, <1>2, <1>3 DEF PollType, FailuresLeft, connectionVars
<1> QED
  BY <1>2, <1>4 DEF RestType, deviceVars, writeVars

LEMMA AppliedType ==
  ASSUME RestType, NEW w \in Writer
  PROVE  Applied(w) \in [Address -> Value]
  BY DEF RestType, Applied, Target

LEMMA EndWriteType ==
  ASSUME RestType, NEW w \in Writer, EndWrite(w)
  PROVE  /\ wpc' \in [Writer -> {"idle", "writing", "confirming", "sleeping"}]
         /\ want' \in [Writer -> [Address -> Value \cup {None}]]
         /\ attempts' \in [Writer -> 0 .. WriteConfirmAttempts]
<1>1. NothingWritten \in [Address -> Value \cup {None}]
  BY DEF NothingWritten
<1>2. 0 \in 0 .. WriteConfirmAttempts
  BY ConstantsAssumption
<1> QED
  BY <1>1, <1>2 DEF EndWrite, RestType

\* A recorded write changes nothing but entries.
LEMMA RecordType ==
  ASSUME PollType, RestType, NEW w \in Writer, _record_write_success(w)
  PROVE  data' \in [Address -> Entry]
<1>1. ASSUME NEW a \in Address, a \in Target(w)
      PROVE  [data[a] EXCEPT !.written = want[w][a]] \in Entry
  <2>1. data[a] \in Entry /\ want[w][a] \in Value \cup {None}
    BY DEF PollType, RestType
  <2> QED
    BY <2>1 DEF Entry
<1>2. \A a \in Address : data[a] \in Entry
  BY DEF PollType
<1> QED
  BY <1>1, <1>2 DEF _record_write_success

LEMMA WriteType ==
  ASSUME PollType, RestType, NEW w \in Writer, Write(w)
  PROVE  PollType' /\ RestType'
<1>1. /\ UNCHANGED <<illegal, link, listeners, detected, connectionVars,
                     invalidIssue, refreshVars, stale>>
      /\ device' = device \/ device' = Applied(w)
  BY DEF Write, StartWrite, WriteServed, WriteAnswered, WriteUnanswered, WriteFailed,
         WriteConfirmed, ReadBackDiffers, ReadBackRaises, ConfirmAgain, Taken, deviceVars
<1>2. device' \in [Address -> Value]
  BY <1>1, AppliedType DEF RestType
<1>3. data' \in [Address -> Entry]
  <2>1. data' = data \/ _record_write_success(w)
    BY DEF Write, StartWrite, WriteServed, WriteAnswered, WriteUnanswered, WriteFailed,
           WriteConfirmed, ReadBackDiffers, ReadBackRaises, ConfirmAgain
  <2> QED
    BY <2>1, RecordType DEF PollType
<1>4. bus' \in Seq(Task)
  <2>1. w \in Task /\ bus \in Seq(Task)
    BY DEF Task, RestType
  <2>2. CASE WriteServed(w)
    <3>1. bus # <<>> /\ (bus' = Tail(bus) \/ bus' = Append(Tail(bus), w))
      BY <2>2 DEF WriteServed, WriteAnswered, WriteUnanswered, WriteFailed,
                  WriteConfirmed, ReadBackDiffers, ReadBackRaises, AtHead
    <3> QED
      BY <2>1, <3>1, QueueType
  <2>3. CASE StartWrite(w) \/ ConfirmAgain(w)
    BY <2>1, <2>3, QueueType DEF StartWrite, ConfirmAgain
  <2> QED
    BY <2>2, <2>3 DEF Write
<1>5. /\ wpc' \in [Writer -> {"idle", "writing", "confirming", "sleeping"}]
      /\ want' \in [Writer -> [Address -> Value \cup {None}]]
      /\ attempts' \in [Writer -> 0 .. WriteConfirmAttempts]
  <2>1. CASE StartWrite(w)
    <3> PICK block \in WriteBlock : \E values \in [block -> Value] :
          want' = [want EXCEPT ![w] = [a \in Address |->
                                         IF a \in block THEN values[a] ELSE None]]
      BY <2>1 DEF StartWrite
    <3> PICK values \in [block -> Value] :
          want' = [want EXCEPT ![w] = [a \in Address |->
                                         IF a \in block THEN values[a] ELSE None]]
      OBVIOUS
    <3>1. [a \in Address |-> IF a \in block THEN values[a] ELSE None]
            \in [Address -> Value \cup {None}]
      OBVIOUS
    <3>2. want' \in [Writer -> [Address -> Value \cup {None}]]
      BY <3>1 DEF RestType
    <3> QED
      BY <2>1, <3>2 DEF StartWrite, RestType
  <2>2. CASE EndWrite(w)
    BY <2>2, EndWriteType
  <2>3. CASE WriteUnanswered(w)
    BY <2>3 DEF WriteUnanswered, RestType
  <2>4. CASE ConfirmAgain(w)
    BY <2>4 DEF ConfirmAgain, RestType
  <2>5. CASE ReadBackDiffers(w) /\ ~EndWrite(w)
    <3>1. /\ attempts[w] + 1 < WriteConfirmAttempts
          /\ wpc' = [wpc EXCEPT ![w] = "sleeping"]
          /\ attempts' = [attempts EXCEPT ![w] = attempts[w] + 1]
          /\ want' = want
      BY <2>5 DEF ReadBackDiffers
    <3>2. attempts[w] + 1 \in 0 .. WriteConfirmAttempts
      BY <3>1, ConstantsAssumption DEF RestType
    <3> QED
      BY <3>1, <3>2 DEF RestType
  <2> QED
    BY <2>1, <2>2, <2>3, <2>4, <2>5
       DEF Write, WriteServed, WriteAnswered, WriteFailed, WriteConfirmed, ReadBackRaises
<1>6. unrecorded' \subseteq Address
  <2>1. Target(w) \subseteq Address
    BY DEF Target
  <2> QED
    BY <2>1 DEF Write, StartWrite, WriteServed, WriteAnswered, WriteUnanswered,
                WriteFailed, WriteConfirmed, ReadBackDiffers, ReadBackRaises,
                ConfirmAgain, Taken, RestType
<1> QED
  BY <1>1, <1>2, <1>3, <1>4, <1>5, <1>6
     DEF PollType, RestType, HasRequest, FailuresLeft, connectionVars, refreshVars

LEMMA EnvironmentType ==
  ASSUME PollType, RestType, Environment
  PROVE  PollType' /\ RestType'
<1>1. CASE LinkChanges
  BY <1>1 DEF LinkChanges, PollType, RestType, HasRequest, FailuresLeft,
              connectionVars, refreshVars, writeVars
<1>2. ASSUME NEW a \in Address, WriteDelayOver(a)
      PROVE  PollType' /\ RestType'
  <2>1. /\ data' = [data EXCEPT ![a] = [data[a] EXCEPT !.written = None]]
        /\ UNCHANGED <<deviceVars, bus, listeners, detected, connectionVars,
                       invalidIssue, refreshVars, writeVars, stale>>
    BY <1>2 DEF WriteDelayOver
  <2>2. [data[a] EXCEPT !.written = None] \in Entry
    BY DEF PollType, Entry
  <2>3. data' \in [Address -> Entry]
    BY <2>1, <2>2 DEF PollType
  <2> QED
    BY <2>1, <2>3 DEF PollType, RestType, HasRequest, FailuresLeft,
                      deviceVars, connectionVars, refreshVars, writeVars
<1>3. ASSUME NEW a \in Address, InverterChanges(a)
      PROVE  PollType' /\ RestType'
  <2>1. device' \in [Address -> Value]
    BY <1>3 DEF InverterChanges, RestType
  <2> QED
    BY <1>3, <2>1 DEF InverterChanges, PollType, RestType, HasRequest, FailuresLeft,
                      connectionVars, refreshVars, writeVars
<1> QED
  BY <1>1, <1>2, <1>3 DEF Environment

LEMMA NextType == TypeInv /\ [Next]_vars => TypeInv'
<1> SUFFICES ASSUME PollType, RestType, [Next]_vars
             PROVE  PollType' /\ RestType'
  <2>1. TypeInv <=> PollType /\ RestType
    BY TypeInvParts
  <2>2. (TypeInv <=> PollType /\ RestType)'
    BY TypeInvParts, PTL
  <2> QED
    BY <2>1, <2>2
<1>1. ASSUME NEW e \in Entity, register_modbus_entity(e) \/ remove_modbus_entity(e)
      PROVE  PollType' /\ RestType'
  BY <1>1, EntityType
<1>2. ASSUME NEW r \in Refresher, Refresh(r)
      PROVE  PollType' /\ RestType'
  <2>1. CASE StartRefresh(r)
    BY <2>1, StartRefreshType
  <2>2. CASE ReadServed(r)
    BY <2>2, ReadServedType
  <2>3. CASE BecameConnected(r) \/ BecameConnectedRaises(r) \/ PollComplete(r)
    BY <2>3, CallbackType
  <2>4. CASE AbortRefresh(r)
    BY <2>4 DEF AbortRefresh, vars, PollType, RestType, HasRequest, FailuresLeft,
                deviceVars, connectionVars, refreshVars, writeVars
  <2> QED
    BY <1>2, <2>1, <2>2, <2>3, <2>4 DEF Refresh
<1>3. ASSUME NEW w \in Writer, Write(w)
      PROVE  PollType' /\ RestType'
  BY <1>3, WriteType
<1>4. CASE Environment
  BY <1>4, EnvironmentType
<1>5. CASE UNCHANGED vars
  BY <1>5 DEF vars, PollType, RestType, HasRequest, FailuresLeft,
              deviceVars, connectionVars, refreshVars, writeVars
<1> QED
  BY <1>1, <1>2, <1>3, <1>4, <1>5 DEF Next

LEMMA AlwaysTypeInv == Spec => []TypeInv
  BY InitType, NextType, PTL DEF Spec

\* Every variable of the controller keeps its type, so that a refresh never asks
\* for a request it does not have and never counts more failed polls than it
\* takes to disconnect (_refresh).
THEOREM Typed == Spec => []TypeOK
<1>1. TypeInv => TypeOK
  BY DEF TypeInv
<1> QED
  BY <1>1, AlwaysTypeInv, PTL

-------------------------------------------------------------------------------
(***************************************************************************)
(* The refresh lock.                                                       *)
(***************************************************************************)

Locked(r) == rpc[r] \in LockedPhases

\* r goes on to phase, and holds the lock from there if that is a locked phase.
GoesTo(r, phase) ==
  /\ rpc' = [rpc EXCEPT ![r] = phase]
  /\ refreshLock' = IF phase \in LockedPhases THEN TRUE ELSE FALSE

LEMMA LockStep ==
  ASSUME PollType, OneRefreshAtATime, NEW r \in Refresher, NEW phase,
         Locked(r) \/ ~refreshLock, GoesTo(r, phase)
  PROVE  OneRefreshAtATime'
<1>1. \A s \in Refresher \ {r} : ~Locked(s)
  BY DEF OneRefreshAtATime, Locked
<1>2. /\ \A s \in Refresher \ {r} : rpc'[s] = rpc[s]
      /\ rpc'[r] = phase
      /\ refreshLock' <=> phase \in LockedPhases
  BY DEF GoesTo, PollType
<1> QED
  BY <1>1, <1>2 DEF OneRefreshAtATime, Locked

LEMMA LeaveRefreshGoes ==
  ASSUME NEW r \in Refresher, NEW found, LeaveRefresh(r, found)
  PROVE  \E phase \in {"idle", "poll_complete"} : GoesTo(r, phase)
<1>1. "idle" \notin LockedPhases /\ "poll_complete" \notin LockedPhases
  BY DEF LockedPhases
<1> QED
  BY <1>1 DEF LeaveRefresh, GoesTo

LEMMA PollEndGoes ==
  ASSUME NEW r \in Refresher, NEW reads, NEW found,
         PollSucceeded(r, reads, found) \/ PollFailed(r)
  PROVE  \E phase \in {"idle", "poll_complete", "became_connected"} : GoesTo(r, phase)
<1>1. CASE connection = "DISCONNECTED" /\ RemoteControl /\ ~PollFailed(r)
  BY <1>1 DEF PollSucceeded, GoesTo, LockedPhases
<1>2. CASE ~(connection = "DISCONNECTED" /\ RemoteControl) \/ PollFailed(r)
  BY <1>2, LeaveRefreshGoes DEF PollSucceeded, PollFailed
<1> QED
  BY <1>1, <1>2

LEMMA RefreshKeepsLock ==
  ASSUME PollType, OneRefreshAtATime, NEW r \in Refresher, Refresh(r)
  PROVE  OneRefreshAtATime'
<1>1. CASE StartRefresh(r)
  <2>1. ~refreshLock
    BY <1>1 DEF StartRefresh, _acquire_nonblocking
  <2>2. \/ PollSucceeded(r, NothingRead, detected)
        \/ GoesTo(r, "reading")
    BY <1>1 DEF StartRefresh, GoesTo, LockedPhases
  <2> QED
    BY <2>1, <2>2, PollEndGoes, LockStep
<1>2. CASE ReadServed(r)
  <2>1. Locked(r)
    BY <1>2 DEF ReadServed, ReadAnswered, ReadRefused, RegisterInvalid, ReadFailed,
                Locked, LockedPhases
  <2>2. \/ PollFailed(r)
        \/ UNCHANGED <<refreshLock, rpc>>
        \/ \E result : ReadDone(r, result)
    BY <1>2 DEF ReadServed, ReadAnswered, ReadRefused, RegisterInvalid, ReadFailed
  <2>3. ASSUME NEW result, ReadDone(r, result)
        PROVE  PollSucceeded(r, result, detected') \/ UNCHANGED <<refreshLock, rpc>>
    BY <2>3 DEF ReadDone
  <2>4. CASE UNCHANGED <<refreshLock, rpc>>
    BY <2>4 DEF OneRefreshAtATime
  <2> QED
    BY <2>1, <2>2, <2>3, <2>4, PollEndGoes, LockStep
<1>3. CASE BecameConnected(r)
  <2>1. Locked(r) /\ LeaveRefresh(r, detected)
    BY <1>3 DEF BecameConnected, Locked, LockedPhases
  <2> QED
    BY <2>1, LeaveRefreshGoes, LockStep
<1>4. CASE BecameConnectedRaises(r)
  <2>1. Locked(r) /\ GoesTo(r, "idle")
    BY <1>4 DEF BecameConnectedRaises, Locked, LockedPhases, GoesTo
  <2> QED
    BY <2>1, LockStep
<1>5. CASE PollComplete(r)
  BY <1>5 DEF PollComplete, OneRefreshAtATime, LockedPhases, PollType
<1>6. CASE AbortRefresh(r)
  BY <1>6 DEF AbortRefresh, vars, refreshVars, OneRefreshAtATime
<1> QED
  BY <1>1, <1>2, <1>3, <1>4, <1>5, <1>6 DEF Refresh

LEMMA OthersKeepRefresh ==
  ASSUME [Next]_vars, \A r \in Refresher : ~Refresh(r)
  PROVE  UNCHANGED refreshVars
<1>1. ASSUME NEW e \in Entity, register_modbus_entity(e) \/ remove_modbus_entity(e)
      PROVE  UNCHANGED refreshVars
  BY <1>1 DEF register_modbus_entity, remove_modbus_entity
<1>2. ASSUME NEW w \in Writer, Write(w)
      PROVE  UNCHANGED refreshVars
  BY <1>2 DEF Write, StartWrite, WriteServed, WriteAnswered, WriteUnanswered,
              WriteFailed, WriteConfirmed, ReadBackDiffers, ReadBackRaises, ConfirmAgain
<1>3. CASE Environment
  BY <1>3 DEF Environment, LinkChanges, WriteDelayOver, InverterChanges
<1>4. CASE UNCHANGED vars
  BY <1>4 DEF vars
<1> QED
  BY <1>1, <1>2, <1>3, <1>4 DEF Next

\* At most one refresh is in the part which the lock protects, and the lock is
\* held exactly then: none leaks when a callback raises (_refresh,
\* _acquire_nonblocking).
THEOREM RefreshIsExclusive == Spec => []OneRefreshAtATime
<1>1. Init => OneRefreshAtATime
  BY DEF Init, OneRefreshAtATime, LockedPhases
<1>2. TypeInv /\ OneRefreshAtATime /\ [Next]_vars => OneRefreshAtATime'
  <2> SUFFICES ASSUME TypeInv, OneRefreshAtATime, [Next]_vars
               PROVE  OneRefreshAtATime'
    OBVIOUS
  <2>1. PollType
    BY TypeInvParts
  <2>2. CASE \E r \in Refresher : Refresh(r)
    BY <2>1, <2>2, RefreshKeepsLock
  <2>3. CASE \A r \in Refresher : ~Refresh(r)
    BY <2>3, OthersKeepRefresh DEF refreshVars, OneRefreshAtATime
  <2> QED
    BY <2>2, <2>3
<1> QED
  BY <1>1, <1>2, AlwaysTypeInv, PTL DEF Spec

-------------------------------------------------------------------------------
(***************************************************************************)
(* The connection.  Only the end of a poll touches it.                     *)
(***************************************************************************)

LEMMA RefreshOfConnection ==
  ASSUME NEW r \in Refresher, Refresh(r)
  PROVE  /\ listeners' = listeners
         /\ \/ \E reads, found : PollSucceeded(r, reads, found)
            \/ PollFailed(r)
            \/ UNCHANGED connectionVars
<1>1. ASSUME NEW result, ReadDone(r, result)
      PROVE  PollSucceeded(r, result, detected') \/ UNCHANGED connectionVars
  BY <1>1 DEF ReadDone
<1>2. CASE StartRefresh(r)
  BY <1>2 DEF StartRefresh
<1>3. CASE ReadServed(r)
  <2>1. /\ listeners' = listeners
        /\ \/ PollFailed(r)
           \/ UNCHANGED connectionVars
           \/ \E result : ReadDone(r, result)
    BY <1>3 DEF ReadServed, ReadAnswered, ReadRefused, RegisterInvalid, ReadFailed
  <2> QED
    BY <1>1, <2>1
<1>4. CASE BecameConnected(r) \/ BecameConnectedRaises(r) \/ PollComplete(r)
  BY <1>4 DEF BecameConnected, BecameConnectedRaises, PollComplete
<1>5. CASE AbortRefresh(r)
  BY <1>5 DEF AbortRefresh, vars
<1> QED
  BY <1>2, <1>3, <1>4, <1>5 DEF Refresh

LEMMA OthersKeepConnection ==
  ASSUME [Next]_vars, \A r \in Refresher : ~Refresh(r),
         \A e \in Entity : ~register_modbus_entity(e) /\ ~remove_modbus_entity(e)
  PROVE  UNCHANGED <<connectionVars, listeners>>
<1>1. ASSUME NEW w \in Writer, Write(w)
      PROVE  UNCHANGED <<connectionVars, listeners>>
  BY <1>1 DEF Write, StartWrite, WriteServed, WriteAnswered, WriteUnanswered,
              WriteFailed, WriteConfirmed, ReadBackDiffers, ReadBackRaises, ConfirmAgain
<1>2. CASE Environment
  BY <1>2 DEF Environment, LinkChanges, WriteDelayOver, InverterChanges
<1>3. CASE UNCHANGED vars
  BY <1>3 DEF vars
<1> QED
  BY <1>1, <1>2, <1>3 DEF Next

\* What the entities show and the issue that is raised never disagree with the
\* connection state, whichever entities come and go (_refresh,
\* _notify_is_connected_changed, is_connected).
THEOREM AvailabilityShown == Spec => []AvailabilityIsShown
<1>1. Init => AvailabilityIsShown
  BY DEF Init, AvailabilityIsShown
<1>2. TypeInv /\ AvailabilityIsShown /\ [Next]_vars => AvailabilityIsShown'
  <2> SUFFICES ASSUME TypeInv, AvailabilityIsShown, [Next]_vars
               PROVE  AvailabilityIsShown'
    OBVIOUS
  <2>1. PollType /\ RestType
    BY TypeInvParts
  <2>2. ASSUME NEW e \in Entity, register_modbus_entity(e)
        PROVE  AvailabilityIsShown'
    BY <2>1, <2>2 DEF register_modbus_entity, AvailabilityIsShown, is_connected,
                      PollType, RestType
  <2>3. ASSUME NEW e \in Entity, remove_modbus_entity(e)
        PROVE  AvailabilityIsShown'
    BY <2>1, <2>3 DEF remove_modbus_entity, AvailabilityIsShown, is_connected,
                      PollType, RestType
  <2>4. ASSUME NEW r \in Refresher, NEW reads, NEW found,
               PollSucceeded(r, reads, found), listeners' = listeners
        PROVE  AvailabilityIsShown'
    <3>1. CASE connection = "DISCONNECTED"
      BY <2>1, <2>4, <3>1 DEF PollSucceeded, _notify_is_connected_changed,
                              AvailabilityIsShown, is_connected, RestType
    <3>2. CASE connection # "DISCONNECTED"
      BY <2>1, <2>4, <3>2 DEF PollSucceeded, AvailabilityIsShown, is_connected, PollType
    <3> QED
      BY <3>1, <3>2
  <2>5. ASSUME NEW r \in Refresher, PollFailed(r), listeners' = listeners
        PROVE  AvailabilityIsShown'
    <3>1. CASE UNCHANGED <<connection, error, shown>>
      BY <2>5, <3>1 DEF AvailabilityIsShown, is_connected
    <3>2. CASE ~UNCHANGED <<connection, error, shown>>
      <4>1. /\ connection' = "DISCONNECTED" /\ error' = TRUE
            /\ _notify_is_connected_changed(FALSE)
        BY <2>5, <3>2 DEF PollFailed, connectionVars
      <4>2. connection' \notin {"INITIAL", "CONNECTED"}
        BY <4>1
      <4>3. \A e \in listeners' : ~shown'[e]
        BY <2>1, <2>5, <4>1 DEF _notify_is_connected_changed, RestType
      <4>4. error' <=> connection' = "DISCONNECTED"
        BY <4>1
      <4> QED
        BY <4>2, <4>3, <4>4 DEF AvailabilityIsShown, is_connected
    <3> QED
      BY <3>1, <3>2
  <2>6. CASE UNCHANGED <<connectionVars, listeners>>
    BY <2>6 DEF connectionVars, AvailabilityIsShown, is_connected
  <2> QED
    BY <2>2, <2>3, <2>4, <2>5, <2>6, RefreshOfConnection, OthersKeepConnection
<1> QED
  BY <1>1, <1>2, AlwaysTypeInv, PTL DEF Spec

\* For a reader of is_connected the controller behaves as Availability says, for
\* any NumFailedPolls: only as many failed polls in a row as that make it
\* unavailable, and one good poll makes it available (_refresh, is_connected).
THEOREM AvailabilityImplemented == Spec => ImplementsAvailability
<1>1. Init => ConnectionAvailability!Init
  BY DEF Init, ConnectionAvailability!Init, is_connected, ConnectionStreak
<1>2. TypeInv /\ [Next]_vars => [ConnectionAvailability!Next]_(ConnectionAvailability!vars)
  <2> SUFFICES ASSUME TypeInv, [Next]_vars
               PROVE  [ConnectionAvailability!Next]_(ConnectionAvailability!vars)
    OBVIOUS
  <2>1. PollType /\ failed \in Nat
    BY TypeInvParts, ConstantsAssumption DEF PollType
  <2>2. CASE UNCHANGED <<connection, failed>>
    BY <2>2 DEF ConnectionAvailability!vars, is_connected, ConnectionStreak
  <2>3. ASSUME NEW r \in Refresher, NEW reads, NEW found, PollSucceeded(r, reads, found)
        PROVE  ConnectionAvailability!Next
    <3>1. connection' = "CONNECTED" /\ failed' = 0
      BY <2>3 DEF PollSucceeded
    <3> QED
      BY <3>1 DEF ConnectionAvailability!Next, ConnectionAvailability!PollOk,
                  is_connected, ConnectionStreak
  <2>4. ASSUME NEW r \in Refresher, PollFailed(r), ~UNCHANGED <<connection, failed>>
        PROVE  ConnectionAvailability!Next
    <3>1. /\ connection # "DISCONNECTED" /\ failed' = failed + 1
          /\ failed < NumFailedPolls
      BY <2>1, <2>4 DEF PollFailed, connectionVars, PollType, FailuresLeft
    <3>2. is_connected /\ ConnectionStreak = failed
      BY <2>1, <3>1 DEF is_connected, ConnectionStreak, PollType
    <3>3. CASE failed + 1 >= NumFailedPolls
      <4>1. connection' = "DISCONNECTED"
        BY <2>4, <3>1, <3>3 DEF PollFailed
      <4>2. ~is_connected' /\ ConnectionStreak' = 0
        BY <4>1 DEF is_connected, ConnectionStreak
      <4>3. ConnectionStreak + 1 = NumFailedPolls
        BY <2>1, <3>1, <3>2, <3>3, ConstantsAssumption
      <4> QED
        BY <3>2, <4>2, <4>3
           DEF ConnectionAvailability!Next, ConnectionAvailability!GiveUp
    <3>4. CASE ~(failed + 1 >= NumFailedPolls)
      <4>1. connection' = connection
        BY <2>4, <3>1, <3>4 DEF PollFailed
      <4>2. is_connected' = is_connected /\ ConnectionStreak' = failed + 1
        BY <3>1, <4>1 DEF is_connected, ConnectionStreak
      <4>3. ConnectionStreak + 1 < NumFailedPolls
        BY <2>1, <3>2, <3>4, ConstantsAssumption
      <4> QED
        BY <3>2, <4>2, <4>3
           DEF ConnectionAvailability!Next, ConnectionAvailability!PollMissed
    <3> QED
      BY <3>3, <3>4
  <2>5. ASSUME NEW e \in Entity, register_modbus_entity(e) \/ remove_modbus_entity(e)
        PROVE  UNCHANGED <<connection, failed>>
    BY <2>5 DEF register_modbus_entity, remove_modbus_entity
  <2> QED
    BY <2>2, <2>3, <2>4, <2>5, RefreshOfConnection, OthersKeepConnection
       DEF connectionVars
<1> QED
  BY <1>1, <1>2, AlwaysTypeInv, PTL
     DEF Spec, ImplementsAvailability, ConnectionAvailability!Spec

-------------------------------------------------------------------------------
(***************************************************************************)
(* The cache.                                                              *)
(***************************************************************************)

\* Only a watched setting has a written value, and only settings are written.
OnlySettings ==
  /\ \A a \in Address : data[a].written # None => data[a].watched /\ a \in Setting
  /\ \A w \in Writer : Target(w) \subseteq Setting

ShownInv == TypeInv /\ OnlySettings /\ ShownWritesHold

\* A step that keeps the written values or clears them, and keeps the rest.
LEMMA WrittenKept ==
  ASSUME ShownInv, UNCHANGED <<device, want, unrecorded>>,
         \A a \in Address :
           \/ data'[a].written = None
           \/ data'[a].written = data[a].written /\ data'[a].watched = data[a].watched
  PROVE  OnlySettings' /\ ShownWritesHold'
<1>1. \A w \in Writer : Target(w)' = Target(w)
  BY DEF Target
<1> QED
  BY <1>1 DEF ShownInv, OnlySettings, ShownWritesHold

LEMMA EntityKeepsShown ==
  ASSUME ShownInv, NEW e \in Entity,
         register_modbus_entity(e) \/ remove_modbus_entity(e)
  PROVE  OnlySettings' /\ ShownWritesHold'
<1>1. UNCHANGED <<device, want, unrecorded>>
  BY DEF register_modbus_entity, remove_modbus_entity, deviceVars, writeVars
<1>2. ASSUME NEW a \in Address
      PROVE  \/ data'[a].written = None
             \/ data'[a].written = data[a].written /\ data'[a].watched = data[a].watched
  <2>1. Absent.written = None /\ [Absent EXCEPT !.watched = TRUE].written = None
    BY DEF Absent
  <2>2. \/ data'[a] = Absent \/ data'[a] = [Absent EXCEPT !.watched = TRUE]
        \/ data'[a] = data[a]
    BY DEF register_modbus_entity, remove_modbus_entity
  <2> QED
    BY <2>1, <2>2
<1> QED
  BY <1>1, <1>2, WrittenKept

LEMMA RefreshKeepsShown ==
  ASSUME ShownInv, NEW r \in Refresher, Refresh(r)
  PROVE  OnlySettings' /\ ShownWritesHold'
<1>1. UNCHANGED <<device, want, unrecorded>>
  BY DEF Refresh, StartRefresh, AbortRefresh, ReadServed, ReadAnswered, ReadRefused,
         RegisterInvalid, ReadFailed, BecameConnected, BecameConnectedRaises,
         PollComplete, deviceVars, writeVars, vars
<1>2. \/ data' = data
      \/ \E reads, found : PollSucceeded(r, reads, found)
  BY DEF Refresh, StartRefresh, AbortRefresh, ReadServed, ReadAnswered,
         ReadRefused, RegisterInvalid, ReadFailed, ReadDone, PollFailed,
         BecameConnected, BecameConnectedRaises, PollComplete, vars
<1>3. \A a \in Address : data[a] \in Entry
  BY TypeInvParts DEF ShownInv, PollType
<1>4. ASSUME NEW a \in Address
      PROVE  data'[a].written = data[a].written /\ data'[a].watched = data[a].watched
  <2>1. CASE data' = data
    BY <2>1
  <2>2. ASSUME NEW reads, NEW found, PollSucceeded(r, reads, found)
        PROVE  /\ data'[a].written = data[a].written
               /\ data'[a].watched = data[a].watched
    <3>1. data[a] \in Entry
      BY <1>3
    <3>2. data'[a] = data[a] \/ data'[a] = [data[a] EXCEPT !.read = reads[a].value]
      BY <2>2 DEF PollSucceeded
    <3> QED
      BY <3>1, <3>2 DEF Entry
  <2> QED
    BY <1>2, <2>1, <2>2
<1> QED
  BY <1>1, <1>4, WrittenKept

\* What a write records is in the inverter.
LEMMA RecordKeepsShown ==
  ASSUME ShownInv, NEW w \in Writer, _record_write_success(w), EndWrite(w),
         device' = Applied(w) \/ (device' = device /\ ReadBackMatches(w)),
         unrecorded' = unrecorded \ Target(w)
  PROVE  OnlySettings' /\ ShownWritesHold'
<1>1. PollType /\ RestType /\ \A a \in Address : data[a] \in Entry
  BY TypeInvParts DEF ShownInv, PollType
<1>2. Target(w) \subseteq Setting /\ Target(w) \subseteq Address
  BY DEF ShownInv, OnlySettings, Target
<1>3. ASSUME NEW v \in Writer
      PROVE  Target(v)' \subseteq Setting
  <2>1. want'[v] = IF v = w THEN NothingWritten ELSE want[v]
    BY <1>1 DEF EndWrite, RestType
  <2>2. Target(v)' = IF v = w THEN {} ELSE Target(v)
    BY <2>1 DEF Target, NothingWritten
  <2> QED
    BY <2>2 DEF ShownInv, OnlySettings
<1>4. ASSUME NEW a \in Address
      PROVE  /\ data'[a].written # None => data'[a].watched /\ a \in Setting
             /\ data'[a].written \notin {None, device'[a]} => a \in unrecorded'
  <2>1. CASE a \in Target(w)
    <3>1. device'[a] = want[w][a]
      BY <2>1 DEF Applied, ReadBackMatches
    <3>2. CASE data[a].watched
      BY <1>1, <1>2, <2>1, <3>1, <3>2 DEF _record_write_success, Entry
    <3>3. CASE ~data[a].watched
      <4>1. data'[a] = data[a] /\ data[a].written = None
        BY <3>3 DEF _record_write_success, ShownInv, OnlySettings
      <4> QED
        BY <4>1
    <3> QED
      BY <3>2, <3>3
  <2>2. CASE a \notin Target(w)
    <3>1. data'[a] = data[a] /\ device'[a] = device[a]
      BY <2>2 DEF _record_write_success, Applied
    <3> QED
      BY <2>2, <3>1 DEF ShownInv, OnlySettings, ShownWritesHold
  <2> QED
    BY <2>1, <2>2
<1> QED
  BY <1>3, <1>4 DEF OnlySettings, ShownWritesHold

\* A write that nobody learns of is counted among the unrecorded.
LEMMA UnknownKeepsShown ==
  ASSUME ShownInv, NEW w \in Writer, data' = data,
         Taken(w) \/ UNCHANGED <<device, unrecorded>>,
         \A v \in Writer : Target(v)' \subseteq Setting
  PROVE  OnlySettings' /\ ShownWritesHold'
<1>1. ASSUME NEW a \in Address
      PROVE  data'[a].written \notin {None, device'[a]} => a \in unrecorded'
  <2>1. CASE Taken(w)
    BY <2>1 DEF Taken, Applied, ShownInv, ShownWritesHold
  <2>2. CASE UNCHANGED <<device, unrecorded>>
    BY <2>2 DEF ShownInv, ShownWritesHold
  <2> QED
    BY <2>1, <2>2
<1> QED
  BY <1>1 DEF ShownInv, OnlySettings, ShownWritesHold

LEMMA WriteKeepsShown ==
  ASSUME ShownInv, NEW w \in Writer, Write(w)
  PROVE  OnlySettings' /\ ShownWritesHold'
<1>1. PollType /\ RestType
  BY TypeInvParts DEF ShownInv
<1>2. CASE WriteAnswered(w)
  BY <1>2, RecordKeepsShown DEF WriteAnswered
<1>3. CASE WriteConfirmed(w)
  BY <1>3, RecordKeepsShown DEF WriteConfirmed, deviceVars
<1>4. CASE ~WriteAnswered(w) /\ ~WriteConfirmed(w)
  <2>1. data' = data /\ (Taken(w) \/ UNCHANGED <<device, unrecorded>>)
    BY <1>4 DEF Write, StartWrite, WriteServed, WriteUnanswered, WriteFailed,
                ReadBackDiffers, ReadBackRaises, ConfirmAgain, deviceVars
  <2>2. ASSUME NEW v \in Writer
        PROVE  Target(v)' \subseteq Setting
    <3>1. CASE StartWrite(w)
      <4>1. PICK block \in WriteBlock : \E values \in [block -> Value] :
              want' = [want EXCEPT ![w] = [a \in Address |->
                                             IF a \in block THEN values[a] ELSE None]]
        BY <3>1 DEF StartWrite
      <4>2. PICK values \in [block -> Value] :
              want' = [want EXCEPT ![w] = [a \in Address |->
                                             IF a \in block THEN values[a] ELSE None]]
        BY <4>1
      <4>3. block \subseteq Setting
        BY ConstantsAssumption
      <4>4. CASE v = w
        <5>1. want'[v] = [a \in Address |-> IF a \in block THEN values[a] ELSE None]
          BY <1>1, <4>2, <4>4 DEF RestType
        <5>2. Target(v)' \subseteq block
          BY <5>1 DEF Target
        <5> QED
          BY <4>3, <5>2
      <4>5. CASE v # w
        BY <4>2, <4>5 DEF Target, ShownInv, OnlySettings
      <4> QED
        BY <4>4, <4>5
    <3>2. CASE EndWrite(w)
      <4>1. want'[v] = IF v = w THEN NothingWritten ELSE want[v]
        BY <1>1, <3>2 DEF EndWrite, RestType
      <4>2. Target(v)' = IF v = w THEN {} ELSE Target(v)
        BY <4>1 DEF Target, NothingWritten
      <4> QED
        BY <4>2 DEF ShownInv, OnlySettings
    <3>3. CASE want' = want
      BY <3>3 DEF Target, ShownInv, OnlySettings
    <3> QED
      BY <1>4, <3>1, <3>2, <3>3
         DEF Write, WriteServed, WriteUnanswered, WriteFailed,
             ReadBackDiffers, ReadBackRaises, ConfirmAgain
  <2> QED
    BY <2>1, <2>2, UnknownKeepsShown
<1> QED
  BY <1>2, <1>3, <1>4

\* Time only clears written values, and the inverter changes no setting itself.
LEMMA EnvironmentKeepsShown ==
  ASSUME ShownInv, Environment
  PROVE  OnlySettings' /\ ShownWritesHold'
<1>1. PollType /\ RestType /\ \A a \in Address : data[a] \in Entry
  BY TypeInvParts DEF ShownInv, PollType
<1>2. ASSUME NEW b \in Address, WriteDelayOver(b)
      PROVE  OnlySettings' /\ ShownWritesHold'
  <2>1. /\ data' = [data EXCEPT ![b] = [data[b] EXCEPT !.written = None]]
        /\ UNCHANGED <<device, want, unrecorded>>
    BY <1>2 DEF WriteDelayOver, deviceVars, writeVars
  <2>2. \A a \in Address :
          \/ data'[a].written = None
          \/ data'[a].written = data[a].written /\ data'[a].watched = data[a].watched
    BY <1>1, <2>1 DEF PollType, Entry
  <2> QED
    BY <2>1, <2>2, WrittenKept
<1>3. ASSUME NEW b \in Address, InverterChanges(b)
      PROVE  OnlySettings' /\ ShownWritesHold'
  <2>1. /\ b \notin Setting /\ UNCHANGED <<data, want, unrecorded>>
        /\ \A a \in Address \ {b} : device'[a] = device[a]
    BY <1>1, <1>3 DEF InverterChanges, writeVars, RestType
  <2>2. data[b].written = None
    BY <2>1 DEF ShownInv, OnlySettings
  <2>3. \A w \in Writer : Target(w)' = Target(w)
    BY <2>1 DEF Target
  <2> QED
    BY <2>1, <2>2, <2>3 DEF ShownInv, OnlySettings, ShownWritesHold
<1>4. CASE LinkChanges
  BY <1>4, WrittenKept DEF LinkChanges, writeVars
<1> QED
  BY <1>2, <1>3, <1>4 DEF Environment

\* What an entity shows of a write is in the inverter, unless a later write was
\* taken without an answer: also when replies are lost, only read-backs vouch for
\* the write, and others write the same registers meanwhile (write_registers,
\* _confirm_write_succeeded, _record_write_success).
THEOREM ShownWritesAreHeld == Spec => []ShownWritesHold
<1>1. Init => OnlySettings /\ ShownWritesHold
  <2> SUFFICES ASSUME Init PROVE OnlySettings /\ ShownWritesHold
    OBVIOUS
  <2>1. \A a \in Address : data[a].written = None
    BY DEF Init, Absent
  <2>2. \A w \in Writer : Target(w) = {}
    BY DEF Init, Target, NothingWritten
  <2> QED
    BY <2>1, <2>2 DEF OnlySettings, ShownWritesHold
<1>2. ShownInv /\ [Next]_vars => OnlySettings' /\ ShownWritesHold'
  <2> SUFFICES ASSUME ShownInv, [Next]_vars
               PROVE  OnlySettings' /\ ShownWritesHold'
    OBVIOUS
  <2>1. CASE UNCHANGED vars
    BY <2>1, WrittenKept DEF vars, deviceVars, writeVars
  <2> QED
    BY <2>1, EntityKeepsShown, RefreshKeepsShown, WriteKeepsShown, EnvironmentKeepsShown
       DEF Next
<1>3. ShownInv <=> TypeInv /\ OnlySettings /\ ShownWritesHold
  BY DEF ShownInv
<1> QED
  BY <1>1, <1>2, <1>3, AlwaysTypeInv, PTL DEF Spec

Listened(a) == \E e \in listeners : a \in EntityAddresses[e]

LEMMA WatchedAlternative ==
  ASSUME listeners \subseteq Entity
  PROVE  WatchedByListeners <=> \A a \in Address : data[a].watched <=> Listened(a)
<1>1. \A e \in listeners : EntityAddresses[e] \subseteq Address
  BY ConstantsAssumption
<1> QED
  BY <1>1 DEF WatchedByListeners, Watched, Listened

LEMMA StepsKeepWatched ==
  ASSUME TypeInv, [Next]_vars,
         \A e \in Entity : ~register_modbus_entity(e) /\ ~remove_modbus_entity(e)
  PROVE  /\ listeners' = listeners
         /\ \A a \in Address : data'[a].watched = data[a].watched
<1>1. PollType /\ RestType /\ \A a \in Address : data[a] \in Entry
  BY TypeInvParts DEF PollType
<1>2. ASSUME NEW r \in Refresher, Refresh(r), NEW a \in Address
      PROVE  data'[a].watched = data[a].watched
  <2>1. \/ data' = data
        \/ \E reads, found : PollSucceeded(r, reads, found)
    BY <1>2 DEF Refresh, StartRefresh, AbortRefresh, ReadServed, ReadAnswered,
                ReadRefused, RegisterInvalid, ReadFailed, ReadDone, PollFailed,
                BecameConnected, BecameConnectedRaises, PollComplete, vars
  <2> QED
    BY <1>1, <2>1 DEF PollSucceeded, Entry
<1>3. ASSUME NEW w \in Writer, Write(w), NEW a \in Address
      PROVE  data'[a].watched = data[a].watched
  <2>1. data' = data \/ _record_write_success(w)
    BY <1>3 DEF Write, StartWrite, WriteServed, WriteAnswered, WriteUnanswered,
                WriteFailed, WriteConfirmed, ReadBackDiffers, ReadBackRaises, ConfirmAgain
  <2> QED
    BY <1>1, <2>1 DEF _record_write_success, Entry
<1>4. ASSUME NEW b \in Address, WriteDelayOver(b), NEW a \in Address
      PROVE  data'[a].watched = data[a].watched
  <2>1. data' = [data EXCEPT ![b] = [data[b] EXCEPT !.written = None]]
    BY <1>4 DEF WriteDelayOver
  <2> QED
    BY <1>1, <2>1 DEF PollType, Entry
<1>5. CASE Environment
  <2>1. /\ listeners' = listeners
        /\ data' = data \/ \E b \in Address : WriteDelayOver(b)
    BY <1>5 DEF Environment, LinkChanges, InverterChanges, WriteDelayOver
  <2> QED
    BY <1>4, <2>1
<1>6. ASSUME NEW w \in Writer, Write(w)
      PROVE  listeners' = listeners
  BY <1>6 DEF Write, StartWrite, WriteServed, WriteAnswered, WriteUnanswered,
              WriteFailed, WriteConfirmed, ReadBackDiffers, ReadBackRaises, ConfirmAgain
<1>7. CASE UNCHANGED vars
  BY <1>7 DEF vars
<1> QED
  BY <1>2, <1>3, <1>5, <1>6, <1>7, RefreshOfConnection DEF Next

\* An address has an entry in the cache exactly while some listener wants it,
\* also when listeners share it (register_modbus_entity, remove_modbus_entity).
THEOREM WatchedExactly == Spec => []WatchedByListeners
<1>1. Init => WatchedByListeners
  <2> SUFFICES ASSUME Init PROVE WatchedByListeners
    OBVIOUS
  <2>1. listeners = {} /\ \A a \in Address : ~data[a].watched
    BY DEF Init, Absent
  <2> QED
    BY <2>1, WatchedAlternative DEF Listened
<1>2. TypeInv /\ WatchedByListeners /\ [Next]_vars => WatchedByListeners'
  <2> SUFFICES ASSUME TypeInv, WatchedByListeners, [Next]_vars
               PROVE  WatchedByListeners'
    OBVIOUS
  <2>1. PollType /\ RestType /\ TypeInv'
    BY TypeInvParts, NextType
  <2>2. \A a \in Address : data[a].watched <=> Listened(a)
    BY <2>1, WatchedAlternative DEF RestType
  <2>3. (listeners \subseteq Entity)'
    BY <2>1 DEF TypeInv, TypeOK
  <2>4. SUFFICES \A a \in Address : data'[a].watched <=> Listened(a)'
    <3>1. (listeners \subseteq Entity
             => (WatchedByListeners <=> \A a \in Address : data[a].watched <=> Listened(a)))'
      BY WatchedAlternative, PTL
    <3> QED
      BY <2>3, <3>1
  <2>5. ASSUME NEW a \in Address, NEW e \in Entity, register_modbus_entity(e)
        PROVE  data'[a].watched <=> Listened(a)'
    <3>1. listeners' = listeners \cup {e}
      BY <2>5 DEF register_modbus_entity
    <3>2. data'[a].watched <=> data[a].watched \/ a \in EntityAddresses[e]
      BY <2>5 DEF register_modbus_entity, Absent
    <3> QED
      BY <2>2, <3>1, <3>2 DEF Listened
  <2>6. ASSUME NEW a \in Address, NEW e \in Entity, remove_modbus_entity(e)
        PROVE  data'[a].watched <=> Listened(a)'
    <3>1. listeners' = listeners \ {e} /\ e \in listeners
      BY <2>6 DEF remove_modbus_entity
    <3>2. a \in UnusedWithout(e) <=> a \in EntityAddresses[e] /\ ~Listened(a)'
      BY <3>1 DEF UnusedWithout, Listened
    <3>3. data'[a].watched <=> data[a].watched /\ a \notin UnusedWithout(e)
      BY <2>6 DEF remove_modbus_entity, Absent
    <3> QED
      BY <2>2, <3>1, <3>2, <3>3 DEF Listened
  <2>7. CASE \A e \in Entity : ~register_modbus_entity(e) /\ ~remove_modbus_entity(e)
    BY <2>2, <2>7, StepsKeepWatched DEF Listened
  <2> QED
    BY <2>5, <2>6, <2>7
<1> QED
  BY <1>1, <1>2, AlwaysTypeInv, PTL DEF Spec

-------------------------------------------------------------------------------
(***************************************************************************)
(* The queue for the client.                                               *)
(***************************************************************************)

InQueue(q, t) == \E i \in DOMAIN q : q[i] = t

NoneTwice(q) == \A i, j \in DOMAIN q : q[i] = q[j] => i = j

Waiting(t) ==
  \/ t \in Refresher /\ rpc[t] = "reading"
  \/ t \in Writer /\ wpc[t] \in {"writing", "confirming"}

LEMMA Joined ==
  ASSUME NEW q \in Seq(Task), NoneTwice(q), NEW t \in Task, ~InQueue(q, t)
  PROVE  /\ NoneTwice(Append(q, t))
         /\ \A u : InQueue(Append(q, t), u) <=> InQueue(q, u) \/ u = t
<1> DEFINE new == Append(q, t)
<1>1. /\ Len(q) \in Nat /\ DOMAIN q = 1 .. Len(q) /\ DOMAIN new = 1 .. Len(q) + 1
      /\ \A i \in 1 .. Len(q) : new[i] = q[i]
      /\ new[Len(q) + 1] = t
  OBVIOUS
<1> HIDE DEF new
<1>2. \A i \in DOMAIN new : i \in DOMAIN q \/ i = Len(q) + 1
  BY <1>1
<1>3. NoneTwice(new)
  BY <1>1, <1>2 DEF NoneTwice, InQueue
<1>4. ASSUME NEW u
      PROVE  InQueue(new, u) <=> InQueue(q, u) \/ u = t
  BY <1>1, <1>2 DEF InQueue
<1> QED
  BY <1>3, <1>4 DEF new

LEMMA Gone ==
  ASSUME NEW q \in Seq(Task), q # <<>>, NoneTwice(q)
  PROVE  /\ Tail(q) \in Seq(Task)
         /\ NoneTwice(Tail(q))
         /\ \A u : InQueue(Tail(q), u) <=> InQueue(q, u) /\ u # Head(q)
<1> DEFINE new == Tail(q)
<1>1. /\ Len(q) \in Nat \ {0} /\ DOMAIN q = 1 .. Len(q) /\ DOMAIN new = 1 .. Len(q) - 1
      /\ \A i \in 1 .. Len(q) - 1 : new[i] = q[i + 1]
      /\ Head(q) = q[1]
      /\ new \in Seq(Task)
  OBVIOUS
<1> HIDE DEF new
<1>2. NoneTwice(new)
  <2> SUFFICES ASSUME NEW i \in DOMAIN new, NEW j \in DOMAIN new, new[i] = new[j]
               PROVE  i = j
    BY DEF NoneTwice
  <2>1. i + 1 \in DOMAIN q /\ j + 1 \in DOMAIN q /\ q[i + 1] = q[j + 1]
    BY <1>1
  <2>2. i + 1 = j + 1
    BY <2>1 DEF NoneTwice
  <2> QED
    BY <1>1, <2>2
<1>3. ASSUME NEW u
      PROVE  InQueue(new, u) <=> InQueue(q, u) /\ u # Head(q)
  <2>1. ASSUME NEW i \in DOMAIN new, new[i] = u
        PROVE  InQueue(q, u) /\ u # Head(q)
    <3>1. i + 1 \in DOMAIN q /\ q[i + 1] = u /\ i + 1 # 1 /\ 1 \in DOMAIN q
      BY <1>1, <2>1
    <3> QED
      BY <1>1, <3>1 DEF InQueue, NoneTwice
  <2>2. ASSUME NEW i \in DOMAIN q, q[i] = u, u # Head(q)
        PROVE  InQueue(new, u)
    <3>1. i - 1 \in DOMAIN new /\ new[i - 1] = u
      BY <1>1, <2>2
    <3> QED
      BY <3>1 DEF InQueue
  <2> QED
    BY <2>1, <2>2 DEF InQueue
<1> QED
  BY <1>1, <1>2, <1>3 DEF new

\* What one coroutine's step may do to the queue: join it, leave it from its head,
\* or both; and whether it waits afterwards.
QueueStep(t) ==
  \/ bus' = bus /\ (Waiting(t)' <=> Waiting(t))
  \/ bus' = Append(bus, t) /\ ~Waiting(t) /\ Waiting(t)'
  \/ bus' = Tail(bus) /\ AtHead(t) /\ ~Waiting(t)'
  \/ bus' = Append(Tail(bus), t) /\ AtHead(t) /\ Waiting(t)'

LEMMA QueueStepKeeps ==
  ASSUME bus \in Seq(Task), WaitsAreQueued, NEW t \in Task, QueueStep(t),
         \A u \in Task \ {t} : Waiting(u)' <=> Waiting(u)
  PROVE  WaitsAreQueued'
<1>1. NoneTwice(bus) /\ \A u \in Task : InQueue(bus, u) <=> Waiting(u)
  BY DEF WaitsAreQueued, NoneTwice, InQueue, Waiting
<1>2. SUFFICES NoneTwice(bus') /\ \A u \in Task : InQueue(bus', u) <=> Waiting(u)'
  BY DEF WaitsAreQueued, NoneTwice, InQueue, Waiting
<1>3. CASE bus' = bus /\ (Waiting(t)' <=> Waiting(t))
  BY <1>1, <1>3
<1>4. CASE bus' = Append(bus, t) /\ ~Waiting(t) /\ Waiting(t)'
  BY <1>1, <1>4, Joined
<1>5. CASE bus' = Tail(bus) /\ AtHead(t) /\ ~Waiting(t)'
  BY <1>1, <1>5, Gone DEF AtHead
<1>6. CASE bus' = Append(Tail(bus), t) /\ AtHead(t) /\ Waiting(t)'
  <2>1. /\ Tail(bus) \in Seq(Task) /\ NoneTwice(Tail(bus))
        /\ \A u : InQueue(Tail(bus), u) <=> InQueue(bus, u) /\ u # t
    BY <1>1, <1>6, Gone DEF AtHead
  <2>2. /\ NoneTwice(bus')
        /\ \A u : InQueue(bus', u) <=> InQueue(Tail(bus), u) \/ u = t
    BY <1>6, <2>1, Joined
  <2> QED
    BY <1>1, <1>6, <2>1, <2>2
<1> QED
  BY <1>3, <1>4, <1>5, <1>6 DEF QueueStep

LEMMA RefreshWaits ==
  ASSUME PollType, NEW r \in Refresher, NEW phase,
         rpc' = [rpc EXCEPT ![r] = phase], UNCHANGED writeVars
  PROVE  /\ r \in Task
         /\ Waiting(r) <=> rpc[r] = "reading"
         /\ Waiting(r)' <=> phase = "reading"
         /\ \A u \in Task \ {r} : Waiting(u)' <=> Waiting(u)
<1>1. r \in Task /\ r \notin Writer
  BY ConstantsAssumption DEF Task
<1>2. rpc'[r] = phase /\ \A u \in Refresher \ {r} : rpc'[u] = rpc[u]
  BY DEF PollType
<1> QED
  BY <1>1, <1>2 DEF Waiting, writeVars

LEMMA RefreshQueues ==
  ASSUME PollType, RestType, WaitsAreQueued, NEW r \in Refresher, Refresh(r)
  PROVE  WaitsAreQueued'
<1>1. UNCHANGED writeVars
  BY DEF Refresh, StartRefresh, AbortRefresh, ReadServed, ReadAnswered, ReadRefused,
         RegisterInvalid, ReadFailed, BecameConnected, BecameConnectedRaises,
         PollComplete, vars
<1>2. ASSUME NEW phase, rpc' = [rpc EXCEPT ![r] = phase],
             \/ bus' = bus /\ (phase = "reading" <=> rpc[r] = "reading")
             \/ bus' = Append(bus, r) /\ rpc[r] # "reading" /\ phase = "reading"
             \/ bus' = Tail(bus) /\ AtHead(r) /\ phase # "reading"
             \/ bus' = Append(Tail(bus), r) /\ AtHead(r) /\ phase = "reading"
      PROVE  WaitsAreQueued'
  <2>1. /\ r \in Task /\ QueueStep(r)
        /\ \A u \in Task \ {r} : Waiting(u)' <=> Waiting(u)
    BY <1>1, <1>2, RefreshWaits DEF QueueStep
  <2> QED
    BY <2>1, QueueStepKeeps DEF RestType
<1>3. ASSUME NEW reads, NEW found, PollSucceeded(r, reads, found) \/ PollFailed(r)
      PROVE  \E phase : phase # "reading" /\ rpc' = [rpc EXCEPT ![r] = phase]
  BY <1>3, PollEndGoes DEF GoesTo
<1>4. rpc' = rpc => rpc' = [rpc EXCEPT ![r] = rpc[r]]
  BY DEF PollType
<1>5. CASE StartRefresh(r)
  <2>1. rpc[r] = "idle"
    BY <1>5 DEF StartRefresh
  <2>2. CASE PollSucceeded(r, NothingRead, detected) /\ bus' = bus
    BY <1>2, <1>3, <2>1, <2>2
  <2>3. CASE rpc' = [rpc EXCEPT ![r] = "reading"] /\ bus' = Append(bus, r)
    BY <1>2, <2>1, <2>3
  <2> QED
    BY <1>5, <2>2, <2>3 DEF StartRefresh
<1>6. CASE ReadServed(r)
  <2>1. rpc[r] = "reading" /\ AtHead(r)
    BY <1>6 DEF ReadServed, ReadAnswered, ReadRefused, RegisterInvalid, ReadFailed
  <2>2. CASE PollFailed(r) /\ bus' = Tail(bus)
    BY <1>2, <1>3, <2>1, <2>2
  <2>3. CASE UNCHANGED rpc /\ bus' = Append(Tail(bus), r)
    BY <1>2, <1>4, <2>1, <2>3
  <2>4. ASSUME NEW result, ReadDone(r, result)
        PROVE  \/ PollSucceeded(r, result, detected') /\ bus' = Tail(bus)
               \/ UNCHANGED rpc /\ bus' = Append(Tail(bus), r)
    BY <2>4 DEF ReadDone
  <2>5. ASSUME NEW result, PollSucceeded(r, result, detected'), bus' = Tail(bus)
        PROVE  WaitsAreQueued'
    BY <1>2, <1>3, <2>1, <2>5
  <2> QED
    BY <1>6, <2>2, <2>3, <2>4, <2>5
       DEF ReadServed, ReadAnswered, ReadRefused, RegisterInvalid, ReadFailed
<1>7. CASE BecameConnected(r)
  <2>1. \E phase : phase # "reading" /\ rpc' = [rpc EXCEPT ![r] = phase]
    BY <1>7, LeaveRefreshGoes DEF BecameConnected, GoesTo
  <2> QED
    BY <1>2, <1>7, <2>1 DEF BecameConnected
<1>8. CASE BecameConnectedRaises(r) \/ PollComplete(r)
  BY <1>2, <1>8 DEF BecameConnectedRaises, PollComplete
<1>9. CASE AbortRefresh(r)
  BY <1>2, <1>4, <1>9 DEF AbortRefresh, vars, refreshVars
<1> QED
  BY <1>5, <1>6, <1>7, <1>8, <1>9 DEF Refresh

LEMMA WriteWaits ==
  ASSUME RestType, NEW w \in Writer, NEW phase,
         wpc' = [wpc EXCEPT ![w] = phase], UNCHANGED refreshVars
  PROVE  /\ w \in Task
         /\ Waiting(w) <=> wpc[w] \in {"writing", "confirming"}
         /\ Waiting(w)' <=> phase \in {"writing", "confirming"}
         /\ \A u \in Task \ {w} : Waiting(u)' <=> Waiting(u)
<1>1. w \in Task /\ w \notin Refresher
  BY ConstantsAssumption DEF Task
<1>2. wpc'[w] = phase /\ \A u \in Writer \ {w} : wpc'[u] = wpc[u]
  BY DEF RestType
<1> QED
  BY <1>1, <1>2 DEF Waiting, refreshVars

LEMMA WriteQueues ==
  ASSUME RestType, WaitsAreQueued, NEW w \in Writer, Write(w)
  PROVE  WaitsAreQueued'
<1>1. UNCHANGED refreshVars
  BY DEF Write, StartWrite, WriteServed, WriteAnswered, WriteUnanswered,
         WriteFailed, WriteConfirmed, ReadBackDiffers, ReadBackRaises, ConfirmAgain
<1>2. ASSUME NEW phase, wpc' = [wpc EXCEPT ![w] = phase],
             \/ /\ bus' = Append(bus, w)
                /\ wpc[w] \in {"idle", "sleeping"} /\ phase \in {"writing", "confirming"}
             \/ bus' = Tail(bus) /\ AtHead(w) /\ phase \in {"idle", "sleeping"}
             \/ bus' = Append(Tail(bus), w) /\ AtHead(w) /\ phase = "confirming"
      PROVE  WaitsAreQueued'
  <2>1. /\ w \in Task /\ QueueStep(w)
        /\ \A u \in Task \ {w} : Waiting(u)' <=> Waiting(u)
    BY <1>1, <1>2, WriteWaits DEF QueueStep
  <2> QED
    BY <2>1, QueueStepKeeps DEF RestType
<1>3. CASE StartWrite(w)
  BY <1>2, <1>3 DEF StartWrite
<1>4. CASE ConfirmAgain(w)
  BY <1>2, <1>4 DEF ConfirmAgain
<1>5. CASE WriteUnanswered(w)
  BY <1>2, <1>5 DEF WriteUnanswered
<1>6. CASE EndWrite(w) /\ bus' = Tail(bus) /\ AtHead(w)
  BY <1>2, <1>6 DEF EndWrite
<1>7. CASE ReadBackDiffers(w) /\ ~EndWrite(w)
  BY <1>2, <1>7 DEF ReadBackDiffers
<1> QED
  BY <1>3, <1>4, <1>5, <1>6, <1>7
     DEF Write, WriteServed, WriteAnswered, WriteFailed, WriteConfirmed,
         ReadBackDiffers, ReadBackRaises

\* Whoever waits for the client stands in its queue once, and nobody else does: the
\* reply at the head is always its caller's (read_registers, write_registers).
THEOREM CallersWaitOnce == Spec => []WaitsAreQueued
<1>1. Init => WaitsAreQueued
  BY DEF Init, WaitsAreQueued
<1>2. TypeInv /\ WaitsAreQueued /\ [Next]_vars => WaitsAreQueued'
  <2> SUFFICES ASSUME TypeInv, WaitsAreQueued, [Next]_vars
               PROVE  WaitsAreQueued'
    OBVIOUS
  <2>1. PollType /\ RestType
    BY TypeInvParts
  <2>2. ASSUME NEW r \in Refresher, Refresh(r)
        PROVE  WaitsAreQueued'
    BY <2>1, <2>2, RefreshQueues
  <2>3. ASSUME NEW w \in Writer, Write(w)
        PROVE  WaitsAreQueued'
    BY <2>1, <2>3, WriteQueues
  <2>4. CASE UNCHANGED <<bus, rpc, wpc>>
    BY <2>4 DEF WaitsAreQueued
  <2>5. ASSUME NEW e \in Entity, register_modbus_entity(e) \/ remove_modbus_entity(e)
        PROVE  UNCHANGED <<bus, rpc, wpc>>
    BY <2>5 DEF register_modbus_entity, remove_modbus_entity, refreshVars, writeVars
  <2>6. CASE Environment
    BY <2>4, <2>6 DEF Environment, LinkChanges, WriteDelayOver, InverterChanges,
                      refreshVars, writeVars
  <2>7. CASE UNCHANGED vars
    BY <2>4, <2>7 DEF vars, refreshVars, writeVars
  <2> QED
    BY <2>2, <2>3, <2>4, <2>5, <2>6, <2>7 DEF Next
<1> QED
  BY <1>1, <1>2, AlwaysTypeInv, PTL DEF Spec

-------------------------------------------------------------------------------
(***************************************************************************)
(* The inductive invariant.  While a poll is under way every register that *)
(* has a value to lose is read, or is still to be read, or is one that is  *)
(* read on connection only.  A register that the poll passes over because  *)
(* it was found invalid has no value: it was invalid all along.            *)
(***************************************************************************)

HasValue(a) == data[a].watched /\ data[a].read # None

IsCovered(r, a) ==
  \/ got[r][a].read
  \/ a \in singles[r]
  \/ \E i \in DOMAIN plan[r] : a \in plan[r][i]

Exempt(a) == a \in OnConnection /\ connection = "CONNECTED"

PollCovers ==
  \A r \in Refresher : rpc[r] = "reading" =>
    \A a \in Address : HasValue(a) => IsCovered(r, a) \/ Exempt(a)

OnlyLegalHaveValues ==
  /\ detected \subseteq illegal
  /\ \A a \in Address : data[a].read # None => a \notin illegal
  /\ \A r \in Refresher : \A a \in Address : got[r][a].value # None => a \notin illegal

CoverageInv == PollCovers /\ OnlyLegalHaveValues /\ NoRegisterLeftBehind

IInv == TypeInv /\ OneRefreshAtATime /\ CoverageInv

-------------------------------------------------------------------------------
(***************************************************************************)
(* Steps that bring no register a value and no refresh a read.             *)
(***************************************************************************)

\* No register gets a value, or an entry beside the value that it has.
ValuesKept ==
  \A a \in Address :
    \/ data'[a].read = None
    \/ data'[a].read = data[a].read /\ data'[a].watched = data[a].watched

LEMMA QuietStep ==
  ASSUME CoverageInv, ValuesKept, UNCHANGED <<illegal, detected, connection>>,
         stale' \subseteq stale,
         \A r \in Refresher :
           /\ rpc'[r] = "reading" =>
                rpc[r] = "reading" /\ plan'[r] = plan[r] /\ singles'[r] = singles[r]
                  /\ got'[r] = got[r]
           /\ got'[r] = got[r] \/ got'[r] = NothingRead
  PROVE  CoverageInv'
<1>1. \A a \in Address : HasValue(a)' => HasValue(a)
  BY DEF ValuesKept, HasValue
<1>2. PollCovers'
  BY <1>1 DEF CoverageInv, PollCovers, IsCovered, Exempt
<1>3. \A a \in Address : NothingRead[a].value = None
  BY DEF NothingRead, NotRead
<1>4. OnlyLegalHaveValues'
  BY <1>3 DEF CoverageInv, OnlyLegalHaveValues, ValuesKept
<1> QED
  BY <1>2, <1>4 DEF CoverageInv, NoRegisterLeftBehind

LEMMA EntityIsQuiet ==
  ASSUME TypeInv, NEW e \in Entity, register_modbus_entity(e) \/ remove_modbus_entity(e)
  PROVE  ValuesKept /\ UNCHANGED <<illegal, detected, connection, refreshVars>>
           /\ stale' \subseteq stale
<1>1. Absent.read = None /\ [Absent EXCEPT !.watched = TRUE].read = None
  BY DEF Absent
<1>2. ASSUME NEW a \in Address
      PROVE  \/ data'[a] = Absent \/ data'[a] = [Absent EXCEPT !.watched = TRUE]
             \/ data'[a] = data[a]
  BY DEF register_modbus_entity, remove_modbus_entity
<1>3. ValuesKept
  BY <1>1, <1>2 DEF ValuesKept
<1> QED
  BY <1>3 DEF register_modbus_entity, remove_modbus_entity, deviceVars

LEMMA WriteIsQuiet ==
  ASSUME TypeInv, NEW w \in Writer, Write(w)
  PROVE  ValuesKept /\ UNCHANGED <<illegal, detected, connection, refreshVars, stale>>
<1>1. \A a \in Address : data[a] \in Entry
  BY TypeInvParts DEF PollType
<1>2. data' = data \/ _record_write_success(w)
  BY DEF Write, StartWrite, WriteServed, WriteAnswered, WriteUnanswered,
         WriteFailed, WriteConfirmed, ReadBackDiffers, ReadBackRaises, ConfirmAgain
<1>3. ValuesKept
  BY <1>1, <1>2 DEF _record_write_success, Entry, ValuesKept
<1>4. UNCHANGED <<illegal, detected, connection, refreshVars, stale>>
  BY DEF Write, StartWrite, WriteServed, WriteAnswered, WriteUnanswered, WriteFailed,
         WriteConfirmed, ReadBackDiffers, ReadBackRaises, ConfirmAgain, deviceVars,
         connectionVars
<1> QED
  BY <1>3, <1>4

LEMMA EnvironmentIsQuiet ==
  ASSUME TypeInv, Environment
  PROVE  ValuesKept /\ UNCHANGED <<illegal, detected, connection, refreshVars, stale>>
<1>1. \A a \in Address : data[a] \in Entry
  BY TypeInvParts DEF PollType
<1>2. data' = data \/ \E b \in Address : data' = [data EXCEPT ![b].written = None]
  BY DEF Environment, WriteDelayOver, InverterChanges, LinkChanges
<1>3. ASSUME NEW b \in Address, data' = [data EXCEPT ![b].written = None]
      PROVE  ValuesKept
  <2>1. data' = [data EXCEPT ![b] = [data[b] EXCEPT !.written = None]]
    BY <1>3
  <2> QED
    BY <1>1, <2>1, TypeInvParts DEF PollType, Entry, ValuesKept
<1>4. ASSUME data' = data
      PROVE  ValuesKept
  BY <1>4 DEF ValuesKept
<1>5. UNCHANGED <<illegal, detected, connection, refreshVars, stale>>
  BY DEF Environment, WriteDelayOver, InverterChanges, LinkChanges, deviceVars,
         connectionVars
<1> QED
  BY <1>2, <1>3, <1>4, <1>5

\* Whatever is not a refresh is quiet.
LEMMA OthersKeepCoverage ==
  ASSUME TypeInv, CoverageInv, [Next]_vars, \A r \in Refresher : ~Refresh(r)
  PROVE  /\ CoverageInv'
         /\ connection' = connection
<1>1. /\ ValuesKept
      /\ UNCHANGED <<illegal, detected, connection, refreshVars>>
      /\ stale' \subseteq stale
  <2>1. CASE UNCHANGED vars
    BY <2>1 DEF vars, deviceVars, connectionVars, ValuesKept
  <2>2. ASSUME NEW e \in Entity, register_modbus_entity(e) \/ remove_modbus_entity(e)
        PROVE  /\ ValuesKept
               /\ UNCHANGED <<illegal, detected, connection, refreshVars>>
               /\ stale' \subseteq stale
    BY <2>2, EntityIsQuiet
  <2>3. ASSUME NEW w \in Writer, Write(w)
        PROVE  /\ ValuesKept
               /\ UNCHANGED <<illegal, detected, connection, refreshVars>>
               /\ stale' \subseteq stale
    BY <2>3, WriteIsQuiet
  <2>4. CASE Environment
    BY <2>4, EnvironmentIsQuiet
  <2> QED
    BY <2>1, <2>2, <2>3, <2>4 DEF Next
<1>2. UNCHANGED <<rpc, plan, singles, got>>
  BY <1>1 DEF refreshVars
<1> QED
  BY <1>1, <1>2, QuietStep

\* A refresh is quiet before it has the lock and after its reads.
LEMMA CallbackKeepsCoverage ==
  ASSUME TypeInv, CoverageInv, NEW r \in Refresher,
         AbortRefresh(r) \/ BecameConnected(r) \/ BecameConnectedRaises(r) \/ PollComplete(r)
  PROVE  /\ CoverageInv'
         /\ connection' = connection
<1>1. PollType
  BY TypeInvParts
<1>2. UNCHANGED <<data, illegal, detected, connection, stale, plan, singles, got>>
  BY DEF AbortRefresh, BecameConnected, BecameConnectedRaises, PollComplete, vars,
         deviceVars, connectionVars, refreshVars
<1>3. \A s \in Refresher : rpc'[s] = rpc[s] \/ rpc'[s] # "reading"
  BY <1>1 DEF AbortRefresh, BecameConnected, BecameConnectedRaises, PollComplete, vars,
              refreshVars, LeaveRefresh, PollType
<1>4. ValuesKept
  BY <1>2 DEF ValuesKept
<1> QED
  BY <1>2, <1>3, <1>4, QuietStep

-------------------------------------------------------------------------------
(***************************************************************************)
(* The end of a poll.                                                      *)
(***************************************************************************)

\* Once the one refresh that holds the lock has ended its poll, none is reading.
LEMMA NobodyReadsAfter ==
  ASSUME TypeInv, OneRefreshAtATime, NEW r \in Refresher, NEW reads, NEW found,
         Locked(r) \/ ~refreshLock, PollSucceeded(r, reads, found) \/ PollFailed(r)
  PROVE  \A s \in Refresher : rpc'[s] # "reading"
<1>1. PICK phase \in {"idle", "poll_complete", "became_connected"} : GoesTo(r, phase)
  BY PollEndGoes
<1>2. \A s \in Refresher \ {r} : rpc[s] # "reading"
  BY DEF OneRefreshAtATime, Locked, LockedPhases
<1>3. rpc \in [Refresher -> LockedPhases \cup {"idle", "poll_complete"}]
  BY TypeInvParts DEF PollType
<1> QED
  BY <1>1, <1>2, <1>3 DEF GoesTo

\* A poll that succeeds leaves only those registers behind which it did not want
\* to read, none of which has a value unless the controller was connected.
LEMMA PollSucceededCovers ==
  ASSUME IInv, NEW r \in Refresher, NEW reads, NEW found,
         Locked(r) \/ ~refreshLock, PollSucceeded(r, reads, found),
         \A a \in Address : HasValue(a) => reads[a].read \/ Exempt(a),
         \A a \in Address : reads[a].value # None => a \notin illegal,
         illegal' = illegal, detected' \subseteq illegal
  PROVE  /\ CoverageInv'
         /\ connection # "CONNECTED" => stale' = {}
<1>1. PollCovers'
  BY NobodyReadsAfter DEF IInv, PollCovers
<1>2. \A a \in stale' : Exempt(a)
  BY DEF PollSucceeded, Watched, HasValue
<1>3. NoRegisterLeftBehind' /\ (connection # "CONNECTED" => stale' = {})
  BY <1>2 DEF NoRegisterLeftBehind, Exempt
<1>4. ASSUME NEW a \in Address, data'[a].read # None
      PROVE  a \notin illegal
  <2>1. data[a] \in Entry
    BY TypeInvParts DEF IInv, PollType
  <2>2. data'[a] = data[a] \/ data'[a] = [data[a] EXCEPT !.read = reads[a].value]
    BY DEF PollSucceeded
  <2>3. data'[a].read = data[a].read \/ data'[a].read = reads[a].value
    BY <2>1, <2>2 DEF Entry
  <2> QED
    BY <1>4, <2>3 DEF IInv, CoverageInv, OnlyLegalHaveValues
<1>5. ASSUME NEW s \in Refresher, NEW a \in Address, got'[s][a].value # None
      PROVE  a \notin illegal
  <2>1. got \in [Refresher -> [Address -> ReadResult]]
    BY TypeInvParts DEF IInv, PollType
  <2>2. got'[s] = got[s] \/ got'[s] = NothingRead
    BY <2>1 DEF PollSucceeded, ForgetReads
  <2>3. NothingRead[a].value = None
    BY DEF NothingRead, NotRead
  <2> QED
    BY <1>5, <2>2, <2>3 DEF IInv, CoverageInv, OnlyLegalHaveValues
<1> QED
  BY <1>1, <1>3, <1>4, <1>5 DEF CoverageInv, OnlyLegalHaveValues

LEMMA PollFailedCovers ==
  ASSUME IInv, NEW r \in Refresher, Locked(r), PollFailed(r),
         UNCHANGED <<illegal, detected>>
  PROVE  CoverageInv'
<1>1. \A s \in Refresher : rpc'[s] # "reading"
  BY NobodyReadsAfter DEF IInv
<1>2. got \in [Refresher -> [Address -> ReadResult]]
  BY TypeInvParts DEF IInv, PollType
<1>3. \A s \in Refresher : got'[s] = got[s] \/ got'[s] = NothingRead
  BY <1>2 DEF PollFailed, ForgetReads
<1>4. \A a \in Address : NothingRead[a].value = None
  BY DEF NothingRead, NotRead
<1>5. data' = data /\ stale' = stale
  BY DEF PollFailed
<1> QED
  BY <1>1, <1>3, <1>4, <1>5
     DEF IInv, CoverageInv, PollCovers, OnlyLegalHaveValues, NoRegisterLeftBehind

-------------------------------------------------------------------------------
(***************************************************************************)
(* The reads of a poll.                                                    *)
(***************************************************************************)

\* The plan of a poll covers all that has a value, but for what is read on
\* connection only: what was found invalid has none.
LEMMA PollSetCovers ==
  ASSUME IInv, NEW a \in Address, HasValue(a)
  PROVE  \/ Exempt(a)
         \/ \E i \in DOMAIN ReadPlan(PollSet) : a \in ReadPlan(PollSet)[i]
<1>1. a \notin detected
  BY DEF IInv, CoverageInv, OnlyLegalHaveValues, HasValue
<1>2. a \in PollSet \/ Exempt(a)
  BY <1>1 DEF PollSet, Watched, HasValue, Exempt
<1>3. PollSet \in SUBSET Address
  BY DEF PollSet, Watched
<1> QED
  BY <1>2, <1>3, ReadPlanCovers

LEMMA StartRefreshCovers ==
  ASSUME IInv, NEW r \in Refresher, StartRefresh(r)
  PROVE  /\ CoverageInv'
         /\ connection # "CONNECTED" /\ connection' = "CONNECTED" => stale' = {}
<1> DEFINE planned == ReadPlan(PollSet)
<1>1. /\ PollType
      /\ ~refreshLock
      /\ illegal' = illegal /\ detected' = detected /\ detected \subseteq illegal
  BY TypeInvParts DEF IInv, CoverageInv, OnlyLegalHaveValues, StartRefresh,
                      _acquire_nonblocking, deviceVars
<1>2. \A a \in Address :
        HasValue(a) => Exempt(a) \/ \E i \in DOMAIN planned : a \in planned[i]
  BY PollSetCovers
<1>3. CASE planned = <<>>
  <2>1. PollSucceeded(r, NothingRead, detected)
    BY <1>3 DEF StartRefresh
  <2>2. \A a \in Address : NothingRead[a].value = None
    BY DEF NothingRead, NotRead
  <2>3. \A a \in Address : HasValue(a) => Exempt(a)
    BY <1>2, <1>3
  <2> QED
    BY <1>1, <2>1, <2>2, <2>3, PollSucceededCovers
<1>4. CASE planned # <<>>
  <2>1. /\ rpc' = [rpc EXCEPT ![r] = "reading"]
        /\ plan' = [plan EXCEPT ![r] = planned]
        /\ UNCHANGED <<data, stale, connectionVars, singles, got>>
    BY <1>4 DEF StartRefresh
  <2>2. ~Locked(r) /\ \A s \in Refresher : rpc[s] # "reading"
    BY <1>1 DEF IInv, OneRefreshAtATime, Locked, LockedPhases
  <2> HIDE DEF planned
  <2>3. connection' = connection
    BY <2>1 DEF connectionVars
  <2>4. PollCovers'
    <3>1. \A s \in Refresher : rpc'[s] = "reading" => s = r
      BY <1>1, <2>1, <2>2 DEF PollType
    <3>2. plan'[r] = planned
      BY <1>1, <2>1 DEF PollType
    <3> QED
      BY <1>2, <2>1, <2>3, <3>1, <3>2 DEF PollCovers, HasValue, Exempt, IsCovered
  <2> QED
    BY <1>1, <2>1, <2>3, <2>4
       DEF IInv, CoverageInv, OnlyLegalHaveValues, NoRegisterLeftBehind
<1> QED
  BY <1>3, <1>4

\* The request reads all that the step takes off the plan.
LEMMA RequestTaken ==
  ASSUME PollType, NEW r \in Refresher, rpc[r] = "reading", NEW a \in Address
  PROVE  /\ a \in singles[r] => a \in Request(r) \/ a \in singles[r] \ Request(r)
         /\ singles[r] = {} =>
              \A i \in DOMAIN plan[r] : a \in plan[r][i] =>
                \/ a \in Request(r)
                \/ \E j \in DOMAIN Tail(plan[r]) : a \in Tail(plan[r])[j]
<1>1. SUFFICES ASSUME singles[r] = {}, NEW i \in DOMAIN plan[r], a \in plan[r][i]
               PROVE  \/ a \in Request(r)
                      \/ \E j \in DOMAIN Tail(plan[r]) : a \in Tail(plan[r])[j]
  OBVIOUS
<1> DEFINE p == plan[r]
<1>2. p \in Seq(SUBSET Address) /\ p # <<>> /\ Request(r) = Head(p)
  BY <1>1 DEF PollType, HasRequest, Request
<1> HIDE DEF p
<1>3. CASE i = 1
  BY <1>1, <1>2, <1>3 DEF p
<1>4. CASE i # 1
  <2>1. i \in 1 .. Len(p) /\ i - 1 \in 1 .. Len(Tail(p))
    BY <1>1, <1>2, <1>4 DEF p
  <2>2. Tail(p)[i - 1] = p[i] /\ i - 1 \in DOMAIN Tail(p)
    BY <1>2, <2>1
  <2> QED
    BY <1>1, <2>2 DEF p
<1> QED
  BY <1>3, <1>4

\* A register is found invalid by itself.
LEMMA SinglesAreAlone ==
  ASSUME PollType, NEW r \in Refresher, singles[r] # {},
         NEW a \in Request(r), NEW b \in Request(r)
  PROVE  a = b
<1>1. /\ a \in singles[r] /\ b \in singles[r] /\ a <= b /\ b <= a
      /\ singles[r] \subseteq Int
  BY ConstantsAssumption DEF PollType, Request
<1> QED
  BY <1>1

LEMMA ReadDoneCovers ==
  ASSUME IInv, NEW r \in Refresher, rpc[r] = "reading", NEW result \in [Address -> ReadResult],
         ReadDone(r, result),
         \A a \in Address : got[r][a].read \/ a \in Request(r) => result[a].read,
         \A a \in Address : result[a].value # None => a \notin illegal,
         illegal' = illegal, detected' \subseteq illegal
  PROVE  /\ CoverageInv'
         /\ connection # "CONNECTED" /\ connection' = "CONNECTED" => stale' = {}
<1> DEFINE remaining == IF singles[r] = {} THEN Tail(plan[r]) ELSE plan[r]
           left == singles[r] \ Request(r)
<1>1. PollType /\ Locked(r)
  BY TypeInvParts DEF IInv, Locked, LockedPhases
<1>2. \A a \in Address : HasValue(a) =>
        \/ Exempt(a)
        \/ result[a].read \/ a \in left \/ \E i \in DOMAIN remaining : a \in remaining[i]
  <2> SUFFICES ASSUME NEW a \in Address, HasValue(a), ~Exempt(a), ~result[a].read, a \notin left
               PROVE  \E i \in DOMAIN remaining : a \in remaining[i]
    OBVIOUS
  <2>1. IsCovered(r, a) /\ ~got[r][a].read /\ a \notin Request(r)
    BY DEF IInv, CoverageInv, PollCovers
  <2>2. a \notin singles[r]
    BY <2>1
  <2>3. PICK i \in DOMAIN plan[r] : a \in plan[r][i]
    BY <2>1, <2>2 DEF IsCovered
  <2> QED
    BY <1>1, <2>1, <2>3, RequestTaken
<1>3. CASE remaining = <<>> /\ left = {}
  <2>1. PollSucceeded(r, result, detected')
    BY <1>3 DEF ReadDone
  <2>2. \A a \in Address : HasValue(a) => result[a].read \/ Exempt(a)
    BY <1>2, <1>3
  <2> QED
    BY <1>1, <2>1, <2>2, PollSucceededCovers
<1>4. CASE ~(remaining = <<>> /\ left = {})
  <2>1. /\ plan' = [plan EXCEPT ![r] = remaining]
        /\ singles' = [singles EXCEPT ![r] = left]
        /\ got' = [got EXCEPT ![r] = result]
        /\ UNCHANGED <<data, stale, connection, rpc>>
    BY <1>4 DEF ReadDone, connectionVars
  <2> HIDE DEF remaining, left
  <2>2. /\ plan'[r] = remaining /\ singles'[r] = left /\ got'[r] = result
        /\ \A s \in Refresher \ {r} : got'[s] = got[s]
    BY <1>1, <2>1 DEF PollType
  <2>3. \A s \in Refresher : rpc'[s] = "reading" => s = r
    BY <1>1, <2>1 DEF IInv, OneRefreshAtATime, Locked, LockedPhases
  <2>4. PollCovers'
    BY <1>2, <2>1, <2>2, <2>3 DEF PollCovers, HasValue, Exempt, IsCovered
  <2>5. OnlyLegalHaveValues'
    BY <2>1, <2>2 DEF IInv, CoverageInv, OnlyLegalHaveValues
  <2> QED
    BY <2>1, <2>4, <2>5 DEF IInv, CoverageInv, NoRegisterLeftBehind
<1> QED
  BY <1>3, <1>4

LEMMA ReadServedCovers ==
  ASSUME IInv, NEW r \in Refresher, ReadServed(r)
  PROVE  /\ CoverageInv'
         /\ connection # "CONNECTED" /\ connection' = "CONNECTED" => stale' = {}
<1>1. /\ PollType /\ RestType
      /\ rpc[r] = "reading" /\ Locked(r)
      /\ illegal' = illegal /\ detected \subseteq illegal
      /\ \A a \in Address : got[r][a] \in ReadResult
      /\ \A a \in Address : got[r][a].value # None => a \notin illegal
  BY TypeInvParts
     DEF IInv, PollType, CoverageInv, OnlyLegalHaveValues, Locked, LockedPhases, deviceVars,
         ReadServed, ReadAnswered, ReadRefused, RegisterInvalid, ReadFailed
<1>2. CASE ReadAnswered(r)
  <2> DEFINE result == [a \in Address |->
                          IF a \in Request(r) THEN [read |-> TRUE, value |-> device[a]]
                          ELSE got[r][a]]
  <2>1. /\ ReadDone(r, result)
        /\ Request(r) \cap illegal = {}
        /\ detected' = detected
    BY <1>2 DEF ReadAnswered
  <2>2. \A a \in Address : [read |-> TRUE, value |-> device[a]] \in ReadResult
    BY <1>1 DEF RestType, ReadResult
  <2>3. result \in [Address -> ReadResult]
    BY <1>1, <2>2
  <2>4. \A a \in Address : got[r][a].read \/ a \in Request(r) => result[a].read
    OBVIOUS
  <2>5. \A a \in Address : result[a].value # None => a \notin illegal
    BY <1>1, <2>1
  <2> HIDE DEF result
  <2> QED
    BY <1>1, <2>1, <2>3, <2>4, <2>5, ReadDoneCovers
<1>3. CASE RegisterInvalid(r)
  <2> DEFINE result == [a \in Address |->
                          IF a \in Request(r) THEN [read |-> TRUE, value |-> None]
                          ELSE got[r][a]]
  <2>1. /\ ReadDone(r, result)
        /\ singles[r] # {} /\ Request(r) \cap illegal # {}
        /\ detected' = detected \cup Request(r)
    BY <1>3 DEF RegisterInvalid
  <2>2. [read |-> TRUE, value |-> None] \in ReadResult
    BY DEF ReadResult
  <2>3. result \in [Address -> ReadResult]
    BY <1>1, <2>2
  <2>4. \A a \in Address : got[r][a].read \/ a \in Request(r) => result[a].read
    OBVIOUS
  <2>5. \A a \in Address : result[a].value # None => a \notin illegal
    BY <1>1
  <2>6. detected' \subseteq illegal
    <3>1. PICK a \in Request(r) : a \in illegal
      BY <2>1
    <3>2. \A b \in Request(r) : b = a
      BY <1>1, <2>1, SinglesAreAlone
    <3> QED
      BY <1>1, <2>1, <3>1, <3>2
  <2> HIDE DEF result
  <2> QED
    BY <1>1, <2>1, <2>3, <2>4, <2>5, <2>6, ReadDoneCovers
<1>4. CASE ReadRefused(r)
  <2>1. /\ singles[r] = {}
        /\ singles' = [singles EXCEPT ![r] = Request(r)]
        /\ plan' = [plan EXCEPT ![r] = Tail(plan[r])]
        /\ UNCHANGED <<data, detected, connection, rpc, got, stale>>
    BY <1>4 DEF ReadRefused, connectionVars
  <2>2. /\ singles'[r] = Request(r) /\ plan'[r] = Tail(plan[r])
        /\ \A s \in Refresher : rpc[s] = "reading" => s = r
    BY <1>1, <2>1 DEF PollType, IInv, OneRefreshAtATime, Locked, LockedPhases
  <2>3. PollCovers'
    <3>1. ASSUME NEW a \in Address, HasValue(a)
          PROVE  \/ Exempt(a) \/ got[r][a].read \/ a \in Request(r)
                 \/ \E j \in DOMAIN Tail(plan[r]) : a \in Tail(plan[r])[j]
      <4>1. IsCovered(r, a) \/ Exempt(a)
        BY <1>1, <3>1 DEF IInv, CoverageInv, PollCovers
      <4> QED
        BY <1>1, <2>1, <4>1, RequestTaken DEF IsCovered
    <3> QED
      BY <2>1, <2>2, <3>1 DEF PollCovers, HasValue, Exempt, IsCovered
  <2> QED
    BY <1>1, <2>1, <2>3 DEF IInv, CoverageInv, OnlyLegalHaveValues, NoRegisterLeftBehind
<1>5. CASE ReadFailed(r)
  <2>1. PollFailed(r) /\ UNCHANGED <<illegal, detected>>
    BY <1>5 DEF ReadFailed, deviceVars
  <2>2. connection' = connection \/ connection' = "DISCONNECTED"
    BY <2>1 DEF PollFailed, connectionVars
  <2> QED
    BY <1>1, <2>1, <2>2, PollFailedCovers
<1> QED
  BY <1>2, <1>3, <1>4, <1>5 DEF ReadServed

-------------------------------------------------------------------------------

LEMMA InitCovers == Init => CoverageInv
<1> SUFFICES ASSUME Init
             PROVE  CoverageInv
  OBVIOUS
<1>1. /\ \A r \in Refresher : rpc[r] # "reading"
      /\ \A r \in Refresher : \A a \in Address : got[r][a].value = None
      /\ \A a \in Address : data[a].read = None
      /\ detected = {} /\ stale = {}
  BY DEF Init, NothingRead, NotRead, Absent
<1> QED
  BY <1>1 DEF CoverageInv, PollCovers, OnlyLegalHaveValues, NoRegisterLeftBehind

LEMMA NextCovers ==
  ASSUME IInv, [Next]_vars
  PROVE  /\ CoverageInv'
         /\ connection # "CONNECTED" /\ connection' = "CONNECTED" => stale' = {}
<1>1. ASSUME NEW r \in Refresher, Refresh(r)
      PROVE  /\ CoverageInv'
             /\ connection # "CONNECTED" /\ connection' = "CONNECTED" => stale' = {}
  <2>1. CASE StartRefresh(r)
    BY <2>1, StartRefreshCovers
  <2>2. CASE ReadServed(r)
    BY <2>2, ReadServedCovers
  <2>3. CASE \/ AbortRefresh(r) \/ BecameConnected(r) \/ BecameConnectedRaises(r)
             \/ PollComplete(r)
    BY <2>3, CallbackKeepsCoverage DEF IInv
  <2> QED
    BY <1>1, <2>1, <2>2, <2>3 DEF Refresh
<1>2. CASE \A r \in Refresher : ~Refresh(r)
  BY <1>2, OthersKeepCoverage DEF IInv
<1> QED
  BY <1>1, <1>2

LEMMA AlwaysIInv == Spec => []IInv
<1>1. Init => CoverageInv
  BY InitCovers
<1>2. TypeInv /\ OneRefreshAtATime /\ CoverageInv /\ [Next]_vars => CoverageInv'
  BY NextCovers DEF IInv
<1>3. IInv <=> TypeInv /\ OneRefreshAtATime /\ CoverageInv
  BY DEF IInv
<1> QED
  BY <1>1, <1>2, <1>3, AlwaysTypeInv, RefreshIsExclusive, PTL DEF Spec

\* A poll that succeeds renews every watched register that has a value, but for
\* those read on connection only: whatever reads were refused, whatever was
\* found to be invalid and whatever entities came and went while it was under
\* way, the values recorded are of one poll (_refresh, _read_all_registers).
THEOREM PollLeavesNothingBehind == Spec => []NoRegisterLeftBehind
<1>1. IInv => NoRegisterLeftBehind
  BY DEF IInv, CoverageInv
<1> QED
  BY <1>1, AlwaysIInv, PTL

\* The poll that makes the controller connected, for the first time or again,
\* leaves no register at all behind (_refresh).
THEOREM ConnectingRefreshesAll == Spec => ConnectingReadsAll
<1>1. IInv /\ [Next]_vars
        => [connection # "CONNECTED" /\ connection' = "CONNECTED" => stale' = {}]_vars
  BY NextCovers
<1> QED
  BY <1>1, AlwaysIInv, PTL DEF Spec, ConnectingReadsAll

-------------------------------------------------------------------------------
(***************************************************************************)
(* Why refreshes and writes return: whom they wait for, and what is left   *)
(* to do.  This is CallsReturn but for the argument about ENABLED: MayGo   *)
(* is what the guards of the steps under fairness ask.                     *)
(***************************************************************************)

UnderWay(t) ==
  \/ t \in Refresher /\ rpc[t] # "idle"
  \/ t \in Writer /\ wpc[t] # "idle"

\* The client, a callback or a sleep gives t its next step.
MayGo(t) ==
  \/ Waiting(t) /\ AtHead(t)
  \/ t \in Refresher /\ rpc[t] \in {"became_connected", "poll_complete"}
  \/ t \in Writer /\ wpc[t] = "sleeping"

\* Whoever is under way can go on, or waits for the client behind one that can.
NobodyIsStuck ==
  \A t \in Task : UnderWay(t) =>
    \/ MayGo(t)
    \/ InQueue(bus, t) /\ Head(bus) \in Task /\ MayGo(Head(bus))

\* The registers a refresh has left are finitely many.
FiniteReads ==
  \A r \in Refresher :
    /\ IsFiniteSet(singles[r])
    /\ \A i \in DOMAIN plan[r] : IsFiniteSet(plan[r][i])

\* r has less to read: fewer reads of its plan, or the same and fewer of the
\* registers of the refused one.
ReadsLess(r) ==
  \/ Len(plan'[r]) < Len(plan[r])
  \/ plan'[r] = plan[r] /\ Cardinality(singles'[r]) < Cardinality(singles[r])

PhasesLeft(phase) ==
  CASE phase = "reading" -> 3
    [] phase = "became_connected" -> 2
    [] phase = "poll_complete" -> 1
    [] OTHER -> 0

\* made: the read-backs that are made.
StepsLeft(phase, made) ==
  CASE phase = "writing" -> 2 * WriteConfirmAttempts + 1
    [] phase = "sleeping" -> 2 * (WriteConfirmAttempts - made) + 1
    [] phase = "confirming" -> 2 * (WriteConfirmAttempts - made)
    [] OTHER -> 0

\* The queue only moves up: a caller leaves it from its head, with its answer, or
\* joins it at its end.
ServedInOrder ==
  [][\/ bus' = bus
     \/ \E t \in Task : bus' = Append(bus, t)
     \/ \E t \in Task :
          /\ AtHead(t)
          /\ (t \in Refresher /\ ReadServed(t)) \/ (t \in Writer /\ WriteServed(t))
          /\ bus' = Tail(bus) \/ bus' = Append(Tail(bus), t)]_vars

\* Whenever a refresh goes on it has less to read or goes on to a later phase,
\* and whenever a write does it has fewer steps left; nobody gets more to do
\* but by starting.
CallsComeToAnEnd ==
  [][/\ \A r \in Refresher :
          \/ rpc[r] = "idle"
          \/ UNCHANGED <<rpc[r], plan[r], singles[r]>>
          \/ PhasesLeft(rpc'[r]) < PhasesLeft(rpc[r])
          \/ rpc'[r] = rpc[r] /\ ReadServed(r) /\ ReadsLess(r)
     /\ \A r \in Refresher :
          ReadServed(r) => rpc'[r] # "reading" \/ ReadsLess(r)
     /\ \A w \in Writer :
          /\ WriteServed(w) \/ ConfirmAgain(w) =>
               StepsLeft(wpc'[w], attempts'[w]) < StepsLeft(wpc[w], attempts[w])
          /\ StepsLeft(wpc'[w], attempts'[w]) > StepsLeft(wpc[w], attempts[w]) =>
               StartWrite(w)]_vars

LEMMA CallersMayGo == TypeInv /\ WaitsAreQueued => NobodyIsStuck
<1> SUFFICES ASSUME TypeInv, WaitsAreQueued, NEW t \in Task, UnderWay(t), ~MayGo(t)
             PROVE  InQueue(bus, t) /\ Head(bus) \in Task /\ MayGo(Head(bus))
  BY DEF NobodyIsStuck
<1>1. PollType /\ RestType
  BY TypeInvParts
<1>2. Waiting(t)
  BY <1>1 DEF UnderWay, MayGo, Waiting, PollType, RestType, LockedPhases
<1>3. InQueue(bus, t)
  BY <1>2 DEF WaitsAreQueued, InQueue, Waiting
<1>4. bus \in Seq(Task) /\ bus # <<>>
  BY <1>1, <1>3 DEF RestType, InQueue
<1>5. 1 \in DOMAIN bus /\ bus[1] = Head(bus) /\ Head(bus) \in Task
  BY <1>4
<1>6. Waiting(Head(bus))
  BY <1>5 DEF WaitsAreQueued, Waiting
<1> QED
  BY <1>3, <1>4, <1>5, <1>6 DEF MayGo, AtHead

\* r takes its answer and waits for the next: a read of its plan is done, or
\* refused and its registers take its place, or one of those is done.
ReadsOn(r) ==
  /\ rpc' = rpc
  /\ IF singles[r] = {}
     THEN /\ plan' = [plan EXCEPT ![r] = Tail(plan[r])]
          /\ \E rest \in SUBSET Request(r) : singles' = [singles EXCEPT ![r] = rest]
     ELSE /\ plan' = [plan EXCEPT ![r] = plan[r]]
          /\ singles' = [singles EXCEPT ![r] = singles[r] \ Request(r)]

\* r goes on to phase, and keeps its reads or forgets them.
EndsIn(r, phase) ==
  /\ rpc' = [rpc EXCEPT ![r] = phase]
  /\ ForgetReads(r) \/ UNCHANGED <<plan, singles>>

Starts(r) ==
  /\ rpc' = [rpc EXCEPT ![r] = "reading"]
  /\ plan' = [plan EXCEPT ![r] = ReadPlan(PollSet)]
  /\ singles' = singles

LEMMA StartRefreshGoes ==
  ASSUME NEW r \in Refresher, StartRefresh(r)
  PROVE  /\ rpc[r] = "idle"
         /\ \/ Starts(r)
            \/ \E phase \in {"idle", "poll_complete", "became_connected"} : EndsIn(r, phase)
<1>1. CASE PollSucceeded(r, NothingRead, detected)
  <2>1. ForgetReads(r)
    BY <1>1 DEF PollSucceeded
  <2> QED
    BY <1>1, <2>1, PollEndGoes DEF StartRefresh, EndsIn, GoesTo
<1>2. CASE ~PollSucceeded(r, NothingRead, detected)
  BY <1>2 DEF StartRefresh, Starts
<1> QED
  BY <1>1, <1>2

LEMMA ReadServedGoes ==
  ASSUME PollType, NEW r \in Refresher, ReadServed(r)
  PROVE  /\ rpc[r] = "reading"
         /\ \/ ReadsOn(r)
            \/ \E phase \in {"idle", "poll_complete", "became_connected"} : EndsIn(r, phase)
<1>1. rpc[r] = "reading"
  BY DEF ReadServed, ReadAnswered, ReadRefused, RegisterInvalid, ReadFailed
<1>2. ASSUME NEW reads, PollSucceeded(r, reads, detected') \/ PollFailed(r)
      PROVE  \E phase \in {"idle", "poll_complete", "became_connected"} : EndsIn(r, phase)
  <2>1. ForgetReads(r)
    BY <1>2 DEF PollSucceeded, PollFailed
  <2> QED
    BY <1>2, <2>1, PollEndGoes DEF EndsIn, GoesTo
<1>3. ASSUME NEW result, ReadDone(r, result)
      PROVE  ReadsOn(r) \/ PollSucceeded(r, result, detected')
  <2>1. {} \ Request(r) \in SUBSET Request(r)
    OBVIOUS
  <2> QED
    BY <1>3, <2>1 DEF ReadDone, ReadsOn
<1>4. CASE ReadRefused(r)
  <2>1. Request(r) \in SUBSET Request(r)
    OBVIOUS
  <2> QED
    BY <1>1, <1>4, <2>1 DEF ReadRefused, ReadsOn
<1>5. CASE ReadFailed(r)
  BY <1>1, <1>2, <1>5 DEF ReadFailed
<1> QED
  BY <1>1, <1>2, <1>3, <1>4, <1>5 DEF ReadServed, ReadAnswered, RegisterInvalid

LEMMA CallbackGoes ==
  ASSUME NEW r \in Refresher, BecameConnected(r) \/ BecameConnectedRaises(r) \/ PollComplete(r)
  PROVE  \/ /\ rpc[r] = "became_connected"
            /\ \E phase \in {"idle", "poll_complete"} : EndsIn(r, phase)
         \/ rpc[r] = "poll_complete" /\ EndsIn(r, "idle")
<1>1. CASE BecameConnected(r)
  BY <1>1, LeaveRefreshGoes DEF BecameConnected, GoesTo, EndsIn
<1>2. CASE ~BecameConnected(r)
  BY <1>2 DEF BecameConnectedRaises, PollComplete, EndsIn
<1> QED
  BY <1>1, <1>2

\* A step of r touches nobody else's reads.
LEMMA RefreshIsItsOwn ==
  ASSUME PollType, NEW r \in Refresher, Refresh(r)
  PROVE  \A s \in Refresher \ {r} : UNCHANGED <<rpc[s], plan[s], singles[s]>>
<1>1. ASSUME Starts(r) \/ ReadsOn(r) \/ \E phase : EndsIn(r, phase)
      PROVE  \A s \in Refresher \ {r} : UNCHANGED <<rpc[s], plan[s], singles[s]>>
  BY <1>1 DEF Starts, ReadsOn, EndsIn, ForgetReads, PollType
<1>2. CASE AbortRefresh(r)
  BY <1>2 DEF AbortRefresh, vars, refreshVars
<1> QED
  BY <1>1, <1>2, StartRefreshGoes, ReadServedGoes, CallbackGoes DEF Refresh

\* A refused read has a first register: that is the one tried next.
LEMMA FiniteSetHasFirst ==
  ASSUME NEW S \in SUBSET Int, IsFiniteSet(S), S # {}
  PROVE  \E x \in S : \A y \in S : x <= y
<1> DEFINE Low == {X \in SUBSET S : X # {} /\ \A x \in X : \A y \in S \ X : x < y}
<1>1. Low \subseteq FiniteSubsetsOf(S) /\ S \in Low
  BY FS_Subset DEF FiniteSubsetsOf
<1>2. PICK X \in Low : \A Y \in Low : ~(<<Y, X>> \in StrictSubsetOrdering(S))
  <2> HIDE DEF Low
  <2> QED
    BY <1>1, FS_StrictSubsetOrderingWellFounded, WFMin
<1>3. PICK x \in X : TRUE
  BY <1>2
<1> DEFINE Y == {y \in X : y < x}
<1>4. CASE Y # {}
  <2>1. \A y \in Y : \A z \in S \ Y : y < z
    <3> SUFFICES ASSUME NEW y \in Y, NEW z \in S \ Y
                 PROVE  y < z
      OBVIOUS
    <3>1. x \in Int /\ y \in Int /\ z \in Int /\ y \in X /\ y < x
      BY <1>2, <1>3
    <3>2. CASE z \in X
      BY <3>1, <3>2
    <3>3. CASE z \notin X
      BY <1>2, <3>1, <3>3
    <3> QED
      BY <3>2, <3>3
  <2>2. Y \in Low /\ Y \subseteq X /\ X \subseteq S
    BY <1>2, <1>4, <2>1
  <2>3. x \notin Y
    BY <1>2, <1>3
  <2>4. <<Y, X>> \in StrictSubsetOrdering(S)
    BY <1>3, <2>2, <2>3 DEF StrictSubsetOrdering
  <2> QED
    BY <1>2, <2>2, <2>4
<1>5. CASE Y = {}
  <2>1. \A y \in X : y \in Int /\ x \in Int /\ ~(y < x)
    BY <1>2, <1>3, <1>5
  <2>2. \A y \in S \ X : x < y /\ y \in Int
    BY <1>2, <1>3
  <2> QED
    BY <1>2, <1>3, <2>1, <2>2
<1> QED
  BY <1>4, <1>5

\* Each answer leaves r less to read.
LEMMA LessIsLeft ==
  ASSUME PollType, FiniteReads, NEW r \in Refresher, rpc[r] = "reading", ReadsOn(r)
  PROVE  ReadsLess(r)
<1>1. plan[r] \in Seq(SUBSET Address) /\ singles[r] \in SUBSET Int /\ IsFiniteSet(singles[r])
  BY ConstantsAssumption DEF PollType, FiniteReads
<1>2. CASE singles[r] = {}
  <2>1. plan[r] # <<>> /\ plan'[r] = Tail(plan[r])
    BY <1>2 DEF PollType, HasRequest, ReadsOn
  <2> QED
    BY <1>1, <2>1 DEF ReadsLess
<1>3. CASE singles[r] # {}
  <2>1. plan'[r] = plan[r] /\ singles'[r] = singles[r] \ Request(r)
    BY <1>3 DEF PollType, ReadsOn
  <2>2. PICK a \in singles[r] : a \in Request(r)
    BY <1>1, <1>3, FiniteSetHasFirst DEF Request
  <2>3. singles'[r] \subseteq singles[r] /\ singles'[r] # singles[r]
    BY <2>1, <2>2
  <2>4. Cardinality(singles'[r]) < Cardinality(singles[r])
    <3>1. /\ Cardinality(singles'[r]) <= Cardinality(singles[r])
          /\ Cardinality(singles'[r]) # Cardinality(singles[r])
      BY <1>1, <2>3, FS_Subset
    <3>2. Cardinality(singles[r]) \in Nat /\ Cardinality(singles'[r]) \in Nat
      BY <1>1, <2>3, FS_Subset, FS_CardinalityType
    <3> QED
      BY <3>1, <3>2
  <2> QED
    BY <2>1, <2>4 DEF ReadsLess
<1> QED
  BY <1>2, <1>3

FiniteFor(p, s) == IsFiniteSet(s) /\ \A i \in DOMAIN p : IsFiniteSet(p[i])

LEMMA ReadsStayFinite ==
  ASSUME PollType, FiniteReads, NEW r \in Refresher, Refresh(r)
  PROVE  FiniteFor(plan'[r], singles'[r])
<1>1. FiniteFor(plan[r], singles[r]) /\ plan[r] \in Seq(SUBSET Address)
  BY DEF FiniteReads, FiniteFor, PollType
<1>2. FiniteFor(<<>>, {})
  BY FS_EmptySet DEF FiniteFor
<1>3. ASSUME NEW phase, EndsIn(r, phase)
      PROVE  FiniteFor(plan'[r], singles'[r])
  BY <1>1, <1>2, <1>3 DEF EndsIn, ForgetReads, PollType
<1>4. CASE Starts(r)
  <2>1. PollSet \in SUBSET Address
    BY DEF PollSet, Watched
  <2>2. plan'[r] = ReadPlan(PollSet) /\ singles'[r] = singles[r]
    BY <1>4 DEF Starts, PollType
  <2> QED
    BY <1>1, <2>1, <2>2, ReadPlanIsFinite DEF FiniteFor
<1>5. CASE rpc[r] = "reading" /\ ReadsOn(r)
  <2>1. CASE singles[r] = {}
    <3>1. plan[r] # <<>> /\ plan'[r] = Tail(plan[r]) /\ Request(r) = plan[r][1]
      BY <1>1, <1>5, <2>1 DEF PollType, HasRequest, ReadsOn, Request
    <3>2. singles'[r] \subseteq Request(r)
      BY <1>5, <2>1 DEF PollType, ReadsOn
    <3>3. 1 \in DOMAIN plan[r] /\ \A i \in DOMAIN Tail(plan[r]) :
                                    i + 1 \in DOMAIN plan[r] /\ Tail(plan[r])[i] = plan[r][i + 1]
      BY <1>1, <3>1
    <3>4. IsFiniteSet(singles'[r])
      BY <1>1, <3>1, <3>2, <3>3, FS_Subset DEF FiniteFor
    <3> QED
      BY <1>1, <3>1, <3>3, <3>4 DEF FiniteFor
  <2>2. CASE singles[r] # {}
    <3>1. plan'[r] = plan[r] /\ singles'[r] \subseteq singles[r]
      BY <1>5, <2>2 DEF PollType, ReadsOn
    <3> QED
      BY <1>1, <3>1, FS_Subset DEF FiniteFor
  <2> QED
    BY <2>1, <2>2
<1>6. CASE AbortRefresh(r)
  BY <1>1, <1>6 DEF AbortRefresh, vars, refreshVars
<1> QED
  BY <1>3, <1>4, <1>5, <1>6, StartRefreshGoes, ReadServedGoes, CallbackGoes DEF Refresh

LEMMA AlwaysFinite == Spec => []FiniteReads
<1>1. Init => FiniteReads
  BY FS_EmptySet DEF Init, FiniteReads
<1>2. TypeInv /\ FiniteReads /\ [Next]_vars => FiniteReads'
  <2> SUFFICES ASSUME TypeInv, FiniteReads, [Next]_vars, NEW r \in Refresher
               PROVE  FiniteFor(plan'[r], singles'[r])
    BY DEF FiniteReads, FiniteFor
  <2>1. PollType
    BY TypeInvParts
  <2>2. CASE Refresh(r)
    BY <2>1, <2>2, ReadsStayFinite
  <2>3. ASSUME NEW s \in Refresher, s # r, Refresh(s)
        PROVE  FiniteFor(plan'[r], singles'[r])
    BY <2>1, <2>3, RefreshIsItsOwn DEF FiniteReads, FiniteFor
  <2>4. CASE \A s \in Refresher : ~Refresh(s)
    BY <2>4, OthersKeepRefresh DEF FiniteReads, FiniteFor, refreshVars
  <2> QED
    BY <2>2, <2>3, <2>4
<1> QED
  BY <1>1, <1>2, AlwaysTypeInv, PTL DEF Spec

\* Read-backs are counted from the write on, and one more is left.
AttemptsLeft ==
  \A w \in Writer :
    /\ attempts[w] < WriteConfirmAttempts
    /\ wpc[w] \in {"idle", "writing"} => attempts[w] = 0

WriteLess(w) == StepsLeft(wpc'[w], attempts'[w]) < StepsLeft(wpc[w], attempts[w])

LEMMA WriteIsItsOwn ==
  ASSUME RestType, NEW w \in Writer, Write(w)
  PROVE  \A v \in Writer \ {w} : UNCHANGED <<wpc[v], attempts[v]>>
  BY DEF Write, StartWrite, WriteServed, WriteAnswered, WriteUnanswered, WriteFailed,
         WriteConfirmed, ReadBackDiffers, ReadBackRaises, ConfirmAgain, EndWrite, RestType

LEMMA OthersKeepWrites ==
  ASSUME [Next]_vars, \A w \in Writer : ~Write(w)
  PROVE  UNCHANGED <<wpc, attempts>>
<1>1. ASSUME NEW e \in Entity, register_modbus_entity(e) \/ remove_modbus_entity(e)
      PROVE  UNCHANGED writeVars
  BY <1>1 DEF register_modbus_entity, remove_modbus_entity
<1>2. ASSUME NEW r \in Refresher, Refresh(r)
      PROVE  UNCHANGED writeVars
  BY <1>2 DEF Refresh, StartRefresh, AbortRefresh, ReadServed, ReadAnswered, ReadRefused,
              RegisterInvalid, ReadFailed, BecameConnected, BecameConnectedRaises,
              PollComplete, vars
<1>3. CASE Environment
  BY <1>3 DEF Environment, LinkChanges, WriteDelayOver, InverterChanges, writeVars
<1>4. CASE UNCHANGED vars
  BY <1>4 DEF vars, writeVars
<1> QED
  BY <1>1, <1>2, <1>3, <1>4 DEF Next, writeVars

LEMMA WriteGoes ==
  ASSUME RestType, AttemptsLeft, NEW w \in Writer, Write(w)
  PROVE  /\ attempts'[w] < WriteConfirmAttempts
         /\ wpc'[w] \in {"idle", "writing"} => attempts'[w] = 0
         /\ WriteServed(w) \/ ConfirmAgain(w) => WriteLess(w)
<1> DEFINE made == attempts[w]
           most == WriteConfirmAttempts
<1>1. /\ wpc[w] \in {"idle", "writing", "confirming", "sleeping"}
      /\ made \in Nat /\ most \in Nat /\ made < most
      /\ wpc[w] \in {"idle", "writing"} => made = 0
  BY ConstantsAssumption DEF RestType, AttemptsLeft
<1>2. CASE StartWrite(w)
  <2>1. wpc[w] = "idle" /\ wpc'[w] = "writing" /\ attempts'[w] = made
    BY <1>2 DEF StartWrite, RestType
  <2>2. ~WriteServed(w) /\ ~ConfirmAgain(w)
    BY <2>1 DEF WriteServed, ConfirmAgain, WriteAnswered, WriteUnanswered, WriteFailed,
                WriteConfirmed, ReadBackDiffers, ReadBackRaises
  <2> QED
    BY <1>1, <2>1, <2>2
<1>3. CASE EndWrite(w) /\ wpc[w] \in {"writing", "confirming"}
  <2>1. wpc'[w] = "idle" /\ attempts'[w] = 0
    BY <1>3 DEF EndWrite, RestType
  <2>2. StepsLeft(wpc'[w], attempts'[w]) = 0
    BY <2>1 DEF StepsLeft
  <2>3. StepsLeft(wpc[w], made) > 0
    BY <1>1, <1>3 DEF StepsLeft
  <2> QED
    BY <1>1, <2>1, <2>2, <2>3 DEF WriteLess
<1>4. CASE WriteUnanswered(w)
  <2>1. wpc[w] = "writing" /\ wpc'[w] = "confirming" /\ attempts'[w] = made
    BY <1>4 DEF WriteUnanswered, RestType
  <2>2. /\ StepsLeft(wpc[w], made) = 2 * most + 1
        /\ StepsLeft(wpc'[w], attempts'[w]) = 2 * (most - made)
    BY <2>1 DEF StepsLeft
  <2> QED
    BY <1>1, <2>1, <2>2 DEF WriteLess
<1>5. CASE ReadBackDiffers(w) /\ ~EndWrite(w)
  <2>1. /\ wpc[w] = "confirming" /\ wpc'[w] = "sleeping"
        /\ attempts'[w] = made + 1 /\ made + 1 < most
    BY <1>5 DEF ReadBackDiffers, RestType
  <2>2. /\ StepsLeft(wpc[w], made) = 2 * (most - made)
        /\ StepsLeft(wpc'[w], attempts'[w]) = 2 * (most - (made + 1)) + 1
    BY <2>1 DEF StepsLeft
  <2> QED
    BY <1>1, <2>1, <2>2 DEF WriteLess
<1>6. CASE ConfirmAgain(w)
  <2>1. wpc[w] = "sleeping" /\ wpc'[w] = "confirming" /\ attempts'[w] = made
    BY <1>6 DEF ConfirmAgain, RestType
  <2>2. /\ StepsLeft(wpc[w], made) = 2 * (most - made) + 1
        /\ StepsLeft(wpc'[w], attempts'[w]) = 2 * (most - made)
    BY <2>1 DEF StepsLeft
  <2> QED
    BY <1>1, <2>1, <2>2 DEF WriteLess
<1> QED
  BY <1>2, <1>3, <1>4, <1>5, <1>6
     DEF Write, WriteServed, WriteAnswered, WriteFailed, WriteConfirmed,
         ReadBackDiffers, ReadBackRaises

LEMMA AlwaysAttemptsLeft == Spec => []AttemptsLeft
<1>1. Init => AttemptsLeft
  BY ConstantsAssumption DEF Init, AttemptsLeft
<1>2. TypeInv /\ AttemptsLeft /\ [Next]_vars => AttemptsLeft'
  <2> SUFFICES ASSUME TypeInv, AttemptsLeft, [Next]_vars, NEW w \in Writer
               PROVE  /\ attempts'[w] < WriteConfirmAttempts
                      /\ wpc'[w] \in {"idle", "writing"} => attempts'[w] = 0
    BY DEF AttemptsLeft
  <2>1. RestType
    BY TypeInvParts
  <2>2. CASE Write(w)
    BY <2>1, <2>2, WriteGoes
  <2>3. ASSUME NEW v \in Writer, v # w, Write(v)
        PROVE  UNCHANGED <<wpc[w], attempts[w]>>
    BY <2>1, <2>3, WriteIsItsOwn
  <2>4. CASE \A v \in Writer : ~Write(v)
    BY <2>4, OthersKeepWrites DEF AttemptsLeft
  <2> QED
    BY <2>2, <2>3, <2>4 DEF AttemptsLeft
<1> QED
  BY <1>1, <1>2, AlwaysTypeInv, PTL DEF Spec

\* What a step does to the work of a refresh and of a write.
LEMMA RefreshWorks ==
  ASSUME TypeInv, FiniteReads, [Next]_vars, NEW r \in Refresher
  PROVE  /\ \/ rpc[r] = "idle"
            \/ UNCHANGED <<rpc[r], plan[r], singles[r]>>
            \/ PhasesLeft(rpc'[r]) < PhasesLeft(rpc[r])
            \/ rpc'[r] = rpc[r] /\ ReadServed(r) /\ ReadsLess(r)
         /\ ReadServed(r) => rpc'[r] # "reading" \/ ReadsLess(r)
<1>1. PollType
  BY TypeInvParts
<1>2. ASSUME NEW phase \in {"idle", "poll_complete", "became_connected"}, EndsIn(r, phase)
      PROVE  rpc'[r] = phase
  BY <1>1, <1>2 DEF EndsIn, PollType
<1>3. CASE ReadServed(r)
  <2>1. rpc[r] = "reading"
    BY <1>1, <1>3, ReadServedGoes
  <2>2. CASE ReadsOn(r)
    BY <1>1, <1>3, <2>1, <2>2, LessIsLeft DEF ReadsOn
  <2>3. ASSUME NEW phase \in {"idle", "poll_complete", "became_connected"}, EndsIn(r, phase)
        PROVE  rpc'[r] # "reading" /\ PhasesLeft(rpc'[r]) < PhasesLeft(rpc[r])
    BY <1>2, <2>1, <2>3 DEF PhasesLeft
  <2> QED
    BY <1>1, <1>3, <2>2, <2>3, ReadServedGoes
<1>4. CASE BecameConnected(r) \/ BecameConnectedRaises(r) \/ PollComplete(r)
  <2>1. PhasesLeft(rpc'[r]) < PhasesLeft(rpc[r]) /\ rpc[r] # "reading"
    BY <1>2, <1>4, CallbackGoes DEF PhasesLeft
  <2>2. ~ReadServed(r)
    BY <1>1, <2>1, ReadServedGoes
  <2> QED
    BY <2>1, <2>2
<1>5. CASE StartRefresh(r) \/ AbortRefresh(r)
  <2>1. rpc[r] = "idle"
    BY <1>5 DEF StartRefresh, AbortRefresh
  <2>2. ~ReadServed(r)
    BY <1>1, <2>1, ReadServedGoes
  <2> QED
    BY <2>1, <2>2
<1>6. CASE ~Refresh(r)
  <2>1. UNCHANGED <<rpc[r], plan[r], singles[r]>>
    <3>1. CASE \A s \in Refresher : ~Refresh(s)
      BY <3>1, OthersKeepRefresh DEF refreshVars
    <3>2. ASSUME NEW s \in Refresher, Refresh(s)
          PROVE  UNCHANGED <<rpc[r], plan[r], singles[r]>>
      BY <1>1, <1>6, <3>2, RefreshIsItsOwn
    <3> QED
      BY <3>1, <3>2
  <2> QED
    BY <1>6, <2>1 DEF Refresh
<1> QED
  BY <1>3, <1>4, <1>5, <1>6 DEF Refresh

LEMMA WriteWorks ==
  ASSUME TypeInv, AttemptsLeft, [Next]_vars, NEW w \in Writer
  PROVE  /\ WriteServed(w) \/ ConfirmAgain(w) => WriteLess(w)
         /\ StepsLeft(wpc'[w], attempts'[w]) > StepsLeft(wpc[w], attempts[w]) => StartWrite(w)
<1>1. RestType
  BY TypeInvParts
<1>2. /\ StepsLeft(wpc[w], attempts[w]) \in Int
      /\ StepsLeft(wpc'[w], attempts'[w]) \in Int
  <2>1. attempts[w] \in Int /\ WriteConfirmAttempts \in Int
    BY <1>1, ConstantsAssumption DEF RestType
  <2>2. attempts'[w] \in Int
    BY NextType, ConstantsAssumption DEF TypeInv, TypeOK
  <2> QED
    BY <2>1, <2>2 DEF StepsLeft
<1>3. CASE Write(w)
  BY <1>1, <1>2, <1>3, WriteGoes DEF Write, WriteLess
<1>4. CASE ~Write(w)
  <2>1. UNCHANGED <<wpc[w], attempts[w]>>
    <3>1. CASE \A v \in Writer : ~Write(v)
      BY <3>1, OthersKeepWrites
    <3>2. ASSUME NEW v \in Writer, Write(v)
          PROVE  UNCHANGED <<wpc[w], attempts[w]>>
      BY <1>1, <1>4, <3>2, WriteIsItsOwn
    <3> QED
      BY <3>1, <3>2
  <2> QED
    BY <1>2, <1>4, <2>1 DEF Write
<1> QED
  BY <1>3, <1>4

\* A step of the queue.
LEMMA QueueMoves ==
  ASSUME [Next]_vars
  PROVE  \/ bus' = bus
         \/ \E t \in Task : bus' = Append(bus, t)
         \/ \E t \in Task :
              /\ AtHead(t)
              /\ (t \in Refresher /\ ReadServed(t)) \/ (t \in Writer /\ WriteServed(t))
              /\ bus' = Tail(bus) \/ bus' = Append(Tail(bus), t)
<1>1. ASSUME NEW r \in Refresher, ReadServed(r)
      PROVE  AtHead(r) /\ (bus' = Tail(bus) \/ bus' = Append(Tail(bus), r))
  BY <1>1 DEF ReadServed, ReadAnswered, ReadRefused, RegisterInvalid, ReadFailed, ReadDone
<1>2. ASSUME NEW r \in Refresher, Refresh(r), ~ReadServed(r)
      PROVE  bus' = bus \/ bus' = Append(bus, r)
  BY <1>2 DEF Refresh, StartRefresh, AbortRefresh, BecameConnected, BecameConnectedRaises,
              PollComplete, vars
<1>3. ASSUME NEW w \in Writer, WriteServed(w)
      PROVE  AtHead(w) /\ (bus' = Tail(bus) \/ bus' = Append(Tail(bus), w))
  BY <1>3 DEF WriteServed, WriteAnswered, WriteUnanswered, WriteFailed, WriteConfirmed,
              ReadBackDiffers, ReadBackRaises
<1>4. ASSUME NEW w \in Writer, Write(w), ~WriteServed(w)
      PROVE  bus' = Append(bus, w)
  BY <1>4 DEF Write, StartWrite, ConfirmAgain
<1>5. ASSUME NEW e \in Entity, register_modbus_entity(e) \/ remove_modbus_entity(e)
      PROVE  bus' = bus
  BY <1>5 DEF register_modbus_entity, remove_modbus_entity
<1>6. Environment \/ UNCHANGED vars => bus' = bus
  BY DEF Environment, LinkChanges, WriteDelayOver, InverterChanges, vars
<1>7. Refresher \subseteq Task /\ Writer \subseteq Task
  BY DEF Task
<1>8. CASE \E r \in Refresher : Refresh(r)
  BY <1>1, <1>2, <1>7, <1>8
<1>9. CASE \E w \in Writer : Write(w)
  BY <1>3, <1>4, <1>7, <1>9
<1> QED
  BY <1>5, <1>6, <1>8, <1>9 DEF Next

\* Nobody who refreshes or writes is stuck, nobody is overtaken in the queue for
\* the client, and each answer leaves less to do, of finitely many reads and
\* _WRITE_CONFIRM_ATTEMPTS read-backs: a refresh and a write go on forever only
\* if the client, a callback or a sleep never returns (_read_all_registers,
\* _confirm_write_succeeded).
THEOREM CallsEnd ==
  Spec => []NobodyIsStuck /\ []FiniteReads /\ ServedInOrder /\ CallsComeToAnEnd
<1>1. [Next]_vars =>
        [\/ bus' = bus
         \/ \E t \in Task : bus' = Append(bus, t)
         \/ \E t \in Task :
              /\ AtHead(t)
              /\ (t \in Refresher /\ ReadServed(t)) \/ (t \in Writer /\ WriteServed(t))
              /\ bus' = Tail(bus) \/ bus' = Append(Tail(bus), t)]_vars
  BY QueueMoves
<1>2. TypeInv /\ FiniteReads /\ AttemptsLeft /\ [Next]_vars =>
        [/\ \A r \in Refresher :
              \/ rpc[r] = "idle"
              \/ UNCHANGED <<rpc[r], plan[r], singles[r]>>
              \/ PhasesLeft(rpc'[r]) < PhasesLeft(rpc[r])
              \/ rpc'[r] = rpc[r] /\ ReadServed(r) /\ ReadsLess(r)
         /\ \A r \in Refresher :
              ReadServed(r) => rpc'[r] # "reading" \/ ReadsLess(r)
         /\ \A w \in Writer :
              /\ WriteServed(w) \/ ConfirmAgain(w) =>
                   StepsLeft(wpc'[w], attempts'[w]) < StepsLeft(wpc[w], attempts[w])
              /\ StepsLeft(wpc'[w], attempts'[w]) > StepsLeft(wpc[w], attempts[w]) =>
                   StartWrite(w)]_vars
  BY RefreshWorks, WriteWorks DEF WriteLess
<1>3. Spec => ServedInOrder
  BY <1>1, PTL DEF Spec, ServedInOrder
<1>4. Spec => CallsComeToAnEnd
  BY <1>2, AlwaysTypeInv, AlwaysFinite, AlwaysAttemptsLeft, PTL DEF Spec, CallsComeToAnEnd
<1>5. Spec => []NobodyIsStuck
  BY AlwaysTypeInv, CallersWaitOnce, CallersMayGo, PTL
<1> QED
  BY <1>3, <1>4, <1>5, AlwaysFinite
===============================================================================
