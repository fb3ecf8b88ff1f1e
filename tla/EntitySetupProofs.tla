--------------------------- MODULE EntitySetupProofs ---------------------------
(***************************************************************************)
(* Theorems about EntitySetup, for any set of inverters and any number of  *)
(* entities disabled or removed: what a controller polls, and when, is     *)
(* what its entities asked for, and where the tables of an inverter fit,   *)
(* no assertion fails, nothing collides and every request is one that the  *)
(* adapter and the profile allow, in any order of set-ups and removals.    *)
(***************************************************************************)
EXTENDS EntitySetup, FiniteSetTheorems, TLAPS

WantedBy(entities) == UNION {e.addresses : e \in entities}

\* The three parts of PollsWhatIsWanted.
AllListen == listeners = {l \in Offered : l.platform \notin pending} \ absent

Watched == DOMAIN data = WantedBy(listeners)

AsAsked == errors = {} => \A l \in listeners : \A a \in l.addresses : data[a] = l.poll_type

(***************************************************************************)
(* The two operations on the registers of a controller.                    *)
(***************************************************************************)

\* Registering entities adds the registers that they want and that were not
\* there; each gets the poll type of one of the entities that want it.
LEMMA RegisterAdds ==
  ASSUME NEW entities, register_modbus_entities(entities)
  PROVE  /\ listeners' = listeners \union entities
         /\ DOMAIN data' = DOMAIN data \union WantedBy(entities)
         /\ \A a \in DOMAIN data : data'[a] = data[a]
         /\ \A a \in WantedBy(entities) \ DOMAIN data :
              \E e \in entities : a \in e.addresses /\ data'[a] = e.poll_type
<1> DEFINE chosen(a) == CHOOSE e \in entities : a \in e.addresses
<1>1. /\ listeners' = listeners \union entities
      /\ data' = [a \in DOMAIN data \union WantedBy(entities) |->
                    IF a \in DOMAIN data THEN data[a] ELSE chosen(a).poll_type]
  BY DEF register_modbus_entities, WantedBy
<1>2. \A a \in WantedBy(entities) : chosen(a) \in entities /\ a \in chosen(a).addresses
  BY DEF WantedBy
<1> HIDE DEF chosen
<1>3. DOMAIN data' = DOMAIN data \union WantedBy(entities)
  BY <1>1
<1>4. \A a \in DOMAIN data : data'[a] = data[a]
  BY <1>1
<1>5. ASSUME NEW a \in WantedBy(entities) \ DOMAIN data
      PROVE  \E e \in entities : a \in e.addresses /\ data'[a] = e.poll_type
  <2>1. data'[a] = chosen(a).poll_type
    BY <1>1
  <2> QED
    BY <2>1, <1>2
<1> QED
  BY <1>1, <1>3, <1>4, <1>5

\* Removing an entity forgets the registers that no other wants.
LEMMA RemoveForgets ==
  ASSUME NEW e \in listeners, data' = WithoutEntity(e), Watched
  PROVE  /\ DOMAIN data' = WantedBy(listeners \ {e})
         /\ \A a \in DOMAIN data' : data'[a] = data[a]
<1> DEFINE others == WantedBy(listeners \ {e})
<1>1. data' = [a \in DOMAIN data \ (e.addresses \ others) |-> data[a]]
  BY DEF WithoutEntity, WantedBy
<1>2. DOMAIN data = e.addresses \union others
  BY DEF Watched, WantedBy
<1> HIDE DEF others
<1>3. DOMAIN data' = others
  BY <1>1, <1>2
<1>4. \A a \in DOMAIN data' : data'[a] = data[a]
  BY <1>1
<1> QED
  BY <1>3, <1>4 DEF others

\* When no assertion fails, the poll types of the entities that register agree
\* with those of the registers that are there, and with each other.
LEMMA NoErrorAgrees ==
  ASSUME NEW entities, RegisterErrors(entities) = {}
  PROVE  \A e \in entities : \A a \in e.addresses :
           /\ a \in DOMAIN data => data[a] = e.poll_type
           /\ \A f \in entities : a \in f.addresses => f.poll_type = e.poll_type
<1> DEFINE differ == {e \in entities : \E a \in e.addresses :
                        \/ a \in DOMAIN data /\ data[a] # e.poll_type
                        \/ \E f \in entities : a \in f.addresses /\ f.poll_type # e.poll_type}
<1>1. {"poll type" : e \in differ} = {}
  BY DEF RegisterErrors
<1>2. differ = {}
  BY <1>1
<1> QED
  BY <1>2


-------------------------------------------------------------------------------
(***************************************************************************)
(* The inverter stays the same, and so does what its tables offer.         *)
(***************************************************************************)

LEMMA OfferStays ==
  ASSUME config' = config
  PROVE  /\ Profile' = Profile /\ Manager' = Manager /\ Offered' = Offered
         /\ \A desc : CreateFails(desc)' = CreateFails(desc)
<1>1. Profile' = Profile
  BY DEF Profile
<1>2. Inverter' = Inverter
  BY <1>1 DEF Inverter
<1>3. Manager' = Manager
  BY <1>1, <1>2 DEF Manager
<1>4. ASSUME NEW specs
      PROVE  Matches(specs)' = Matches(specs)
  BY <1>1, <1>2 DEF Matches
<1>5. ASSUME NEW specs
      PROVE  WordsOf(specs)' = WordsOf(specs)
  BY <1>4 DEF WordsOf
<1>6. ASSUME NEW desc
      PROVE  Supported(desc)' = Supported(desc) /\ Entity(desc)' = Entity(desc)
  BY <1>4, <1>5 DEF Supported, Entity
<1>7. ASSUME NEW desc
      PROVE  CreateFails(desc)' = CreateFails(desc)
  BY <1>3, <1>4, <1>6 DEF CreateFails, AmbiguousSpec, WrongWords, FaultWordsDiffer,
     StateWordsDiffer, OtherTimeMissing, PeriodEndMissing, NumberWithoutManager,
     SelectWithoutManager
<1>8. Offered' = Offered
  BY <1>3, <1>6 DEF Offered
<1> QED
  BY <1>1, <1>3, <1>7, <1>8

\* What a platform creates is what the tables offer for it; what the manager
\* listens to belongs to none of the platforms.
LEMMA OfferedOfPlatform ==
  ASSUME NEW platform \in PLATFORMS
  PROVE  CreateEntities(platform) = {l \in Offered : l.platform = platform}
<1>1. \A desc : Entity(desc).platform = Platform(desc)
  BY DEF Entity, Listener
<1>2. \A c : ManagerEntity(c).platform = "manager"
  BY DEF ManagerEntity, Listener
<1>3. "manager" # platform
  BY DEF PLATFORMS
<1> QED
  BY <1>1, <1>2, <1>3 DEF CreateEntities, Offered

LEMMA OfferedOfNone ==
  {l \in Offered : l.platform \notin PLATFORMS} = {ManagerEntity(c) : c \in Manager}
<1>1. \A desc : Entity(desc).platform \in PLATFORMS
  BY DEF Entity, Listener, Platform, PLATFORMS
<1>2. \A c : ManagerEntity(c).platform \notin PLATFORMS
  BY DEF ManagerEntity, Listener, PLATFORMS
<1> QED
  BY <1>1, <1>2 DEF Offered

-------------------------------------------------------------------------------
(***************************************************************************)
(* PollsWhatIsWanted is inductive once only entities of platforms that are *)
(* set up are absent: which entity a register got its poll type from no    *)
(* longer shows when that entity has left, but all that want it agree.     *)
(***************************************************************************)
AbsentAreSetUp == \A e \in absent : e.platform \notin pending

IInv == AllListen /\ AbsentAreSetUp /\ Watched /\ AsAsked

LEMMA PolledAsWanted == IInv => PollsWhatIsWanted
  BY DEF IInv, AllListen, Watched, AsAsked, PollsWhatIsWanted, WantedBy

LEMMA InitIInv == Init => IInv
<1> SUFFICES ASSUME Init
             PROVE  IInv
  OBVIOUS
<1>1. data = [a \in WantedBy(listeners) |-> "PERIODICALLY"]
  BY DEF Init, WantedBy
<1>2. Watched
  BY <1>1 DEF Watched, WantedBy
<1>3. ASSUME NEW l \in listeners, NEW a \in l.addresses
      PROVE  data[a] = l.poll_type
  <2>1. PICK c \in Manager : l = ManagerEntity(c)
    BY DEF Init
  <2>2. l.poll_type = "PERIODICALLY"
    BY <2>1 DEF ManagerEntity, Listener
  <2>3. a \in WantedBy(listeners)
    BY DEF WantedBy
  <2> QED
    BY <1>1, <2>2, <2>3
<1>4. AllListen /\ AbsentAreSetUp
  BY OfferedOfNone DEF Init, AllListen, AbsentAreSetUp
<1> QED
  BY <1>2, <1>3, <1>4 DEF IInv, AsAsked

LEMMA SetupPlatformIInv ==
  ASSUME IInv, NEW platform \in PLATFORMS, SetupPlatform(platform)
  PROVE  IInv'
<1>1. PICK entities : /\ register_modbus_entities(entities)
                      /\ errors \subseteq errors'
                      /\ RegisterErrors(entities) \subseteq errors'
  BY DEF SetupPlatform
<1>2. /\ listeners' = listeners \union entities
      /\ DOMAIN data' = DOMAIN data \union WantedBy(entities)
      /\ \A a \in DOMAIN data : data'[a] = data[a]
      /\ \A a \in WantedBy(entities) \ DOMAIN data :
           \E e \in entities : a \in e.addresses /\ data'[a] = e.poll_type
  BY <1>1, RegisterAdds
<1>3. Watched'
  BY <1>2 DEF IInv, Watched, WantedBy
<1>4. ASSUME errors' = {}, NEW l \in listeners', NEW a \in l.addresses
      PROVE  data'[a] = l.poll_type
  <2>1. errors = {} /\ RegisterErrors(entities) = {}
    BY <1>1, <1>4
  <2>2. \A e \in entities : \A b \in e.addresses :
          /\ b \in DOMAIN data => data[b] = e.poll_type
          /\ \A f \in entities : b \in f.addresses => f.poll_type = e.poll_type
    BY <2>1, NoErrorAgrees
  <2>3. CASE l \in listeners
    <3>1. a \in DOMAIN data
      BY <2>3, <1>4 DEF IInv, Watched, WantedBy
    <3> QED
      BY <3>1, <2>1, <2>3, <1>2, <1>4 DEF IInv, AsAsked
  <2>4. CASE l \in entities /\ a \in DOMAIN data
    BY <2>4, <2>2, <1>2, <1>4
  <2>5. CASE l \in entities /\ a \notin DOMAIN data
    <3>1. a \in WantedBy(entities) \ DOMAIN data
      BY <2>5, <1>4 DEF WantedBy
    <3>2. PICK e \in entities : a \in e.addresses /\ data'[a] = e.poll_type
      BY <3>1, <1>2
    <3> QED
      BY <3>2, <2>2, <2>5, <1>4
  <2> QED
    BY <2>3, <2>4, <2>5, <1>2, <1>4
<1>5. AllListen' /\ AbsentAreSetUp'
  <2>1. PICK disabled \in {{}} \union {{e} : e \in CreateEntities(platform)} :
          /\ absent' = absent \union disabled
          /\ register_modbus_entities(CreateEntities(platform) \ disabled)
    BY DEF SetupPlatform
  <2>2. /\ platform \in pending /\ pending' = pending \ {platform}
        /\ config' = config
    BY DEF SetupPlatform
  <2>3. listeners' = listeners \union (CreateEntities(platform) \ disabled)
    BY <2>1 DEF register_modbus_entities
  <2>4. disabled \subseteq CreateEntities(platform) /\ Offered' = Offered
    BY <2>1, <2>2, OfferStays
  <2>5. CreateEntities(platform) = {l \in Offered : l.platform = platform}
    BY OfferedOfPlatform
  <2>6. listeners = {l \in Offered : l.platform \notin pending} \ absent /\ AbsentAreSetUp
    BY DEF IInv, AllListen
  <2>7. AbsentAreSetUp'
    BY <2>1, <2>2, <2>4, <2>5, <2>6 DEF AbsentAreSetUp
  <2>8. listeners' = {l \in Offered : l.platform \notin pending'} \ absent'
    BY <2>1, <2>2, <2>3, <2>4, <2>5, <2>6 DEF AbsentAreSetUp
  <2> QED
    BY <2>4, <2>7, <2>8 DEF AllListen
<1> QED
  BY <1>3, <1>4, <1>5 DEF IInv, AsAsked

LEMMA RemoveEntityIInv ==
  ASSUME IInv, NEW e \in listeners, RemoveEntity(e)
  PROVE  IInv'
<1>1. /\ listeners' = listeners \ {e}
      /\ data' = WithoutEntity(e)
      /\ errors' = errors
  BY DEF RemoveEntity
<1>2. /\ DOMAIN data' = WantedBy(listeners \ {e})
      /\ \A a \in DOMAIN data' : data'[a] = data[a]
  BY <1>1, RemoveForgets DEF IInv
<1>3. Watched'
  BY <1>1, <1>2 DEF Watched, WantedBy
<1>4. ASSUME errors' = {}, NEW l \in listeners', NEW a \in l.addresses
      PROVE  data'[a] = l.poll_type
  <2>1. l \in listeners \ {e} /\ a \in DOMAIN data'
    BY <1>1, <1>2, <1>4 DEF WantedBy
  <2>2. data[a] = l.poll_type
    BY <2>1, <1>1, <1>4 DEF IInv, AsAsked
  <2> QED
    BY <2>1, <2>2, <1>2
<1>5. AllListen' /\ AbsentAreSetUp'
  <2>1. absent' = absent \union {e} /\ pending' = pending /\ config' = config
    BY DEF RemoveEntity
  <2>2. Offered' = Offered
    BY <2>1, OfferStays
  <2> QED
    BY <1>1, <2>1, <2>2 DEF IInv, AllListen, AbsentAreSetUp
<1> QED
  BY <1>3, <1>4, <1>5 DEF IInv, AsAsked

LEMMA NextIInv == IInv /\ [Next]_vars => IInv'
<1> SUFFICES ASSUME IInv, [Next]_vars
             PROVE  IInv'
  OBVIOUS
<1>1. ASSUME NEW platform \in PLATFORMS, SetupPlatform(platform)
      PROVE  IInv'
  BY <1>1, SetupPlatformIInv
<1>2. ASSUME NEW e \in listeners, RemoveEntity(e)
      PROVE  IInv'
  BY <1>2, RemoveEntityIInv
<1>3. CASE UNCHANGED vars
  <2>1. Offered' = Offered
    BY <1>3, OfferStays DEF vars
  <2> QED
    BY <1>3, <2>1 DEF IInv, AllListen, AbsentAreSetUp, Watched, AsAsked, vars
<1> QED
  BY <1>1, <1>2, <1>3 DEF Next

-------------------------------------------------------------------------------
\* All that an inverter supports listens, but for what is disabled or not set up
\* yet; its controller polls the registers that its entities want and no other, in
\* whatever order platforms are set up and entities disabled and removed; and
\* as long as no assertion of register_modbus_entity has failed, each is
\* polled when every entity that wants it asked for, those included whose
\* registers others brought in and left behind (remove_modbus_entity).
THEOREM WhatIsWantedIsPolled == Spec => []PollsWhatIsWanted
<1>1. Spec => []IInv
  BY InitIInv, NextIInv, PTL DEF Spec
<1> QED
  BY <1>1, PolledAsWanted, PTL

-------------------------------------------------------------------------------
(***************************************************************************)
(* Tables that fit, fit in any order: all that ever listens is offered by  *)
(* them, and then no registration finds anything to object to.             *)
(***************************************************************************)
FitInv == OffersFit /\ errors = {}

\* The same registers are read in the same requests.
LEMMA GroupingStays ==
  ASSUME config' = config, NEW wanted
  PROVE  Grouping!CreateReadRanges(wanted)' = Grouping!CreateReadRanges(wanted)
<1>1. Profile' = Profile
  BY DEF Profile
<1> QED
  BY <1>1 DEF Grouping!CreateReadRanges, Grouping!FirstReadOf, Grouping!CanExtend,
     Grouping!overlaps_invalid_range, Grouping!is_individual_read, Grouping!Read

LEMMA TablesStay ==
  ASSUME config' = config
  PROVE  OffersFit' = OffersFit
<1>1. Profile' = Profile /\ Manager' = Manager /\ Offered' = Offered
  BY OfferStays
<1>2. ASSUME NEW desc
      PROVE  CreateFails(desc)' = CreateFails(desc)
  BY OfferStays
<1>3. RegistersFit' = RegistersFit
  BY <1>1 DEF RegistersFit
<1>4. ASSUME NEW wanted, NEW entities
      PROVE  ReadsWhole(wanted, entities)' = ReadsWhole(wanted, entities)
  BY GroupingStays DEF ReadsWhole
<1> QED
  BY <1>1, <1>2, <1>3, <1>4 DEF OffersFit

LEMMA OffersRegister ==
  ASSUME OffersFit, errors = {}, IInv,
         NEW entities, entities \subseteq Offered
  PROVE  RegisterErrors(entities) = {}
<1>1. \A e \in entities : \A a \in e.addresses : ~OverlapsInvalidRange(Profile, a)
  BY DEF OffersFit, RegistersFit
<1>2. \A e, f \in entities : \A a \in e.addresses : a \in f.addresses => f.poll_type = e.poll_type
  BY DEF OffersFit
<1>3. ASSUME NEW e \in entities, NEW a \in e.addresses, a \in DOMAIN data
      PROVE  data[a] = e.poll_type
  <2>1. PICK l \in listeners : a \in l.addresses
    BY <1>3 DEF IInv, Watched, WantedBy
  <2>2. data[a] = l.poll_type
    BY <2>1 DEF IInv, AsAsked
  <2>3. l \in Offered
    BY <2>1 DEF IInv, AllListen
  <2>4. a \in l.addresses \cap e.addresses
    BY <1>3, <2>1
  <2> QED
    BY <2>2, <2>3, <2>4 DEF OffersFit
<1>4. {e \in entities : \E a \in e.addresses : OverlapsInvalidRange(Profile, a)} = {}
  BY <1>1
<1>5. {e \in entities : \E a \in e.addresses :
          \/ a \in DOMAIN data /\ data[a] # e.poll_type
          \/ \E f \in entities : a \in f.addresses /\ f.poll_type # e.poll_type} = {}
  BY <1>2, <1>3
<1> QED
  BY <1>4, <1>5 DEF RegisterErrors

LEMMA InitFitInv == Init /\ OffersFit => FitInv
<1> SUFFICES ASSUME Init, OffersFit
             PROVE  FitInv
  OBVIOUS
<1>1. OffersFit
  OBVIOUS
<1>2. listeners = {ManagerEntity(c) : c \in Manager} /\ listeners \subseteq Offered
  BY DEF Init, Offered
<1>3. {c \in Manager : Cardinality(Manager) > 1} = {}
  BY <1>1 DEF OffersFit
<1>4. RegisterErrors(listeners) = {}
  <2>1. \A e \in listeners : \A a \in e.addresses : ~OverlapsInvalidRange(Profile, a)
    BY <1>1, <1>2 DEF OffersFit, RegistersFit
  <2>2. IInv
    BY InitIInv
  <2>3. \A e, f \in listeners : \A a \in e.addresses :
          a \in f.addresses => f.poll_type = e.poll_type
    BY <1>1, <1>2 DEF OffersFit
  <2>4. \A e \in listeners : e.poll_type = "PERIODICALLY"
    BY <1>2 DEF ManagerEntity, Listener
  <2>5. \A a \in DOMAIN data : data[a] = "PERIODICALLY"
    BY DEF Init
  <2>6. {e \in listeners : \E a \in e.addresses : OverlapsInvalidRange(Profile, a)} = {}
    BY <2>1
  <2>7. {e \in listeners : \E a \in e.addresses :
           \/ a \in DOMAIN data /\ data[a] # e.poll_type
           \/ \E f \in listeners : a \in f.addresses /\ f.poll_type # e.poll_type} = {}
    BY <2>3, <2>4, <2>5
  <2> QED
    BY <2>6, <2>7 DEF RegisterErrors
<1>5. errors = {}
  <2>1. errors = UNION {{"two configs" : c \in {c \in Manager : Cardinality(Manager) > 1}},
                        RegisterErrors(listeners)}
    BY DEF Init
  <2>2. {"two configs" : c \in {c \in Manager : Cardinality(Manager) > 1}} = {}
    BY <1>3
  <2> QED
    BY <1>4, <2>1, <2>2
<1> QED
  BY <1>1, <1>2, <1>5 DEF FitInv

LEMMA SetupPlatformFitInv ==
  ASSUME FitInv, IInv, NEW platform \in PLATFORMS, SetupPlatform(platform)
  PROVE  FitInv'
<1> DEFINE entities == CreateEntities(platform)
           failing == {d \in ENTITIES : Platform(d) = platform /\ CreateFails(d)}
<1>1. PICK disabled \in {{}} \union {{e} : e \in entities} :
        /\ register_modbus_entities(entities \ disabled)
        /\ errors' = errors \union {"description" : d \in failing}
                       \union RegisterErrors(entities \ disabled)
        /\ config' = config
  BY DEF SetupPlatform
<1>2. entities \ disabled \subseteq Offered
  BY DEF CreateEntities, Offered
<1>3. RegisterErrors(entities \ disabled) = {}
  BY <1>2, OffersRegister DEF FitInv
<1>4. failing = {}
  BY DEF FitInv, OffersFit
<1>5. errors' = {}
  BY <1>1, <1>3, <1>4 DEF FitInv
<1>6. OffersFit'
  BY <1>1, TablesStay DEF FitInv
<1> QED
  BY <1>5, <1>6 DEF FitInv

LEMMA NextFitInv == FitInv /\ IInv /\ [Next]_vars => FitInv'
<1> SUFFICES ASSUME FitInv, IInv, [Next]_vars
             PROVE  FitInv'
  OBVIOUS
<1>1. ASSUME NEW platform \in PLATFORMS, SetupPlatform(platform)
      PROVE  FitInv'
  BY <1>1, SetupPlatformFitInv
<1>2. ASSUME NEW e \in listeners, RemoveEntity(e)
      PROVE  FitInv'
  <2>1. config' = config /\ errors' = errors
    BY <1>2 DEF RemoveEntity
  <2> QED
    BY <2>1, TablesStay DEF FitInv
<1>3. CASE UNCHANGED vars
  BY <1>3, TablesStay DEF FitInv, vars
<1> QED
  BY <1>1, <1>2, <1>3 DEF Next

LEMMA FitInvariance == Spec /\ OffersFit => [](FitInv /\ IInv)
<1>1. Spec => []IInv
  BY InitIInv, NextIInv, PTL DEF Spec
<1> QED
  BY <1>1, InitFitInv, NextFitInv, PTL DEF Spec

\* No assertion fails, in any order of the platforms and with any entities
\* disabled or removed, on an inverter whose tables fit
\* (create_entity_if_supported, register_modbus_entity).
THEOREM AssertionsHold == Spec /\ OffersFit => []NoAssertionFails
<1>1. FitInv => NoAssertionFails
  BY DEF FitInv, NoAssertionFails
<1> QED
  BY <1>1, FitInvariance, PTL

\* Nor do two entities share a unique id, or two settings a register.
THEOREM NoneCollide == Spec /\ OffersFit => []NothingCollides
<1>1. FitInv /\ IInv => NothingCollides
  BY DEF FitInv, IInv, AllListen, OffersFit, NothingCollides, UniqueIds, OneSettingPerRegister
<1> QED
  BY <1>1, FitInvariance, PTL

-------------------------------------------------------------------------------
(***************************************************************************)
(* The requests of its polls: the theorems of ReadRangesProofs, for the    *)
(* adapter and the profile of the inverter.                                *)
(***************************************************************************)
GroupingFacts == INSTANCE ReadRangesProofs WITH
  MaxRead <- config.max_read,
  Invalid <- {r[1] : r \in Profile.special.invalid},
  Individual <- {a \in Register : IsIndividualRead(Profile, a)}

\* The inverters are the ones that there are, and stay the same.
ConfigInv == config \in Configs

LEMMA RegisterFacts == Register \subseteq Int /\ IsFiniteSet(Register)
<1>1. Register \subseteq Int
  BY DEF Register
<1> DEFINE first == 0
           last == 65535
<1>2. first \in Int /\ last \in Int /\ Register = first .. last
  BY DEF Register
<1> HIDE DEF first, last
<1>3. IsFiniteSet(Register)
  BY <1>2, FS_Interval
<1> QED
  BY <1>1, <1>3

\* What is polled is no invalid register.
LEMMA PolledMayBeRead ==
  ASSUME FitInv, IInv, NEW a \in DOMAIN data
  PROVE  a \in Register /\ ~OverlapsInvalidRange(Profile, a)
<1>1. PICK l \in Offered : a \in l.addresses
  BY DEF IInv, Watched, WantedBy, AllListen
<1> QED
  BY <1>1 DEF FitInv, OffersFit, RegistersFit

\* What ReadRanges assumes of its constants, and its theorems of what is wanted,
\* holds of each inverter.
LEMMA GroupingApplies ==
  ASSUME FitInv, IInv, ConfigInv, NEW wanted \in SUBSET DOMAIN data
  PROVE  /\ GroupingFacts!ReadRangesAssumption
         /\ wanted \in SUBSET Int /\ GroupingFacts!IsFiniteSet(wanted)
         /\ wanted \cap {r[1] : r \in Profile.special.invalid} = {}
<1> USE DEF FitInv
<1>1. config.max_read \in Nat \ {0}
  BY ConfigsAssumption DEF ConfigInv
<1>2. \A r \in Profile.special.invalid : r[1] \in Register /\ r[2] \in Register /\ r[1] <= r[2]
  BY DEF OffersFit, RegistersFit
<1>3. Register \subseteq Int
  BY RegisterFacts
<1>4. GroupingFacts!ReadRangesAssumption
  BY <1>1, <1>2, <1>3 DEF GroupingFacts!ReadRangesAssumption
<1>5. GroupingFacts!IsFiniteSet(wanted)
  <2>1. IsFiniteSet(wanted)
    BY RegisterFacts, PolledMayBeRead, FS_Subset
  <2> QED
    BY <2>1 DEF IsFiniteSet, GroupingFacts!IsFiniteSet
<1>6. ASSUME NEW r \in Profile.special.invalid, r[1] \in wanted
      PROVE  FALSE
  <2>1. r[1] \in Int /\ r[2] \in Int /\ r[1] <= r[2]
    BY <1>2, <1>3
  <2>2. r[1] \notin r[1] .. r[2]
    BY <1>6, PolledMayBeRead DEF OverlapsInvalidRange, InRanges
  <2> QED
    BY <2>1, <2>2
<1> QED
  BY <1>3, <1>4, <1>5, <1>6, PolledMayBeRead

\* ReadRangesProofs speaks of the same grouping.
LEMMA SameGrouping ==
  ASSUME NEW wanted
  PROVE  Grouping!CreateReadRanges(wanted) = GroupingFacts!CreateReadRanges(wanted)
BY DEF Grouping!CreateReadRanges, GroupingFacts!CreateReadRanges,
   Grouping!FirstReadOf, GroupingFacts!FirstReadOf, Grouping!CanExtend, GroupingFacts!CanExtend,
   Grouping!overlaps_invalid_range, GroupingFacts!overlaps_invalid_range,
   Grouping!is_individual_read, GroupingFacts!is_individual_read,
   Grouping!Read, GroupingFacts!Read, Grouping!Min, GroupingFacts!Min,
   Grouping!Max, GroupingFacts!Max

\* What a controller may send when wanted is what it polls.
Requested(request) == Grouping!Span(request.start, request.count)

LegalRequests(wanted, requests) ==
  /\ \A i \in DOMAIN requests :
       /\ requests[i].count <= config.max_read
       /\ \A a \in Requested(requests[i]) : ~OverlapsInvalidRange(Profile, a)
       /\ \A a \in wanted \cap Requested(requests[i]) :
            IsIndividualRead(Profile, a) => requests[i].count = 1
  /\ \A i, j \in DOMAIN requests : i < j => Requested(requests[i]) \cap Requested(requests[j]) = {}
  /\ \A a \in wanted : \E i \in DOMAIN requests : a \in Requested(requests[i])

RequestsAreLegal ==
  \A wanted \in SUBSET DOMAIN data :
    LegalRequests(wanted, Grouping!CreateReadRanges(wanted))

LEMMA LegalInState ==
  ASSUME FitInv, IInv, ConfigInv, NEW wanted \in SUBSET DOMAIN data
  PROVE  LegalRequests(wanted, Grouping!CreateReadRanges(wanted))
<1> DEFINE requests == Grouping!CreateReadRanges(wanted)
<1>1. GroupingFacts!LegalList(wanted, requests)
  <2>1. GroupingFacts!LegalList(wanted, GroupingFacts!CreateReadRanges(wanted))
    BY GroupingApplies, GroupingFacts!WholeListIsLegal DEF GroupingFacts!ReadRangesAssumption
  <2> QED
    BY <2>1, SameGrouping
<1> HIDE DEF requests
<1>2. ASSUME NEW i \in DOMAIN requests
      PROVE  requests[i].start \in Int /\ requests[i].count \in Int
  <2>1. requests \in Seq(GroupingFacts!ReadType)
    BY <1>1 DEF GroupingFacts!LegalList
  <2>2. requests[i] \in GroupingFacts!ReadType
    BY <2>1
  <2> QED
    BY <2>2 DEF GroupingFacts!ReadType
<1>3. ASSUME NEW i \in DOMAIN requests
      PROVE  GroupingFacts!GoodRequest(wanted, requests[i])
  BY <1>1 DEF GroupingFacts!LegalList
<1>4. \A a : GroupingFacts!Span(a.start, a.count) = Requested(a)
  BY DEF Requested, Grouping!Span, GroupingFacts!Span
<1>5. wanted \subseteq Int /\ \A a \in wanted : a \in Register /\ ~OverlapsInvalidRange(Profile, a)
  BY GroupingApplies, PolledMayBeRead
<1>6. ASSUME NEW i \in DOMAIN requests, NEW a \in Requested(requests[i])
      PROVE  ~OverlapsInvalidRange(Profile, a)
  <2>1. SUFFICES ASSUME NEW r \in Profile.special.invalid, a \in r[1] .. r[2]
                 PROVE  FALSE
    BY DEF OverlapsInvalidRange, InRanges
  <2>2. r[1] \in Int /\ r[2] \in Int
    <3>1. r[1] \in Register /\ r[2] \in Register
      BY DEF FitInv, OffersFit, RegistersFit
    <3> QED
      BY <3>1, RegisterFacts
  <2>3. requests[i].start \in wanted /\ r[1] \notin Requested(requests[i])
    BY <1>3, <1>4 DEF GroupingFacts!GoodRequest, GroupingFacts!Covers
  <2>4. requests[i].start \notin r[1] .. r[2]
    BY <1>5, <2>3 DEF OverlapsInvalidRange, InRanges
  <2>5. a \in Int /\ requests[i].start <= a /\ a <= requests[i].start + requests[i].count - 1
    BY <1>2, <1>6 DEF Requested, Grouping!Span
  <2> QED
    BY <1>2, <2>1, <2>2, <2>3, <2>4, <2>5 DEF Requested, Grouping!Span
<1>7. ASSUME NEW i \in DOMAIN requests
      PROVE  /\ requests[i].count <= config.max_read
             /\ \A a \in wanted \cap Requested(requests[i]) :
                  IsIndividualRead(Profile, a) => requests[i].count = 1
  BY <1>3, <1>4, <1>5 DEF GroupingFacts!GoodRequest, GroupingFacts!Covers
<1>8. ASSUME NEW i \in DOMAIN requests, NEW j \in DOMAIN requests, i < j
      PROVE  Requested(requests[i]) \cap Requested(requests[j]) = {}
  <2>1. requests[i].start + requests[i].count <= requests[j].start
    BY <1>1, <1>8 DEF GroupingFacts!LegalList
  <2> QED
    BY <1>2, <2>1 DEF Requested, Grouping!Span
<1>9. \A a \in wanted : \E i \in DOMAIN requests : a \in Requested(requests[i])
  BY <1>1, <1>4 DEF GroupingFacts!LegalList, GroupingFacts!Covers
<1> QED
  BY <1>6, <1>7, <1>8, <1>9 DEF LegalRequests, requests

\* Neighbouring registers are read in one request wherever no register that is
\* wanted is one where a read that begins there is full in their midst.
WordsStayTogether ==
  \A wanted \in SUBSET DOMAIN data : \A start \in Register, count \in Nat \ {0} :
    LET words == Grouping!Span(start, count)
        requests == Grouping!CreateReadRanges(wanted)
    IN  /\ words \subseteq wanted
        /\ \A a \in words : ~IsIndividualRead(Profile, a)
        /\ \A a \in wanted : ~(start < a + config.max_read /\ a + config.max_read < start + count)
        => \E i \in DOMAIN requests : words \subseteq Requested(requests[i])

LEMMA TogetherInState ==
  ASSUME FitInv, IInv, ConfigInv
  PROVE  WordsStayTogether
<1> SUFFICES ASSUME NEW wanted \in SUBSET DOMAIN data, NEW start \in Register,
                    NEW count \in Nat \ {0},
                    Grouping!Span(start, count) \subseteq wanted,
                    \A a \in Grouping!Span(start, count) : ~IsIndividualRead(Profile, a),
                    \A a \in wanted :
                      ~(start < a + config.max_read /\ a + config.max_read < start + count)
             PROVE  \E i \in DOMAIN Grouping!CreateReadRanges(wanted) :
                      Grouping!Span(start, count)
                        \subseteq Requested(Grouping!CreateReadRanges(wanted)[i])
  BY DEF WordsStayTogether
<1> DEFINE requests == Grouping!CreateReadRanges(wanted)
           words == Grouping!Span(start, count)
<1>1. start \in Int /\ wanted \subseteq Int
  BY RegisterFacts, GroupingApplies
<1>2. \A a, n : GroupingFacts!Span(a, n) = Grouping!Span(a, n)
  BY DEF Grouping!Span, GroupingFacts!Span
<1>3. words \cap {a \in Register : IsIndividualRead(Profile, a)} = {}
  OBVIOUS
<1>4. config.max_read \in Nat
  BY ConfigsAssumption DEF ConfigInv
<1>5. wanted \cap GroupingFacts!Cuts(start, count) = {}
  BY <1>1, <1>4 DEF GroupingFacts!Cuts
<1>6. GroupingFacts!Together(GroupingFacts!CreateReadRanges(wanted), start, count)
  <2>1. /\ GroupingFacts!Span(start, count) \subseteq wanted
        /\ GroupingFacts!Span(start, count)
             \cap {a \in Register : IsIndividualRead(Profile, a)} = {}
    BY <1>2, <1>3
  <2> HIDE DEF words
  <2> QED
    BY <1>1, <1>5, <2>1, GroupingApplies, GroupingFacts!WordsAreReadTogether
       DEF GroupingFacts!ReadRangesAssumption
<1>7. GroupingFacts!Together(requests, start, count)
  BY <1>6, SameGrouping
<1> HIDE DEF requests
<1>8. PICK i \in DOMAIN requests :
        \A w \in GroupingFacts!Span(start, count) : GroupingFacts!Covers(requests[i], w)
  BY <1>7 DEF GroupingFacts!Together
<1>9. words \subseteq Requested(requests[i])
  BY <1>2, <1>8 DEF GroupingFacts!Covers, Requested
<1> QED
  BY <1>9 DEF requests, words

LEMMA WholeInState ==
  ASSUME FitInv, IInv
  PROVE  ValuesReadWhole
<1> SUFFICES ASSUME pending = {}, absent = {}, config.model \in DETECTED
             PROVE  ReadsWhole({a \in DOMAIN data : data[a] = "PERIODICALLY"}, listeners)
  BY DEF ValuesReadWhole
<1> DEFINE polled == UNION {l.addresses : l \in {l \in Offered : l.poll_type = "PERIODICALLY"}}
<1>1. listeners = Offered
  BY DEF IInv, AllListen
<1>2. DOMAIN data = UNION {l.addresses : l \in Offered}
  BY <1>1 DEF IInv, Watched, WantedBy
<1>3. \A l \in Offered : \A a \in l.addresses : data[a] = l.poll_type
  BY <1>1 DEF FitInv, IInv, AsAsked
<1>4. {a \in DOMAIN data : data[a] = "PERIODICALLY"} = polled
  BY <1>2, <1>3
<1>5. ReadsWhole(polled, Offered)
  BY DEF FitInv, OffersFit
<1> QED
  BY <1>1, <1>4, <1>5

LEMMA ConfigInvariance == Spec => []ConfigInv
<1>1. Init => ConfigInv
  BY DEF Init, ConfigInv
<1>2. ConfigInv /\ [Next]_vars => ConfigInv'
  BY DEF ConfigInv, Next, SetupPlatform, RemoveEntity, vars
<1> QED
  BY <1>1, <1>2, PTL DEF Spec

\* On an inverter whose tables fit, whatever of it is set up, disabled or
\* removed, and whichever of the polled registers a poll is for (all of them on
\* connection, the periodic ones later): no request is longer than the adapter
\* reads, none touches an invalid range, a register that is to be read alone is,
\* none is read twice and none is left out (_create_read_ranges).
THEOREM EveryPollIsLegal == Spec /\ OffersFit => []RequestsAreLegal
<1>1. FitInv /\ IInv /\ ConfigInv => RequestsAreLegal
  BY LegalInState DEF RequestsAreLegal
<1> QED
  BY <1>1, FitInvariance, ConfigInvariance, PTL

\* And what keeps the words of a value in one request, however the entities come
\* and go, is that no polled register lies where a read that begins there is full
\* in their midst.
THEOREM WordsAreKeptTogether == Spec /\ OffersFit => []WordsStayTogether
<1>1. FitInv /\ IInv /\ ConfigInv => WordsStayTogether
  BY TogetherInState
<1> QED
  BY <1>1, FitInvariance, ConfigInvariance, PTL

\* The values of the detected models are read whole once all is set up and
\* nothing is disabled: what is polled then is what the tables offer, and all
\* that is periodic there, whatever the order that it was registered in.
THEOREM AllValuesReadWhole == Spec /\ OffersFit => []ValuesReadWhole
<1>1. FitInv /\ IInv => ValuesReadWhole
  BY WholeInState
<1> QED
  BY <1>1, FitInvariance, PTL
================================================================================
