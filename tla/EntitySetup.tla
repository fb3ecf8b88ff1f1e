----------------------------- MODULE EntitySetup -----------------------------
(***************************************************************************)
(* Setting up one inverter: its controller creates the remote control      *)
(* manager, then Home Assistant sets up the platforms in an order of its   *)
(* own; each creates the entities that the inverter supports, and each     *)
(* entity registers the registers it wants read.  The user may have        *)
(* disabled entities, and may remove and add them later.                   *)
(***************************************************************************)
EXTENDS EntityTables, FiniteSets, Functions

CONSTANTS
  Configs,    \* the inverters: [model, conn, version, max_read]
  MaxAbsent   \* bound: how many entities the user disables or removes

ASSUME ConfigsAssumption == \A c \in Configs : c.max_read \in Nat \ {0}

VARIABLES
  config,     \* inverter_details, and what its adapter reads at once (_max_read)
  pending,    \* the platforms that are not set up yet
  listeners,  \* _update_listeners of the controller
  data,       \* the keys of the controller's _data, with their poll types
  absent,     \* the entities that are disabled or were removed
  errors      \* the kinds of assertion that failed

vars == <<config, pending, listeners, data, absent, errors>>

PLATFORMS == {"sensor", "binary_sensor", "select", "number"}

-----------------------------------------------------------------------------
Profile  == ProfileFromConfig(config.model, config.conn)
Inverter == GetInvForVersion(Profile, config.version)

MatchesAnyType(specs) == {s \in specs : Inverter \in s.models}   \* mutant: ignores the type

MatchesAnyModel(specs) == {s \in specs : s.type = Profile.type}   \* mutant: ignores the Inv

Matches(specs) == {s \in specs : Inverter \in s.models /\ s.type = Profile.type}

Supported(desc) == Matches(desc.specs) # {}

Manager == {c \in REMOTE_CONTROL : Inverter \in c.models /\ c.type = Profile.type}

(* The assertions of create_entity_if_supported and of the constructors.   *)
AmbiguousSpec(desc) == \E specs \in {desc.specs, desc.other} : Cardinality(Matches(specs)) > 1

WrongWords(desc) == desc.words > 0 /\ \E s \in Matches(desc.specs) : Len(s.addresses) # desc.words

FaultWordsDiffer(desc) == desc.class = "fault" /\ WrongWords(desc)

StateWordsDiffer(desc) == desc.class = "g2_state" /\ WrongWords(desc)

OtherTimeMissing(desc) == desc.class = "time" /\ Supported(desc) # (Matches(desc.other) # {})

PeriodEndMissing(desc) ==
  desc.class = "force_charge" /\ Supported(desc) # (Matches(desc.other) # {})

NumberWithoutManager(desc) == desc.class = "rc_number" /\ Supported(desc) /\ Manager = {}

SelectWithoutManager(desc) == desc.class = "rc_select" /\ Supported(desc) /\ Manager = {}

CreateFails(desc) ==
  \/ AmbiguousSpec(desc) \/ WrongWords(desc)
  \/ FaultWordsDiffer(desc) \/ StateWordsDiffer(desc)
  \/ OtherTimeMissing(desc) \/ PeriodEndMissing(desc)
  \/ NumberWithoutManager(desc) \/ SelectWithoutManager(desc)

\* words: the registers its value is put together from; addresses: these
\* and those of its other register, all that it asks the controller for.
Listener(platform, key, words, addresses, poll_type, writes) ==
  [platform |-> platform, key |-> key, words |-> words, addresses |-> addresses,
   poll_type |-> poll_type, writes |-> writes]

WordsOf(specs) == UNION {Range(s.addresses) : s \in Matches(specs)}

Entity(desc) ==
  Listener(Platform(desc), desc.key, WordsOf(desc.specs),
           WordsOf(desc.specs) \union WordsOf(desc.other),
           IF desc.class = "version" THEN "ON_CONNECTION" ELSE "PERIODICALLY",
           desc.writes # {})

CreateEntities(platform) ==
  {Entity(desc) : desc \in {d \in ENTITIES : Platform(d) = platform /\ Supported(d)}}

ManagerEntity(c) ==
  Listener("manager", "remote_control", Range(c.active_power),
           UNION {Range(a) : a \in {c.battery_soc, c.work_mode, c.max_soc, c.battery_power,
                                    c.pwr_limit_bat_up, c.pv_voltages}},
           "PERIODICALLY", TRUE)

-----------------------------------------------------------------------------
\* register_modbus_entity, for each of the entities.
register_modbus_entities(entities) ==
  LET wanted == UNION {e.addresses : e \in entities}
  IN  /\ listeners' = listeners \union entities
      /\ data' = [a \in DOMAIN data \union wanted |->
                    IF a \in DOMAIN data THEN data[a]
                    ELSE (CHOOSE e \in entities : a \in e.addresses).poll_type]

RegisterErrors(entities) ==
  {"invalid range" : e \in {e \in entities : \E a \in e.addresses :
                              OverlapsInvalidRange(Profile, a)}}
  \union
  {"poll type" : e \in {e \in entities : \E a \in e.addresses :
                          \/ a \in DOMAIN data /\ data[a] # e.poll_type
                          \/ \E f \in entities : a \in f.addresses /\ f.poll_type # e.poll_type}}

RemovesAll(e) ==   \* mutant: forgets the registers that others still want
  [a \in DOMAIN data \ e.addresses |-> data[a]]

\* remove_modbus_entity: forgets the registers that only this entity wanted.
WithoutEntity(e) ==
  LET others == UNION {l.addresses : l \in listeners \ {e}}
  IN  [a \in DOMAIN data \ (e.addresses \ others) |-> data[a]]

-----------------------------------------------------------------------------
\* The controller is created, with its remote control manager.
Init ==
  /\ config \in Configs
  /\ pending = PLATFORMS
  /\ listeners = {ManagerEntity(c) : c \in Manager}
  /\ LET watched == UNION {l.addresses : l \in listeners}
     IN  data = [a \in watched |-> "PERIODICALLY"]
  /\ absent = {}
  /\ errors = UNION {{"two configs" : c \in {c \in Manager : Cardinality(Manager) > 1}},
                     RegisterErrors(listeners)}

\* async_setup_entry of a platform: its entities register, but for those
\* that the user has disabled.
SetupPlatform(platform) ==
  LET entities == CreateEntities(platform)
  IN  /\ platform \in pending
      /\ pending' = pending \ {platform}
      /\ \E disabled \in {{}} \union {{e} : e \in entities} :
           /\ Cardinality(absent \union disabled) <= MaxAbsent
           /\ absent' = absent \union disabled
           /\ register_modbus_entities(entities \ disabled)
           /\ errors' = errors
                \union {"description" : d \in {d \in ENTITIES : Platform(d) = platform /\ CreateFails(d)}}
                \union RegisterErrors(entities \ disabled)
      /\ UNCHANGED config

\* async_will_remove_from_hass: the user disables or deletes an entity.
RemoveEntity(e) ==
  /\ Cardinality(absent) < MaxAbsent
  /\ listeners' = listeners \ {e}
  /\ data' = WithoutEntity(e)
  /\ absent' = absent \union {e}
  /\ UNCHANGED <<config, pending, errors>>

Next ==
  \/ \E platform \in PLATFORMS : SetupPlatform(platform)
  \/ \E e \in {l \in listeners : l.platform # "manager"} : RemoveEntity(e)

Spec == Init /\ [][Next]_vars

-----------------------------------------------------------------------------
(* Properties.                                                             *)

\* No assertion of the tables' code fails on any supported inverter: each
\* description has at most one spec for it and as many registers as its class
\* needs, no register is in a range the profile calls invalid, and entities
\* that share a register agree on when to poll it (register_modbus_entity).
NoAssertionFails == errors = {}

\* All that an inverter may have.
Offered ==
  {ManagerEntity(c) : c \in Manager} \union {Entity(d) : d \in {d \in ENTITIES : Supported(d)}}

\* What listens is all that the inverter supports, of the platforms that are
\* set up, but for what the user has disabled; the controller polls the
\* registers that some listener wants and no other, as that listener asks, in
\* whatever order entities that share one come and go: the assertion that they
\* agree is made only when one of them registers (register_modbus_entity), and
\* remove_modbus_entity keeps what others share.
PollsWhatIsWanted ==
  /\ listeners = {l \in Offered : l.platform \notin pending} \ absent
  /\ DOMAIN data = UNION {l.addresses : l \in listeners}
  /\ errors = {} => \A l \in listeners : \A a \in l.addresses : data[a] = l.poll_type

\* The unique id of an entity is made of its platform and its key: two
\* entities with the same one would take each other's place (_create_unique_id).
UniqueIds(entities) ==
  \A l, m \in entities : l.platform = m.platform /\ l.key = m.key => l = m

\* No two settings share a register, so that none is changed by setting
\* another (ModbusNumber, ModbusSelect).
OneSettingPerRegister(entities) ==
  \A l, m \in entities : l.writes /\ m.writes /\ l.words \cap m.words # {} => l = m

NothingCollides == UniqueIds(listeners) /\ OneSettingPerRegister(listeners)

\* The addresses that Modbus has.
Register == 0 .. 65535

\* The tables speak of such registers, and no description of one that must not
\* be read.
RegistersFit ==
  /\ \A r \in Profile.special.invalid : r[1] \in Register /\ r[2] \in Register /\ r[1] <= r[2]
  /\ \A l \in Offered : \A a \in l.addresses :
       a \in Register /\ ~OverlapsInvalidRange(Profile, a)

\* A read begins and ends outside of the invalid ranges, so that it spans none
\* of one whose first address it does not span.
Grouping == INSTANCE ReadRanges WITH
  MaxRead <- config.max_read,
  Invalid <- {r[1] : r \in Profile.special.invalid},
  Individual <- {a \in Register : IsIndividualRead(Profile, a)}

\* When wanted is polled, each of the entities reads the words of its value in
\* one request.
ReadsWhole(wanted, entities) ==
  LET reads == Range(Grouping!CreateReadRanges(wanted))
  IN  \A l \in {l \in entities : Cardinality(l.words) > 1 /\ l.platform # "manager"} :
        \E r \in reads : l.words \subseteq Grouping!Span(r.start, r.count)

\* The models that the config flow still detects (autodetect).
DETECTED == {"IVEM", "TREX"}

\* The tables fit together: no description trips an assertion and no two
\* entities get in each other's way, however many of them are in use; with all
\* of them in use, the values of the detected models are read whole.  This is of
\* the inverter alone, whatever has been set up; the theorems start from it.
OffersFit ==
  /\ ~(Cardinality(Manager) > 1)
  /\ \A desc \in ENTITIES : ~CreateFails(desc)
  /\ RegistersFit
  /\ \A l, m \in Offered : l.addresses \cap m.addresses # {} => l.poll_type = m.poll_type
  /\ UniqueIds(Offered) /\ OneSettingPerRegister(Offered)
  /\ config.model \in DETECTED =>
       ReadsWhole(UNION {l.addresses : l \in {l \in Offered : l.poll_type = "PERIODICALLY"}},
                  Offered)

\* On the models that can be added today, the words of a value of several
\* words are read in one request and so are of one moment, with every
\* adapter: _create_read_ranges cuts the registers into reads without knowing
\* which of them belong together, so this hangs on the tables alone, and no
\* longer holds once the user has disabled an entity.
ValuesReadWhole ==
  pending = {} /\ absent = {} /\ config.model \in DETECTED =>
    ReadsWhole({a \in DOMAIN data : data[a] = "PERIODICALLY"}, listeners)
=============================================================================
