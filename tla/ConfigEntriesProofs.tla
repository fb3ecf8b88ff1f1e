------------------------- MODULE ConfigEntriesProofs -------------------------
(***************************************************************************)
(* The safety properties of ConfigEntries, for any inverters, user input   *)
(* and old entries that ConfigEntriesAssumption admits: the controllers    *)
(* and the clients they share run as configured, each configured inverter  *)
(* has a connection of its own, at which one answers, and unique ids are   *)
(* kept.                                                                   *)
(*                                                                         *)
(* The first part is about entries alone: what holds of every entry of the *)
(* current version (Sound), and that migrations and saved options keep to  *)
(* it.  The second is about the flows and the reloads that change it.      *)
(***************************************************************************)
EXTENDS ConfigEntries, WellFoundedInduction, TLAPS

-----------------------------------------------------------------------------
PollKeys == {"poll_rate", "max_read"}

ConnectionKeys == {"modbus_type", "host", "modbus_slave"}

Answers(place, baud) ==
  \E o \in Out : <<o.protocol, o.host, o.slave>> = place /\ o.baud = baud

OptionsOf(e, id) == IF e.version > 1 /\ id \in DOMAIN e.options THEN e.options[id] ELSE <<>>

ConfigOf(e, id) == Updated(e.data[id], OptionsOf(e, id))

IdOf(e, id) == IdsBeginWith(e.version, ConfigOf(e, id))

\* What holds of one configuration c of an inverter and its data d.
SoundConfig(d, c) ==
  /\ PollKeys \cap DOMAIN d = {}
  /\ ConnectionKeys \union {"adapter_id", "unique_id_prefix"} \subseteq DOMAIN d
  /\ c.unique_id_prefix = d.unique_id_prefix
  /\ "modbus_serial_baud" \in DOMAIN c => Answers(Connection(c), c.modbus_serial_baud)

Sound(e) ==
  /\ DOMAIN e = {"version", "data", "options"}
  /\ e.version = VERSION
  /\ \A id \in DOMAIN e.data :
       /\ id \in Nat
       /\ SoundConfig(e.data[id], ConfigOf(e, id))
       /\ \A other \in DOMAIN e.data \ {id} :
            /\ Connection(ConfigOf(e, other)) # Connection(ConfigOf(e, id))
            /\ IdOf(e, other) # IdOf(e, id)

-----------------------------------------------------------------------------
(* The dicts.                                                              *)

LEMMA NoOptions ==
  ASSUME NEW c
  PROVE  /\ DOMAIN Updated(c, <<>>) = DOMAIN c
         /\ \A k \in DOMAIN c : Updated(c, <<>>)[k] = c[k]
<1>1. DOMAIN <<>> = {}
  OBVIOUS
<1> QED
  BY <1>1 DEF Updated

-----------------------------------------------------------------------------
(* Migration.                                                              *)

Has3(version, c, d) ==
  /\ DOMAIN d = DOMAIN c \union {"entity_id_prefix"}
  /\ \A k \in DOMAIN c : d[k] = c[k]
  /\ version <= 3 => d.entity_id_prefix = c.friendly_name

LEMMA Since3 ==
  ASSUME NEW version \in 1 .. 6, NEW c, "friendly_name" \in DOMAIN c,
         "entity_id_prefix" \in DOMAIN c <=> version > 3
  PROVE  Has3(version, c, Since(3, version, c))
<1>1. CASE version <= 3
  <2>1. Since(3, version, c) = Updated(c, [entity_id_prefix |-> c.friendly_name])
    BY <1>1 DEF Since, Step
  <2> QED
    BY <1>1, <2>1 DEF Updated, Has3
<1>2. CASE version > 3
  <2>1. Since(3, version, c) = c
    BY <1>2 DEF Since
  <2> QED
    BY <1>2, <2>1 DEF Has3
<1> QED
  BY <1>1, <1>2

Has4(c, d) ==
  /\ DOMAIN d = DOMAIN c \ PollKeys
  /\ \A k \in DOMAIN d \ {"friendly_name", "entity_id_prefix"} : d[k] = c[k]
  /\ NoName(d.entity_id_prefix) = NoName(c.entity_id_prefix)

LEMMA Since4 ==
  ASSUME NEW version \in 1 .. 6, NEW c,
         "friendly_name" \in DOMAIN c, "entity_id_prefix" \in DOMAIN c,
         version > 4 => PollKeys \cap DOMAIN c = {}
  PROVE  Has4(c, Since(4, version, c))
<1> DEFINE d == Since(4, version, c)
<1>1. CASE version <= 4
  <2> DEFINE kept == Without(c, {"poll_rate", "max_read"})
             more == [friendly_name |-> NoName(c.friendly_name),
                      entity_id_prefix |-> NoName(c.entity_id_prefix)]
  <2>1. d = Updated(kept, more)
    BY <1>1 DEF Since, Step
  <2>2. DOMAIN more = {"friendly_name", "entity_id_prefix"}
        /\ more["entity_id_prefix"] = NoName(c.entity_id_prefix)
    OBVIOUS
  <2>3. DOMAIN kept = DOMAIN c \ PollKeys /\ \A k \in DOMAIN kept : kept[k] = c[k]
    BY DEF PollKeys, Without
  <2> HIDE DEF d, kept, more
  <2>4. DOMAIN d = DOMAIN kept \union DOMAIN more
    BY <2>1 DEF Updated
  <2>5. d["entity_id_prefix"] = NoName(c.entity_id_prefix)
    BY <2>1, <2>2 DEF Updated
  <2>6. \A k \in DOMAIN kept : k \notin DOMAIN more => d[k] = kept[k]
    BY <2>1 DEF Updated
  <2>7. NoName(NoName(c.entity_id_prefix)) = NoName(c.entity_id_prefix)
    BY DEF NoName
  <2>8. Has4(c, d)
    BY <2>2, <2>3, <2>4, <2>5, <2>6, <2>7 DEF PollKeys, Has4
  <2> QED
    BY <2>8 DEF d
<1>2. CASE version > 4
  <2>1. Since(4, version, c) = c
    BY <1>2 DEF Since
  <2> QED
    BY <1>2, <2>1 DEF Has4
<1> QED
  BY <1>1, <1>2

Has5(c, d) ==
  /\ DOMAIN d = DOMAIN c
  /\ \A k \in DOMAIN c \ {"modbus_type"} : d[k] = c[k]
  /\ d.modbus_type = Lower(c.modbus_type)

LEMMA Since5 ==
  ASSUME NEW version \in 1 .. 6, NEW c, "modbus_type" \in DOMAIN c,
         version = 6 => Lower(c.modbus_type) = c.modbus_type
  PROVE  Has5(c, Since(5, version, c))
<1>1. CASE version <= 5
  <2>1. Since(5, version, c) = Updated(c, [modbus_type |-> Lower(c.modbus_type)])
    BY <1>1 DEF Since, Step
  <2> QED
    BY <2>1 DEF Updated, Has5
<1>2. CASE version = 6
  <2>1. Since(5, version, c) = c
    BY <1>2 DEF Since
  <2> QED
    BY <1>2, <2>1 DEF Has5
<1> QED
  BY <1>1, <1>2

Has6(c, d) ==
  /\ DOMAIN d = DOMAIN c \union {"unique_id_prefix"}
  /\ \A k \in DOMAIN c \ {"entity_id_prefix", "unique_id_prefix"} : d[k] = c[k]
  /\ d.unique_id_prefix = c.entity_id_prefix

LEMMA Since6 ==
  ASSUME NEW version \in 1 .. 6, NEW c, "entity_id_prefix" \in DOMAIN c
  PROVE  Has6(c, Since(6, version, c))
<1>1. Since(6, version, c)
        = Updated(c, [entity_id_prefix |-> Slug(c.entity_id_prefix),
                      unique_id_prefix |-> c.entity_id_prefix])
  BY DEF Since, Step, CleansPrefix
<1> QED
  BY <1>1 DEF Updated, Has6

\* What the migration of one inverter from any older version comes to: the
\* prefix of its unique ids is the name they had, its connection is written as
\* it is today, and the polling settings are gone (async_migrate_entry).
LEMMA UpgradedConfig ==
  ASSUME NEW version \in 1 .. 6, NEW c,
         {"friendly_name"} \union ConnectionKeys \subseteq DOMAIN c,
         "unique_id_prefix" \notin DOMAIN c,
         "entity_id_prefix" \in DOMAIN c <=> version > 3,
         version > 4 => PollKeys \cap DOMAIN c = {},
         version = 6 => Lower(c.modbus_type) = c.modbus_type,
         NEW d, d = Upgraded(version, c)
  PROVE  /\ PollKeys \cap DOMAIN d = {}
         /\ ConnectionKeys \union {"unique_id_prefix"} \subseteq DOMAIN d
         /\ "adapter_id" \in DOMAIN c => "adapter_id" \in DOMAIN d
         /\ d.modbus_type = Lower(c.modbus_type)
         /\ d.host = c.host /\ d.modbus_slave = c.modbus_slave
         /\ "modbus_serial_baud" \in DOMAIN d <=> "modbus_serial_baud" \in DOMAIN c
         /\ "modbus_serial_baud" \in DOMAIN c => d.modbus_serial_baud = c.modbus_serial_baud
         /\ NoName(d.unique_id_prefix)
              = NoName(IF version > 3 THEN c.entity_id_prefix ELSE c.friendly_name)
<1> DEFINE c3 == Since(3, version, c)
           c4 == Since(4, version, c3)
           c5 == Since(5, version, c4)
<1>1. d = Since(6, version, c5)
  BY DEF Upgraded
<1>2. Has3(version, c, c3)
  BY Since3
<1>3. "friendly_name" \in DOMAIN c3 /\ "entity_id_prefix" \in DOMAIN c3
      /\ (version > 4 => PollKeys \cap DOMAIN c3 = {})
  BY <1>2 DEF Has3, PollKeys
<1>4. Has4(c3, c4)
  BY <1>3, Since4
<1>5. "modbus_type" \in DOMAIN c4 /\ c4.modbus_type = c.modbus_type
      /\ "entity_id_prefix" \in DOMAIN c4
  BY <1>2, <1>3, <1>4 DEF Has3, Has4, PollKeys, ConnectionKeys
<1>6. Has5(c4, c5)
  <2>1. version = 6 => Lower(c4.modbus_type) = c4.modbus_type
    BY <1>5
  <2> QED
    BY <1>5, <2>1, Since5
<1>7. Has6(c5, d)
  <2>1. "entity_id_prefix" \in DOMAIN c5
    BY <1>5, <1>6 DEF Has5
  <2> QED
    BY <1>1, <2>1, Since6
<1> HIDE DEF c3, c4, c5
<1> USE DEF Has3, Has4, Has5, Has6
<1>8. DOMAIN d = (DOMAIN c \ PollKeys) \union {"entity_id_prefix", "unique_id_prefix"}
  BY <1>2, <1>4, <1>6, <1>7 DEF PollKeys
<1>9. PollKeys \cap DOMAIN d = {}
      /\ ConnectionKeys \union {"unique_id_prefix"} \subseteq DOMAIN d
      /\ ("adapter_id" \in DOMAIN c => "adapter_id" \in DOMAIN d)
      /\ ("modbus_serial_baud" \in DOMAIN d <=> "modbus_serial_baud" \in DOMAIN c)
  BY <1>8 DEF PollKeys, ConnectionKeys
<1>10. \A k \in DOMAIN c \ (PollKeys \union {"friendly_name", "entity_id_prefix", "modbus_type"}) :
          d[k] = c[k]
  BY <1>2, <1>4, <1>6, <1>7
<1>11. d.modbus_type = Lower(c.modbus_type)
  BY <1>5, <1>6, <1>7
<1>12. d.host = c.host /\ d.modbus_slave = c.modbus_slave
       /\ ("modbus_serial_baud" \in DOMAIN c => d.modbus_serial_baud = c.modbus_serial_baud)
  BY <1>10 DEF PollKeys, ConnectionKeys
<1>13. c5.entity_id_prefix = c4.entity_id_prefix
  BY <1>2, <1>4, <1>6 DEF PollKeys
<1>14. c3.entity_id_prefix = IF version > 3 THEN c.entity_id_prefix ELSE c.friendly_name
  BY <1>2
<1> QED
  BY <1>4, <1>7, <1>9, <1>11, <1>12, <1>13, <1>14

\* What the unique ids of a current configuration begin with.
LEMMA CurrentIds ==
  ASSUME NEW c, "unique_id_prefix" \in DOMAIN c
  PROVE  IdsBeginWith(VERSION, c) = NoName(c.unique_id_prefix)
  BY DEF IdsBeginWith, NoName, VERSION

\* One inverter of an old entry, and what becomes of it.
MigratedConfig(old, id) == ConfigOf(Migrated(old), id)

LEMMA MigratedInverter ==
  ASSUME NEW old, LeftBehind(old), NEW id \in TakenOver(old)
  PROVE  /\ SoundConfig(Migrated(old).data[id], MigratedConfig(old, id))
         /\ Connection(MigratedConfig(old, id)) = OldConnection(OldConfig(old, id))
         /\ IdOf(Migrated(old), id) = IdsBeginWith(old.version, old.data[id])
<1> DEFINE new == Migrated(old)
           start == IF old.version = 1 THEN Introduced(old.data[id]) ELSE old.data[id]
           d == new.data[id]
           options == OptionsOf(new, id)
           c == Updated(d, options)
           key == DOMAIN old.data[id]
<1>1. id \in DOMAIN old.data /\ old.version \in 1 .. 6
  BY DEF LeftBehind, TakenOver, VERSION
<1>2. /\ {"friendly_name", "modbus_type", "host", "modbus_slave"} \subseteq key
      /\ "unique_id_prefix" \notin DOMAIN OldConfig(old, id)
      /\ old.version > 1 => "adapter_id" \in key
      /\ "entity_id_prefix" \in key <=> old.version > 3
      /\ old.version > 4 => {"poll_rate", "max_read"} \cap key = {}
      /\ old.version = 6 => Lower(old.data[id].modbus_type) = old.data[id].modbus_type
      /\ "modbus_serial_baud" \in DOMAIN OldConfig(old, id) =>
           \E o \in Out : /\ <<o.protocol, o.host, o.slave>> = OldConnection(OldConfig(old, id))
                          /\ o.baud = OldConfig(old, id).modbus_serial_baud
  BY <1>1 DEF LeftBehind
<1>3. d = Upgraded(old.version, start) /\ new.version = 7
  BY DEF Migrated, VERSION
<1>4. /\ DOMAIN start = key \union (IF old.version = 1 THEN {"friendly_name", "adapter_id"} ELSE {})
      /\ \A k \in key \ {"friendly_name", "adapter_id"} : start[k] = old.data[id][k]
      /\ NoName(start.friendly_name)
           = IF old.version = 1 /\ old.data[id].friendly_name = "null" THEN ""
             ELSE NoName(old.data[id].friendly_name)
  <2>1. CASE old.version = 1
    <3> DEFINE name == IF old.data[id].friendly_name = "null" THEN ""
                       ELSE old.data[id].friendly_name
    <3>1. PICK adapter : start = Updated(old.data[id], [friendly_name |-> name,
                                                        adapter_id |-> adapter])
      BY <2>1 DEF Introduced
    <3>2. NoName(name) = IF old.data[id].friendly_name = "null" THEN ""
                         ELSE NoName(old.data[id].friendly_name)
      BY DEF NoName
    <3> HIDE DEF start, name
    <3>3. DOMAIN start = key \union {"friendly_name", "adapter_id"}
          /\ start["friendly_name"] = name
          /\ \A k \in key \ {"friendly_name", "adapter_id"} : start[k] = old.data[id][k]
      BY <3>1 DEF Updated
    <3> QED
      BY <2>1, <3>2, <3>3
  <2>2. CASE old.version # 1
    <3>1. start = old.data[id]
      BY <2>2
    <3> QED
      BY <2>2, <3>1
  <2> QED
    BY <2>1, <2>2
<1>5. /\ {"friendly_name", "adapter_id"} \union ConnectionKeys \subseteq DOMAIN start
      /\ "unique_id_prefix" \notin DOMAIN start
      /\ "entity_id_prefix" \in DOMAIN start <=> old.version > 3
      /\ old.version > 4 => PollKeys \cap DOMAIN start = {}
      /\ old.version = 6 => Lower(start.modbus_type) = start.modbus_type
  <2>1. "unique_id_prefix" \notin key
    BY <1>2 DEF OldConfig, Updated
  <2>2. "modbus_type" \in key /\ start["modbus_type"] = old.data[id]["modbus_type"]
    BY <1>2, <1>4
  <2> HIDE DEF start
  <2>3. {"friendly_name", "adapter_id"} \union ConnectionKeys \subseteq DOMAIN start
    <3>1. {"friendly_name"} \union ConnectionKeys \subseteq DOMAIN start
      BY <1>2, <1>4 DEF ConnectionKeys
    <3>2. CASE old.version = 1
      BY <1>4, <3>1, <3>2
    <3>3. CASE old.version > 1
      <4>1. "adapter_id" \in key
        BY <1>2, <3>3
      <4> QED
        BY <1>4, <3>1, <4>1
    <3> QED
      BY <1>1, <3>2, <3>3
  <2>4. "unique_id_prefix" \notin DOMAIN start
        /\ ("entity_id_prefix" \in DOMAIN start <=> old.version > 3)
        /\ (old.version > 4 => PollKeys \cap DOMAIN start = {})
    BY <1>1, <1>2, <1>4, <2>1 DEF PollKeys
  <2> QED
    BY <1>2, <2>2, <2>3, <2>4
<1> HIDE DEF start
<1>6. /\ PollKeys \cap DOMAIN d = {}
      /\ ConnectionKeys \union {"adapter_id", "unique_id_prefix"} \subseteq DOMAIN d
      /\ d.modbus_type = Lower(start.modbus_type)
      /\ d.host = start.host /\ d.modbus_slave = start.modbus_slave
      /\ "modbus_serial_baud" \in DOMAIN d <=> "modbus_serial_baud" \in DOMAIN start
      /\ "modbus_serial_baud" \in DOMAIN start => d.modbus_serial_baud = start.modbus_serial_baud
      /\ NoName(d.unique_id_prefix)
           = NoName(IF old.version > 3 THEN start.entity_id_prefix ELSE start.friendly_name)
  BY <1>1, <1>3, <1>5, UpgradedConfig
<1> DEFINE oc == OldConfig(old, id)
           places == {"modbus_type", "host", "modbus_slave", "modbus_serial_baud"}
<1>7. options = IF old.version = 1 THEN old.options
                ELSE IF id \in DOMAIN old.options THEN old.options[id] ELSE <<>>
  <2>1. CASE old.version = 1
    <3>1. new.options = [i \in TakenOver(old) |-> old.options]
      BY <2>1 DEF Migrated
    <3> QED
      BY <1>3, <2>1, <3>1 DEF OptionsOf
  <2>2. CASE old.version # 1
    <3>1. new.options = old.options
      BY <2>2 DEF Migrated
    <3> QED
      BY <1>3, <2>2, <3>1 DEF OptionsOf
  <2> QED
    BY <2>1, <2>2
<1>8. /\ "unique_id_prefix" \notin DOMAIN options
      /\ "modbus_type" \in DOMAIN options => Lower(options.modbus_type) = options.modbus_type
      /\ \A k \in places : /\ k \in DOMAIN oc <=> k \in key \union DOMAIN options
                           /\ k \in DOMAIN options => oc[k] = options[k]
                           /\ k \in key \ DOMAIN options => oc[k] = old.data[id][k]
  <2>1. CASE old.version = 1
    <3>1. DOMAIN options \subseteq {"poll_rate", "max_read"}
      BY <1>7, <2>1 DEF LeftBehind
    <3>2. oc = old.data[id]
      BY <2>1 DEF OldConfig
    <3> HIDE DEF options, oc
    <3> QED
      BY <3>1, <3>2
  <2>2. CASE old.version # 1 /\ id \in DOMAIN old.options
    <3>1. options = old.options[id]
      BY <1>7, <2>2
    <3>2. oc = Updated(old.data[id], options)
      BY <1>1, <2>2, <3>1 DEF OldConfig
    <3>3. "modbus_type" \in DOMAIN options => Lower(options.modbus_type) = options.modbus_type
      BY <1>1, <2>2, <3>1 DEF LeftBehind
    <3>4. "unique_id_prefix" \notin DOMAIN oc
      BY <1>2
    <3> HIDE DEF options, oc
    <3> QED
      BY <3>2, <3>3, <3>4 DEF Updated
  <2>3. CASE old.version # 1 /\ id \notin DOMAIN old.options
    <3>1. DOMAIN options = {}
      BY <1>7, <2>3
    <3>2. oc = old.data[id]
      BY <2>3 DEF OldConfig
    <3> HIDE DEF options, oc
    <3> QED
      BY <3>1, <3>2
  <2> QED
    BY <2>1, <2>2, <2>3
<1>9. DOMAIN c = DOMAIN d \union DOMAIN options
      /\ (\A k \in DOMAIN options : c[k] = options[k])
      /\ (\A k \in DOMAIN d \ DOMAIN options : c[k] = d[k])
  BY DEF Updated
<1>10. c = MigratedConfig(old, id)
  BY DEF MigratedConfig, ConfigOf
<1> HIDE DEF c, oc, options, d, new
<1>11. c.modbus_type = Lower(oc.modbus_type)
  <2>1. "modbus_type" \in key /\ "modbus_type" \in DOMAIN d
        /\ start["modbus_type"] = old.data[id]["modbus_type"]
    BY <1>2, <1>4, <1>6 DEF ConnectionKeys
  <2>2. CASE "modbus_type" \in DOMAIN options
    BY <1>8, <1>9, <2>1, <2>2
  <2>3. CASE "modbus_type" \notin DOMAIN options
    BY <1>6, <1>8, <1>9, <2>1, <2>3
  <2> QED
    BY <2>2, <2>3
<1>12. c.host = oc.host
  <2>1. "host" \in key /\ "host" \in DOMAIN d /\ start["host"] = old.data[id]["host"]
    BY <1>2, <1>4, <1>6 DEF ConnectionKeys
  <2> QED
    BY <1>6, <1>8, <1>9, <2>1
<1>13. c.modbus_slave = oc.modbus_slave
  <2>1. "modbus_slave" \in key /\ "modbus_slave" \in DOMAIN d
        /\ start["modbus_slave"] = old.data[id]["modbus_slave"]
    BY <1>2, <1>4, <1>6 DEF ConnectionKeys
  <2> QED
    BY <1>6, <1>8, <1>9, <2>1
<1>14. Connection(c) = OldConnection(oc)
  BY <1>11, <1>12, <1>13 DEF Connection, OldConnection
<1>15. "modbus_serial_baud" \in DOMAIN c =>
         "modbus_serial_baud" \in DOMAIN oc /\ c.modbus_serial_baud = oc.modbus_serial_baud
  <2>1. "modbus_serial_baud" \in DOMAIN start <=> "modbus_serial_baud" \in key
    BY <1>4
  <2>2. "modbus_serial_baud" \in key =>
          start["modbus_serial_baud"] = old.data[id]["modbus_serial_baud"]
    BY <1>4
  <2> QED
    BY <1>6, <1>8, <1>9, <2>1, <2>2
<1>16. "modbus_serial_baud" \in DOMAIN c => Answers(Connection(c), c.modbus_serial_baud)
  BY <1>2, <1>14, <1>15 DEF Answers, oc
<1>17. "unique_id_prefix" \in DOMAIN c /\ c.unique_id_prefix = d.unique_id_prefix
  BY <1>6, <1>8, <1>9
<1>18. SoundConfig(d, c)
  BY <1>6, <1>16, <1>17 DEF SoundConfig
<1>19. IdOf(new, id) = NoName(d.unique_id_prefix)
  <2>1. IdOf(new, id) = IdsBeginWith(VERSION, c)
    BY <1>3, <1>10 DEF IdOf, MigratedConfig, new, VERSION
  <2> QED
    BY <1>17, <2>1, CurrentIds
<1>20. NoName(d.unique_id_prefix) = IdsBeginWith(old.version, old.data[id])
  <2>1. "unique_id_prefix" \notin key
    BY <1>2 DEF OldConfig, Updated
  <2>2. CASE old.version > 3
    <3>1. start.entity_id_prefix = old.data[id].entity_id_prefix
      BY <1>2, <1>4, <2>2
    <3>2. "entity_id_prefix" \in key /\ old.version # 1
      BY <1>1, <1>2, <2>2
    <3>3. NoName(d.unique_id_prefix) = NoName(start.entity_id_prefix)
      BY <1>6, <2>2
    <3>4. IdsBeginWith(old.version, old.data[id]) = NoName(old.data[id].entity_id_prefix)
      BY <2>1, <3>2 DEF IdsBeginWith, NoName
    <3> QED
      BY <3>1, <3>3, <3>4
  <2>3. CASE old.version <= 3
    <3>1. "entity_id_prefix" \notin key
      BY <1>1, <1>2, <2>3
    <3>2. NoName(d.unique_id_prefix) = NoName(start.friendly_name)
      BY <1>1, <1>6, <2>3
    <3> QED
      BY <1>4, <2>1, <3>1, <3>2 DEF IdsBeginWith, NoName
  <2> QED
    BY <1>1, <2>2, <2>3
<1> QED
  BY <1>10, <1>14, <1>18, <1>19, <1>20 DEF d, new, oc

LEMMA OldIds ==
  ASSUME NEW old, LeftBehind(old), NEW id \in DOMAIN old.data
  PROVE  IdOf(old, id) = IdsBeginWith(old.version, old.data[id])
<1> DEFINE options == OptionsOf(old, id)
           data == old.data[id]
           c == ConfigOf(old, id)
<1>1. c = Updated(data, options)
  BY DEF ConfigOf
<1>2. /\ "unique_id_prefix" \notin DOMAIN data \union DOMAIN options
      /\ "friendly_name" \in DOMAIN data
      /\ \A key \in {"friendly_name", "entity_id_prefix"} \cap DOMAIN options :
           key \in DOMAIN data /\ options[key] = data[key]
  <2>1. "friendly_name" \in DOMAIN data /\ "unique_id_prefix" \notin DOMAIN OldConfig(old, id)
    BY DEF LeftBehind
  <2>2. CASE old.version > 1 /\ id \in DOMAIN old.options
    <3>1. options = old.options[id] /\ OldConfig(old, id) = Updated(data, options)
      BY <2>2 DEF OptionsOf, OldConfig
    <3>2. \A key \in {"friendly_name", "entity_id_prefix"} \cap DOMAIN options :
            key \in DOMAIN data /\ options[key] = data[key]
      BY <2>2, <3>1 DEF LeftBehind
    <3> HIDE DEF options, data
    <3> QED
      BY <2>1, <3>1, <3>2 DEF Updated
  <2>3. CASE ~(old.version > 1 /\ id \in DOMAIN old.options)
    <3>1. DOMAIN options = {}
      BY <2>3 DEF OptionsOf
    <3>2. OldConfig(old, id) = data
      BY <2>3 DEF OldConfig
    <3> HIDE DEF options, data
    <3> QED
      BY <2>1, <3>1, <3>2
  <2> QED
    BY <2>2, <2>3
<1> HIDE DEF options, data, c
<1>3. DOMAIN c = DOMAIN data \union DOMAIN options
      /\ (\A k \in DOMAIN options : c[k] = options[k])
      /\ (\A k \in DOMAIN data \ DOMAIN options : c[k] = data[k])
  BY <1>1 DEF Updated
<1>4. /\ "unique_id_prefix" \notin DOMAIN c /\ "unique_id_prefix" \notin DOMAIN data
      /\ "entity_id_prefix" \in DOMAIN c <=> "entity_id_prefix" \in DOMAIN data
  BY <1>2, <1>3
<1>5. "entity_id_prefix" \in DOMAIN c => c.entity_id_prefix = data.entity_id_prefix
  BY <1>2, <1>3
<1>6. c.friendly_name = data.friendly_name
  BY <1>2, <1>3
<1>7. IdsBeginWith(old.version, c) = IdsBeginWith(old.version, data)
  BY <1>4, <1>5, <1>6 DEF IdsBeginWith
<1> QED
  BY <1>7 DEF IdOf, c, data

\* Migration makes a sound entry of what an older version has left behind and
\* keeps the unique ids (async_migrate_entry).
LEMMA MigratedSound ==
  ASSUME NEW old, LeftBehind(old)
  PROVE  /\ Sound(Migrated(old))
         /\ \A id \in DOMAIN Migrated(old).data : IdOf(Migrated(old), id) = IdOf(old, id)
<1> DEFINE new == Migrated(old)
<1>1. /\ DOMAIN new = {"version", "data", "options"}
      /\ new.version = VERSION
      /\ DOMAIN new.data = TakenOver(old)
  BY DEF Migrated
<1>2. TakenOver(old) \subseteq DOMAIN old.data
  BY DEF TakenOver
<1>3. \A id \in TakenOver(old) : id \in Nat
  BY <1>2 DEF LeftBehind
<1>4. ASSUME NEW id \in TakenOver(old)
      PROVE  /\ SoundConfig(new.data[id], ConfigOf(new, id))
             /\ Connection(ConfigOf(new, id)) = OldConnection(OldConfig(old, id))
             /\ IdOf(new, id) = IdsBeginWith(old.version, old.data[id])
  BY MigratedInverter DEF MigratedConfig
<1>5. ASSUME NEW id \in TakenOver(old), NEW other \in TakenOver(old), other # id
      PROVE  /\ Connection(ConfigOf(new, other)) # Connection(ConfigOf(new, id))
             /\ IdOf(new, other) # IdOf(new, id)
  <2>1. OldConnection(OldConfig(old, other)) # OldConnection(OldConfig(old, id))
        /\ IdsBeginWith(old.version, old.data[other]) # IdsBeginWith(old.version, old.data[id])
    BY <1>2, <1>5 DEF LeftBehind
  <2> QED
    BY <1>4, <1>5, <2>1
<1> HIDE DEF new
<1>6. Sound(new)
  BY <1>1, <1>3, <1>4, <1>5 DEF Sound
<1>7. \A id \in DOMAIN new.data : IdOf(new, id) = IdOf(old, id)
  BY <1>1, <1>2, <1>4, OldIds
<1> QED
  BY <1>6, <1>7 DEF new

-----------------------------------------------------------------------------
(* Saved options.                                                          *)

Saved(e, id, options) == [e EXCEPT !.options = Updated(@, [i \in {id} |-> options])]

\* Options that leave the unique ids alone and connect to an inverter that
\* answers, and is none of the others, keep an entry sound.
LEMMA SavedSound ==
  ASSUME NEW e, Sound(e), NEW id \in DOMAIN e.data, NEW options,
         NEW c, c = Updated(e.data[id], options),
         c.unique_id_prefix = e.data[id].unique_id_prefix,
         "modbus_serial_baud" \in DOMAIN c => Answers(Connection(c), c.modbus_serial_baud),
         \A other \in DOMAIN e.data \ {id} : Connection(ConfigOf(e, other)) # Connection(c)
  PROVE  /\ Sound(Saved(e, id, options))
         /\ DOMAIN Saved(e, id, options).data = DOMAIN e.data
         /\ \A i \in DOMAIN e.data : IdOf(Saved(e, id, options), i) = IdOf(e, i)
<1> DEFINE new == Saved(e, id, options)
<1>1. /\ DOMAIN new = {"version", "data", "options"}
      /\ new.version = VERSION /\ e.version = VERSION
      /\ new.data = e.data
      /\ new.options = Updated(e.options, [i \in {id} |-> options])
  BY DEF Saved, Sound
<1> HIDE DEF new
<1>2. ConfigOf(new, id) = c
  <2>1. id \in DOMAIN new.options /\ new.options[id] = options
    BY <1>1 DEF Updated
  <2>2. OptionsOf(new, id) = options
    BY <1>1, <2>1 DEF OptionsOf, VERSION
  <2> QED
    BY <1>1, <2>2 DEF ConfigOf
<1>3. ASSUME NEW i \in DOMAIN e.data, i # id
      PROVE  ConfigOf(new, i) = ConfigOf(e, i)
  <2>1. /\ i \in DOMAIN new.options <=> i \in DOMAIN e.options
        /\ i \in DOMAIN e.options => new.options[i] = e.options[i]
    BY <1>1, <1>3 DEF Updated
  <2>2. OptionsOf(new, i) = OptionsOf(e, i)
    BY <1>1, <2>1 DEF OptionsOf
  <2> QED
    BY <1>1, <2>2 DEF ConfigOf
<1>4. "unique_id_prefix" \in DOMAIN c /\ "unique_id_prefix" \in DOMAIN ConfigOf(e, id)
  BY DEF Sound, SoundConfig, Updated, ConfigOf
<1>5. IdOf(new, id) = IdOf(e, id)
  <2>1. IdOf(new, id) = NoName(c.unique_id_prefix)
    BY <1>1, <1>2, <1>4, CurrentIds DEF IdOf
  <2>2. IdOf(e, id) = NoName(ConfigOf(e, id).unique_id_prefix)
    BY <1>1, <1>4, CurrentIds DEF IdOf
  <2>3. ConfigOf(e, id).unique_id_prefix = e.data[id].unique_id_prefix
    BY DEF Sound, SoundConfig
  <2> QED
    BY <2>1, <2>2, <2>3
<1>6. \A i \in DOMAIN e.data : IdOf(new, i) = IdOf(e, i)
  BY <1>1, <1>3, <1>5 DEF IdOf
<1>7. SoundConfig(e.data[id], c)
  BY DEF Sound, SoundConfig
<1>8. ASSUME NEW i \in DOMAIN e.data
      PROVE  i \in Nat /\ SoundConfig(new.data[i], ConfigOf(new, i))
  BY <1>1, <1>2, <1>3, <1>7 DEF Sound
<1>9. ASSUME NEW i \in DOMAIN e.data, NEW other \in DOMAIN e.data \ {i}
      PROVE  /\ Connection(ConfigOf(new, other)) # Connection(ConfigOf(new, i))
             /\ IdOf(new, other) # IdOf(new, i)
  <2>1. IdOf(new, other) # IdOf(new, i)
    BY <1>6 DEF Sound
  <2>2. Connection(ConfigOf(e, other)) # Connection(ConfigOf(e, i))
    BY DEF Sound
  <2>3. CASE i = id
    BY <1>2, <1>3, <2>1, <2>3
  <2>4. CASE other = id
    <3>1. Connection(ConfigOf(e, i)) # Connection(c)
      BY <2>4
    <3> QED
      BY <1>2, <1>3, <2>1, <2>4, <3>1
  <2>5. CASE i # id /\ other # id
    BY <1>3, <2>1, <2>2, <2>5
  <2> QED
    BY <2>3, <2>4, <2>5
<1>10. Sound(new)
  BY <1>1, <1>8, <1>9 DEF Sound
<1> QED
  BY <1>1, <1>6, <1>10 DEF new

-----------------------------------------------------------------------------
(* New inverters.                                                          *)

\* A connection at which detection has found an inverter.
NewConfig(c) ==
  /\ PollKeys \cap DOMAIN c = {}
  /\ ConnectionKeys \union {"adapter_id", "modbus_serial_baud"} \subseteq DOMAIN c
  /\ Answers(Connection(c), c.modbus_serial_baud)

\* The inverters that a config flow has collected.
Collected(all) ==
  /\ all \in Seq(Range(all))
  /\ \A i \in DOMAIN all :
       /\ NewConfig(all[i])
       /\ {"unique_id_prefix", "friendly_name"} \subseteq DOMAIN all[i]
       /\ all[i].unique_id_prefix = all[i].friendly_name
       /\ all[i].friendly_name \in Names
       /\ \A j \in DOMAIN all \ {i} : /\ Connection(all[j]) # Connection(all[i])
                                      /\ all[j].friendly_name # all[i].friendly_name

LEMMA CollectedSound ==
  ASSUME NEW all, Collected(all)
  PROVE  Sound([version |-> VERSION, data |-> all, options |-> <<>>])
<1> DEFINE e == [version |-> VERSION, data |-> all, options |-> <<>>]
<1>1. /\ DOMAIN e = {"version", "data", "options"}
      /\ e.version = VERSION /\ e.data = all /\ e.options = <<>>
  OBVIOUS
<1> HIDE DEF e
<1>2. ASSUME NEW i \in DOMAIN all
      PROVE  /\ i \in Nat
             /\ DOMAIN ConfigOf(e, i) = DOMAIN all[i]
             /\ \A k \in DOMAIN all[i] : ConfigOf(e, i)[k] = all[i][k]
  <2>1. DOMAIN all = 1 .. Len(all) /\ Len(all) \in Nat
    BY DEF Collected
  <2>2. i \in Nat
    BY <2>1
  <2>3. OptionsOf(e, i) = <<>>
    BY <1>1 DEF OptionsOf
  <2>4. ConfigOf(e, i) = Updated(all[i], <<>>)
    BY <1>1, <2>3 DEF ConfigOf
  <2> QED
    BY <2>2, <2>4, NoOptions
<1>3. ASSUME NEW i \in DOMAIN all
      PROVE  /\ SoundConfig(all[i], ConfigOf(e, i))
             /\ Connection(ConfigOf(e, i)) = Connection(all[i])
             /\ IdOf(e, i) = all[i].friendly_name
  <2> DEFINE c == ConfigOf(e, i)
  <2>1. DOMAIN c = DOMAIN all[i] /\ \A k \in DOMAIN all[i] : c[k] = all[i][k]
    BY <1>2
  <2>2. NewConfig(all[i]) /\ "unique_id_prefix" \in DOMAIN all[i]
        /\ all[i].unique_id_prefix = all[i].friendly_name /\ all[i].friendly_name \in Names
    BY DEF Collected
  <2> HIDE DEF c
  <2>3. Connection(c) = Connection(all[i]) /\ c.modbus_serial_baud = all[i].modbus_serial_baud
    BY <2>1, <2>2 DEF Connection, NewConfig, ConnectionKeys
  <2>4. c.unique_id_prefix = all[i].friendly_name
    BY <2>1, <2>2
  <2>5. SoundConfig(all[i], c)
    BY <2>1, <2>2, <2>3, <2>4 DEF SoundConfig, NewConfig
  <2>6. IdsBeginWith(VERSION, c) = NoName(c.unique_id_prefix)
    BY <2>1, <2>2, CurrentIds
  <2>7. all[i].friendly_name # None
    BY <2>2, ConfigEntriesAssumption
  <2>8. IdOf(e, i) = all[i].friendly_name
    BY <1>1, <2>4, <2>6, <2>7 DEF IdOf, NoName, c
  <2> QED
    BY <2>3, <2>5, <2>8 DEF c
<1>4. ASSUME NEW i \in DOMAIN all, NEW j \in DOMAIN all \ {i}
      PROVE  Connection(all[j]) # Connection(all[i]) /\ all[j].friendly_name # all[i].friendly_name
  BY DEF Collected
<1>5. Sound(e)
  BY <1>1, <1>2, <1>3, <1>4 DEF Sound
<1> QED
  BY <1>5 DEF e

\* That c is the inverter, connected at a place where detection has found it.
Connected(inverter, c, place) ==
  /\ DOMAIN c = DOMAIN inverter \union ConnectionKeys \union {"inverter_base", "modbus_serial_baud"}
  /\ Connection(c) = place
  /\ Answers(place, c.modbus_serial_baud)
  /\ "unique_id_prefix" \in DOMAIN inverter => c.unique_id_prefix = inverter.unique_id_prefix

LEMMA ConnectedConfig ==
  ASSUME NEW inverter, NEW protocol, NEW host, NEW slave, NEW baud,
         NEW details \in Detected(protocol, host, slave, baud),
         NEW c, c = Updated(Updated(inverter, [modbus_type |-> protocol, host |-> host,
                                               modbus_slave |-> slave]), details)
  PROVE  Connected(inverter, c, <<protocol, host, slave>>)
<1> DEFINE place == [modbus_type |-> protocol, host |-> host, modbus_slave |-> slave]
           placed == Updated(inverter, place)
<1>1. PICK o \in Out :
        /\ <<o.protocol, o.host, o.slave>> = <<protocol, host, slave>>
        /\ details = [inverter_base |-> autodetect(o.registers), modbus_serial_baud |-> o.baud]
  BY DEF Detected
<1>2. DOMAIN details = {"inverter_base", "modbus_serial_baud"}
      /\ details["modbus_serial_baud"] = o.baud
  BY <1>1
<1>3. DOMAIN place = ConnectionKeys /\ place["modbus_type"] = protocol /\ place["host"] = host
      /\ place["modbus_slave"] = slave
  BY DEF ConnectionKeys
<1> HIDE DEF place
<1>4. DOMAIN placed = DOMAIN inverter \union DOMAIN place
      /\ (\A k \in DOMAIN place : placed[k] = place[k])
      /\ (\A k \in DOMAIN inverter \ DOMAIN place : placed[k] = inverter[k])
  BY DEF Updated
<1>5. c = Updated(placed, details)
  BY DEF place
<1> HIDE DEF placed
<1>6. DOMAIN c = DOMAIN placed \union DOMAIN details
      /\ (\A k \in DOMAIN details : c[k] = details[k])
      /\ (\A k \in DOMAIN placed \ DOMAIN details : c[k] = placed[k])
  BY <1>5 DEF Updated
<1>7. DOMAIN c = DOMAIN inverter \union ConnectionKeys \union {"inverter_base", "modbus_serial_baud"}
  BY <1>2, <1>3, <1>4, <1>6
<1>8. c["modbus_type"] = protocol /\ c["host"] = host /\ c["modbus_slave"] = slave
  BY <1>2, <1>3, <1>4, <1>6 DEF ConnectionKeys
<1>9. Connection(c) = <<protocol, host, slave>>
  BY <1>8 DEF Connection
<1>10. c.modbus_serial_baud = o.baud
  BY <1>2, <1>6
<1>11. Answers(<<protocol, host, slave>>, c.modbus_serial_baud)
  BY <1>1, <1>10 DEF Answers
<1>12. "unique_id_prefix" \in DOMAIN inverter =>
         c.unique_id_prefix = inverter.unique_id_prefix
  BY <1>2, <1>3, <1>4, <1>6 DEF ConnectionKeys
<1> QED
  BY <1>7, <1>9, <1>11, <1>12 DEF Connected

-----------------------------------------------------------------------------
(* The inductive invariant.                                                *)

\* A flow with an id is an options flow of that inverter; one without is the
\* config flow, which ends when it creates the entry.
ConfigSteps ==
  {"none", "select_adapter_type", "connect", "friendly_name", "add_another_inverter"}

ConfigFlowInv(f, e) ==
  /\ f.step \in ConfigSteps
  /\ f.step # "none" => e = None
  /\ Collected(f.all)
  /\ PollKeys \cap DOMAIN f.inverter = {}
  /\ f.step = "connect" => "adapter_id" \in DOMAIN f.inverter
  /\ f.step = "friendly_name" =>
       /\ NewConfig(f.inverter)
       /\ \A i \in DOMAIN f.all : Connection(f.all[i]) # Connection(f.inverter)

OptionsFlowInv(f, e) ==
  /\ f.step \in {"inverter_options_category", "select_adapter_type", "connect"}
  /\ Sound(e)
  /\ f.id \in DOMAIN e.data
  /\ f.step # "inverter_options_category" =>
       /\ "unique_id_prefix" \in DOMAIN f.inverter
       /\ f.inverter.unique_id_prefix = e.data[f.id].unique_id_prefix

FlowInv ==
  /\ DOMAIN flow = {"step", "id", "all", "inverter"}
  /\ flow.id = None => ConfigFlowInv(flow, entry)
  /\ flow.id # None => OptionsFlowInv(flow, entry)

\* Only a sound entry is ever set up, and what runs while nothing is to be
\* done is what it says.
EntryInv ==
  /\ entry # None => entry \in OldEntries \/ Sound(entry)
  /\ reload = "migrate" => entry # None /\ entry \in OldEntries
  /\ reload \in {"setup", "unload"} => Sound(entry)

RunningInv ==
  running # None =>
    /\ reload # "migrate"
    /\ Sound(entry)
    /\ reload = "idle" =>
         /\ running = [id \in DOMAIN entry.data |-> Settings(id)]
         /\ clients = Clients
         /\ \A id \in DOMAIN entry.data : "modbus_serial_baud" \in DOMAIN Settings(id)

IInv == FlowInv /\ EntryInv /\ RunningInv

LEMMA CurrentConfigs ==
  ASSUME NEW id
  PROVE  /\ Options(id) = OptionsOf(entry, id)
         /\ _config_for_inverter(id) = ConfigOf(entry, id)
         /\ UniqueId(id) = IdOf(entry, id)
  BY DEF Options, OptionsOf, _config_for_inverter, ConfigOf, UniqueId, IdOf

LEMMA OldOrSound ==
  ASSUME EntryInv, entry # None, entry.version = VERSION
  PROVE  Sound(entry)
<1>1. \A old \in OldEntries : old.version # VERSION
  BY ConfigEntriesAssumption DEF LeftBehind, VERSION
<1> QED
  BY <1>1 DEF EntryInv

LEMMA NoFlowIsRight ==
  ASSUME NEW e
  PROVE  /\ DOMAIN NoFlow = {"step", "id", "all", "inverter"}
         /\ NoFlow.id = None
         /\ ConfigFlowInv(NoFlow, e)
<1>1. DOMAIN <<>> = {}
  OBVIOUS
<1>2. <<>> \in Seq(Range(<<>>))
  OBVIOUS
<1>3. Collected(<<>>)
  BY <1>1, <1>2 DEF Collected
<1>4. NoFlow.step = "none" /\ NoFlow.all = <<>> /\ NoFlow.inverter = <<>> /\ NoFlow.id = None
      /\ DOMAIN NoFlow = {"step", "id", "all", "inverter"}
  BY DEF NoFlow
<1> QED
  BY <1>1, <1>3, <1>4 DEF ConfigFlowInv, ConfigSteps

LEMMA NoFlowKeeps ==
  ASSUME flow' = NoFlow
  PROVE  FlowInv'
<1>1. DOMAIN flow' = {"step", "id", "all", "inverter"} /\ flow'.id = None
      /\ ConfigFlowInv(flow', entry')
  BY NoFlowIsRight
<1> QED
  BY <1>1 DEF FlowInv

\* What is made of an entry depends on the entry alone.
LEMMA SameConfigs ==
  ASSUME entry' = entry
  PROVE  /\ \A id : Settings(id)' = Settings(id)
         /\ Clients' = Clients
<1>1. \A id : Settings(id)' = Settings(id)
  BY DEF Settings, _config_for_inverter, Options
<1>2. Clients' = Clients
  BY DEF Clients, IsFirst, Settings, _config_for_inverter, Options
<1> QED
  BY <1>1, <1>2

LEMMA SameLoaded ==
  ASSUME RunningInv, UNCHANGED <<entry, reload, loaded>>
  PROVE  RunningInv'
<1>1. running' = running /\ clients' = clients
  BY DEF loaded
<1> QED
  BY <1>1, SameConfigs DEF RunningInv

\* Steps that only go on with a flow have only that flow to keep right.
LEMMA FlowOnly ==
  ASSUME IInv, UNCHANGED <<entry, reload, loaded, changes>>, FlowInv'
  PROVE  IInv'
<1>1. EntryInv'
  BY DEF IInv, EntryInv
<1>2. RunningInv'
  BY SameLoaded DEF IInv
<1> QED
  BY <1>1, <1>2 DEF IInv

-----------------------------------------------------------------------------
(* The steps of the config flow.                                           *)

LEMMA UserStep ==
  ASSUME IInv, async_step_user
  PROVE  IInv'
<1>1. /\ entry = None
      /\ flow' = [NoFlow EXCEPT !.step = "select_adapter_type"]
      /\ UNCHANGED <<entry, reload, loaded, changes>>
  BY DEF async_step_user
<1>2. /\ DOMAIN NoFlow = {"step", "id", "all", "inverter"} /\ NoFlow.id = None
      /\ ConfigFlowInv(NoFlow, entry)
  BY NoFlowIsRight
<1>3. /\ DOMAIN flow' = {"step", "id", "all", "inverter"}
      /\ flow'.step = "select_adapter_type" /\ flow'.id = None
      /\ flow'.all = NoFlow.all /\ flow'.inverter = NoFlow.inverter
  BY <1>1, <1>2
<1>4. ConfigFlowInv(flow', entry')
  BY <1>1, <1>2, <1>3 DEF ConfigFlowInv, ConfigSteps
<1>5. FlowInv'
  BY <1>3, <1>4 DEF FlowInv
<1> QED
  BY <1>1, <1>5, FlowOnly

\* Choosing an adapter is a step of both flows.
LEMMA AdapterStep ==
  ASSUME IInv, NEW adapter, async_step_select_adapter_type(adapter)
  PROVE  IInv'
<1> DEFINE more == [adapter_id |-> adapter,
                    inverter_conn |-> ADAPTERS[adapter].connection_type]
           new == Updated(flow.inverter, more)
<1>1. /\ flow.step = "select_adapter_type"
      /\ flow' = [flow EXCEPT !.step = "connect", !.inverter = new]
      /\ UNCHANGED <<entry, reload, loaded, changes>>
  BY DEF async_step_select_adapter_type
<1>2. DOMAIN more = {"adapter_id", "inverter_conn"}
  OBVIOUS
<1> HIDE DEF more
<1>3. DOMAIN new = DOMAIN flow.inverter \union {"adapter_id", "inverter_conn"}
      /\ \A k \in DOMAIN flow.inverter \ {"adapter_id", "inverter_conn"} : new[k] = flow.inverter[k]
  BY <1>2 DEF Updated
<1> HIDE DEF new
<1>4. DOMAIN flow = {"step", "id", "all", "inverter"}
  BY DEF IInv, FlowInv
<1>5. /\ DOMAIN flow' = {"step", "id", "all", "inverter"}
      /\ flow'.step = "connect" /\ flow'.id = flow.id
      /\ flow'.all = flow.all /\ flow'.inverter = new
  BY <1>1, <1>4
<1>6. ASSUME flow.id = None
      PROVE  ConfigFlowInv(flow', entry')
  <2>1. ConfigFlowInv(flow, entry)
    BY <1>6 DEF IInv, FlowInv
  <2>2. PollKeys \cap DOMAIN new = {}
    BY <1>3, <2>1 DEF ConfigFlowInv, PollKeys
  <2> QED
    BY <1>1, <1>3, <1>5, <2>1, <2>2 DEF ConfigFlowInv, ConfigSteps
<1>7. ASSUME flow.id # None
      PROVE  OptionsFlowInv(flow', entry')
  <2>1. OptionsFlowInv(flow, entry)
    BY <1>7 DEF IInv, FlowInv
  <2>2. "unique_id_prefix" \in DOMAIN new /\ new.unique_id_prefix = flow.inverter.unique_id_prefix
    BY <1>1, <1>3, <2>1 DEF OptionsFlowInv
  <2> QED
    BY <1>1, <1>5, <2>1, <2>2 DEF OptionsFlowInv
<1>8. FlowInv'
  BY <1>5, <1>6, <1>7 DEF FlowInv
<1> QED
  BY <1>1, <1>8, FlowOnly

LEMMA NewConnectionStep ==
  ASSUME IInv, NEW protocol, NEW host, NEW slave, NEW baud,
         NewConnection(protocol, host, slave, baud)
  PROVE  IInv'
<1>1. /\ flow.id = None /\ flow.step = "connect"
      /\ \A other \in Range(flow.all) : Connection(other) # <<protocol, host, slave>>
      /\ UNCHANGED <<entry, reload, loaded, changes>>
  BY DEF NewConnection, Connects
<1>2. PICK details \in Detected(protocol, host, slave, baud) :
        flow' = [flow EXCEPT !.step = "friendly_name",
                   !.inverter = ConnectedAs(protocol, host, slave, baud, details)]
  BY DEF NewConnection
<1> DEFINE new == ConnectedAs(protocol, host, slave, baud, details)
<1>3. Connected(flow.inverter, new, <<protocol, host, slave>>)
  BY ConnectedConfig DEF ConnectedAs
<1> HIDE DEF new
<1>4. DOMAIN flow = {"step", "id", "all", "inverter"} /\ ConfigFlowInv(flow, entry)
  BY <1>1 DEF IInv, FlowInv
<1>5. /\ DOMAIN flow' = {"step", "id", "all", "inverter"}
      /\ flow'.step = "friendly_name" /\ flow'.id = None
      /\ flow'.all = flow.all /\ flow'.inverter = new
  BY <1>1, <1>2, <1>4 DEF new
<1>6. PollKeys \cap DOMAIN new = {}
      /\ ConnectionKeys \union {"adapter_id", "modbus_serial_baud"} \subseteq DOMAIN new
  BY <1>1, <1>3, <1>4 DEF Connected, ConfigFlowInv, PollKeys, ConnectionKeys
<1>7. NewConfig(new) /\ Connection(new) = <<protocol, host, slave>>
  BY <1>3, <1>6 DEF Connected, NewConfig
<1>8. \A i \in DOMAIN flow.all : Connection(flow.all[i]) # Connection(new)
  <2>1. \A i \in DOMAIN flow.all : flow.all[i] \in Range(flow.all)
    BY DEF Range
  <2> QED
    BY <1>1, <1>7, <2>1
<1>9. ConfigFlowInv(flow', entry')
  BY <1>1, <1>4, <1>5, <1>6, <1>7, <1>8 DEF ConfigFlowInv, ConfigSteps
<1>10. FlowInv'
  BY <1>5, <1>9 DEF FlowInv
<1> QED
  BY <1>1, <1>10, FlowOnly

LEMMA FriendlyNameStep ==
  ASSUME IInv, NEW name \in Names, NEW prefix, async_step_friendly_name(name, prefix)
  PROVE  IInv'
<1> DEFINE more == [entity_id_prefix |-> prefix, unique_id_prefix |-> name, friendly_name |-> name]
           new == Updated(flow.inverter, more)
           all == Append(flow.all, new)
<1>1. /\ flow.step = "friendly_name"
      /\ \A x \in Range(flow.all) : x.friendly_name # name
      /\ flow' = [flow EXCEPT !.step = "add_another_inverter", !.inverter = <<>>, !.all = all]
      /\ UNCHANGED <<entry, reload, loaded, changes>>
  BY DEF async_step_friendly_name
<1>2. DOMAIN flow = {"step", "id", "all", "inverter"}
      /\ flow.id = None /\ ConfigFlowInv(flow, entry)
  BY <1>1 DEF IInv, FlowInv, OptionsFlowInv
<1>3. DOMAIN more = {"entity_id_prefix", "unique_id_prefix", "friendly_name"}
      /\ more["unique_id_prefix"] = name /\ more["friendly_name"] = name
  OBVIOUS
<1> HIDE DEF more
<1>4. /\ DOMAIN new = DOMAIN flow.inverter \union DOMAIN more
      /\ new["unique_id_prefix"] = name /\ new["friendly_name"] = name
      /\ \A k \in DOMAIN flow.inverter \ DOMAIN more : new[k] = flow.inverter[k]
  BY <1>3 DEF Updated
<1>5. NewConfig(new) /\ Connection(new) = Connection(flow.inverter)
  <2>1. NewConfig(flow.inverter)
    BY <1>1, <1>2 DEF ConfigFlowInv
  <2>2. PollKeys \cap DOMAIN new = {}
        /\ ConnectionKeys \union {"adapter_id", "modbus_serial_baud"} \subseteq DOMAIN new
    BY <1>3, <1>4, <2>1 DEF NewConfig, PollKeys
  <2>3. \A k \in ConnectionKeys \union {"modbus_serial_baud"} : new[k] = flow.inverter[k]
    BY <1>3, <1>4, <2>1 DEF NewConfig, ConnectionKeys
  <2>4. Connection(new) = Connection(flow.inverter)
        /\ new.modbus_serial_baud = flow.inverter.modbus_serial_baud
    BY <2>3 DEF Connection, ConnectionKeys
  <2> QED
    BY <2>1, <2>2, <2>4 DEF NewConfig
<1>6. {"unique_id_prefix", "friendly_name"} \subseteq DOMAIN new
      /\ new.unique_id_prefix = name /\ new.friendly_name = name
  BY <1>3, <1>4
<1> HIDE DEF new
<1>7. Collected(flow.all)
      /\ \A i \in DOMAIN flow.all : Connection(flow.all[i]) # Connection(new)
                                    /\ flow.all[i].friendly_name # name
  <2>1. \A i \in DOMAIN flow.all : flow.all[i] \in Range(flow.all)
    BY DEF Range
  <2>2. \A i \in DOMAIN flow.all : Connection(flow.all[i]) # Connection(flow.inverter)
    BY <1>1, <1>2 DEF ConfigFlowInv
  <2> QED
    BY <1>1, <1>2, <1>5, <2>1, <2>2 DEF ConfigFlowInv
<1>8. /\ DOMAIN all = DOMAIN flow.all \union {Len(flow.all) + 1}
      /\ Len(flow.all) + 1 \notin DOMAIN flow.all
      /\ all[Len(flow.all) + 1] = new
      /\ \A i \in DOMAIN flow.all : all[i] = flow.all[i]
      /\ all \in Seq(Range(all))
  <2> DEFINE S == Range(flow.all) \union {new}
  <2>1. flow.all \in Seq(S)
    <3>1. flow.all \in Seq(Range(flow.all))
      BY <1>7 DEF Collected
    <3> QED
      BY <3>1
  <2>2. /\ DOMAIN flow.all = 1 .. Len(flow.all) /\ Len(flow.all) \in Nat
        /\ all \in Seq(S) /\ Len(all) = Len(flow.all) + 1
        /\ DOMAIN all = 1 .. Len(all)
        /\ \A i \in 1 .. Len(flow.all) : all[i] = flow.all[i]
        /\ all[Len(flow.all) + 1] = new
    BY <2>1
  <2>3. DOMAIN all = DOMAIN flow.all \union {Len(flow.all) + 1}
        /\ Len(flow.all) + 1 \notin DOMAIN flow.all
    BY <2>2
  <2>4. \A i \in 1 .. Len(all) : all[i] \in Range(all)
    BY <2>2 DEF Range
  <2>5. all \in Seq(Range(all))
    BY <2>2, <2>4
  <2> QED
    BY <2>2, <2>3, <2>5
<1> HIDE DEF all
<1>9. Collected(all)
  <2>1. ASSUME NEW i \in DOMAIN all
        PROVE  /\ NewConfig(all[i])
               /\ {"unique_id_prefix", "friendly_name"} \subseteq DOMAIN all[i]
               /\ all[i].unique_id_prefix = all[i].friendly_name
               /\ all[i].friendly_name \in Names
    <3>1. CASE i \in DOMAIN flow.all
      BY <1>7, <1>8, <3>1 DEF Collected
    <3>2. CASE i = Len(flow.all) + 1
      BY <1>5, <1>6, <1>8, <3>2
    <3> QED
      BY <1>8, <3>1, <3>2
  <2>2. ASSUME NEW i \in DOMAIN all, NEW j \in DOMAIN all \ {i}
        PROVE  Connection(all[j]) # Connection(all[i]) /\ all[j].friendly_name # all[i].friendly_name
    <3>1. CASE i \in DOMAIN flow.all /\ j \in DOMAIN flow.all
      BY <1>7, <1>8, <3>1 DEF Collected
    <3>2. CASE i \in DOMAIN flow.all /\ j = Len(flow.all) + 1
      BY <1>6, <1>7, <1>8, <3>2
    <3>3. CASE i = Len(flow.all) + 1 /\ j \in DOMAIN flow.all
      BY <1>6, <1>7, <1>8, <3>3
    <3> QED
      BY <1>8, <3>1, <3>2, <3>3
  <2> QED
    BY <1>8, <2>1, <2>2 DEF Collected
<1>10. /\ DOMAIN flow' = {"step", "id", "all", "inverter"}
       /\ flow'.step = "add_another_inverter" /\ flow'.id = None
       /\ flow'.all = all /\ flow'.inverter = <<>>
  BY <1>1, <1>2
<1>11. DOMAIN <<>> = {}
  OBVIOUS
<1>12. ConfigFlowInv(flow', entry')
  BY <1>1, <1>2, <1>9, <1>10, <1>11 DEF ConfigFlowInv, ConfigSteps
<1>13. FlowInv'
  BY <1>10, <1>12 DEF FlowInv
<1> QED
  BY <1>1, <1>13, FlowOnly

LEMMA AddAnotherStep ==
  ASSUME IInv, async_step_add_another_inverter
  PROVE  IInv'
<1>1. /\ flow.step = "add_another_inverter"
      /\ flow' = [flow EXCEPT !.step = "select_adapter_type"]
      /\ UNCHANGED <<entry, reload, loaded, changes>>
  BY DEF async_step_add_another_inverter
<1>2. DOMAIN flow = {"step", "id", "all", "inverter"}
      /\ flow.id = None /\ ConfigFlowInv(flow, entry)
  BY <1>1 DEF IInv, FlowInv, OptionsFlowInv
<1>3. /\ DOMAIN flow' = {"step", "id", "all", "inverter"}
      /\ flow'.step = "select_adapter_type" /\ flow'.id = None
      /\ flow'.all = flow.all /\ flow'.inverter = flow.inverter
  BY <1>1, <1>2
<1>4. ConfigFlowInv(flow', entry')
  BY <1>1, <1>2, <1>3 DEF ConfigFlowInv, ConfigSteps
<1>5. FlowInv'
  BY <1>3, <1>4 DEF FlowInv
<1> QED
  BY <1>1, <1>5, FlowOnly

LEMMA CreateEntryStep ==
  ASSUME IInv, _create_entry_data
  PROVE  /\ IInv'
         /\ entry = None
<1>1. /\ flow.step = "add_another_inverter"
      /\ entry' = [version |-> VERSION, data |-> flow.all, options |-> <<>>]
      /\ flow' = NoFlow /\ reload' = "setup" /\ running' = running
  BY DEF _create_entry_data, loaded
<1>2. entry = None /\ Collected(flow.all)
  BY <1>1 DEF IInv, FlowInv, OptionsFlowInv, ConfigFlowInv
<1>3. Sound(entry')
  BY <1>1, <1>2, CollectedSound
<1>4. EntryInv'
  BY <1>1, <1>3 DEF EntryInv
<1>5. RunningInv'
  BY <1>1, <1>3 DEF RunningInv
<1>6. FlowInv'
  BY <1>1, NoFlowKeeps
<1> QED
  BY <1>2, <1>4, <1>5, <1>6 DEF IInv

-----------------------------------------------------------------------------
(* The steps of the options flow.                                          *)

LEMMA InitStep ==
  ASSUME IInv, entry # None, NEW id \in DOMAIN entry.data, async_step_init(id)
  PROVE  IInv'
<1>1. /\ entry.version = VERSION
      /\ flow' = [NoFlow EXCEPT !.step = "inverter_options_category", !.id = id]
      /\ UNCHANGED <<entry, reload, loaded>>
  BY DEF async_step_init
<1>2. DOMAIN NoFlow = {"step", "id", "all", "inverter"}
  BY NoFlowIsRight
<1>3. /\ DOMAIN flow' = {"step", "id", "all", "inverter"}
      /\ flow'.step = "inverter_options_category" /\ flow'.id = id
  BY <1>1, <1>2
<1>4. Sound(entry)
  BY <1>1, OldOrSound DEF IInv
<1>5. id # None
  BY <1>4, ConfigEntriesAssumption DEF Sound
<1>6. OptionsFlowInv(flow', entry')
  BY <1>1, <1>3, <1>4 DEF OptionsFlowInv
<1>7. FlowInv'
  BY <1>3, <1>5, <1>6 DEF FlowInv
<1>8. EntryInv' /\ RunningInv'
  BY <1>1, SameLoaded DEF IInv, EntryInv
<1> QED
  BY <1>7, <1>8 DEF IInv

\* In the options flow: what the inverter is configured as.
LEMMA OptionsFlow ==
  ASSUME IInv, flow.id # None
  PROVE  /\ OptionsFlowInv(flow, entry)
         /\ Sound(entry)
         /\ flow.id \in DOMAIN entry.data
         /\ SoundConfig(entry.data[flow.id], ConfigOf(entry, flow.id))
         /\ "unique_id_prefix" \in DOMAIN ConfigOf(entry, flow.id)
<1>1. OptionsFlowInv(flow, entry)
  BY DEF IInv, FlowInv
<1>2. Sound(entry) /\ flow.id \in DOMAIN entry.data
  BY <1>1 DEF OptionsFlowInv
<1>3. SoundConfig(entry.data[flow.id], ConfigOf(entry, flow.id))
  BY <1>2 DEF Sound
<1>4. "unique_id_prefix" \in DOMAIN ConfigOf(entry, flow.id)
  BY <1>3 DEF SoundConfig, ConfigOf, Updated
<1> QED
  BY <1>1, <1>2, <1>3, <1>4

LEMMA ChangesAdapterStep ==
  ASSUME IInv, ChangesAdapter
  PROVE  IInv'
<1> DEFINE c == _config_for_inverter(flow.id)
           new == ThroughInverterData(c)
<1>1. /\ flow.step = "inverter_options_category"
      /\ flow' = [flow EXCEPT !.step = "select_adapter_type", !.inverter = new]
      /\ UNCHANGED <<entry, reload, loaded, changes>>
  BY DEF ChangesAdapter
<1>2. flow.id # None /\ DOMAIN flow = {"step", "id", "all", "inverter"}
  BY <1>1 DEF IInv, FlowInv, ConfigFlowInv, ConfigSteps
<1>3. /\ OptionsFlowInv(flow, entry)
      /\ "unique_id_prefix" \in DOMAIN c
      /\ c.unique_id_prefix = entry.data[flow.id].unique_id_prefix
  BY <1>2, OptionsFlow, CurrentConfigs DEF SoundConfig
<1> HIDE DEF c
<1>4. "unique_id_prefix" \in DOMAIN new /\ new.unique_id_prefix = c.unique_id_prefix
  <2>1. CASE new = c
    BY <1>3, <2>1
  <2>2. CASE new = Updated(c, [friendly_name |-> ""])
    <3> DEFINE more == [friendly_name |-> ""]
    <3>1. DOMAIN more = {"friendly_name"}
      OBVIOUS
    <3> HIDE DEF new, more
    <3>2. new = Updated(c, more)
      BY <2>2 DEF more
    <3> QED
      BY <1>3, <3>1, <3>2 DEF Updated
  <2> QED
    BY <2>1, <2>2 DEF ThroughInverterData
<1> HIDE DEF new
<1>5. /\ DOMAIN flow' = {"step", "id", "all", "inverter"}
      /\ flow'.step = "select_adapter_type" /\ flow'.id = flow.id /\ flow'.inverter = new
  BY <1>1, <1>2
<1>6. OptionsFlowInv(flow', entry')
  BY <1>1, <1>3, <1>4, <1>5 DEF OptionsFlowInv
<1>7. FlowInv'
  BY <1>2, <1>5, <1>6 DEF FlowInv
<1> QED
  BY <1>1, <1>7, FlowOnly

\* What a change of the entry keeps: the unique ids of every inverter in it.
KeepsIds ==
  entry # None /\ entry' # entry =>
    /\ Sound(entry')
    /\ \A id \in DOMAIN entry'.data : IdOf(entry', id) = IdOf(entry, id)

LEMMA SaveStep ==
  ASSUME IInv, flow.id # None,
         NEW options, _save_selected_inverter_options(options),
         NEW c, c = Updated(entry.data[flow.id], options),
         c.unique_id_prefix = entry.data[flow.id].unique_id_prefix,
         "modbus_serial_baud" \in DOMAIN c => Answers(Connection(c), c.modbus_serial_baud),
         \A other \in DOMAIN entry.data \ {flow.id} :
           Connection(ConfigOf(entry, other)) # Connection(c)
  PROVE  IInv' /\ KeepsIds
<1>1. /\ entry' = [entry EXCEPT !.options = Updated(@, [id \in {flow.id} |-> options])]
      /\ flow' = NoFlow /\ UNCHANGED loaded
      /\ reload' = IF entry' = entry \/ running = None THEN reload ELSE "unload"
  BY DEF _save_selected_inverter_options
<1>2. Sound(entry) /\ flow.id \in DOMAIN entry.data
  BY OptionsFlow
<1>3. entry' = Saved(entry, flow.id, options)
  BY <1>1 DEF Saved
<1>4. /\ Sound(entry')
      /\ DOMAIN entry'.data = DOMAIN entry.data
      /\ \A i \in DOMAIN entry.data : IdOf(entry', i) = IdOf(entry, i)
  BY <1>2, <1>3, SavedSound
<1>5. EntryInv'
  <2>1. reload # "migrate"
    BY <1>2, ConfigEntriesAssumption DEF IInv, EntryInv, LeftBehind, Sound, VERSION
  <2> QED
    BY <1>1, <1>4, <2>1 DEF EntryInv
<1>6. RunningInv'
  <2>1. running' = running
    BY <1>1 DEF loaded
  <2>2. CASE running = None
    BY <2>1, <2>2 DEF RunningInv
  <2>3. CASE entry' = entry
    BY <1>1, <2>3, SameLoaded DEF IInv
  <2>4. CASE entry' # entry /\ running # None
    BY <1>1, <1>4, <2>4 DEF RunningInv
  <2> QED
    BY <2>2, <2>3, <2>4
<1>7. FlowInv'
  BY <1>1, NoFlowKeeps
<1> QED
  BY <1>4, <1>5, <1>6, <1>7 DEF IInv, KeepsIds

LEMMA OtherConnectionStep ==
  ASSUME IInv, NEW protocol, NEW host, NEW slave, NEW baud,
         OtherConnection(protocol, host, slave, baud)
  PROVE  IInv' /\ KeepsIds
<1> DEFINE place == <<protocol, host, slave>>
           data == entry.data[flow.id]
           dropped == {"inverter_version", "poll_rate", "max_read", "round_sensor_values"}
<1>1. /\ flow.id # None /\ flow.step = "connect"
      /\ \A other \in Others(flow.id) : Connection(other) # place
  BY DEF OtherConnection, Connects
<1>2. PICK details \in Detected(protocol, host, slave, baud) :
        _save_selected_inverter_options(
          Updated(Options(flow.id),
                  Without(ConnectedAs(protocol, host, slave, baud, details), dropped)))
  BY DEF OtherConnection
<1> DEFINE new == ConnectedAs(protocol, host, slave, baud, details)
           kept == Without(new, dropped)
           options == Updated(Options(flow.id), kept)
           c == Updated(data, options)
<1>3. Connected(flow.inverter, new, place)
  BY ConnectedConfig DEF ConnectedAs
<1>4. "unique_id_prefix" \in DOMAIN flow.inverter
      /\ flow.inverter.unique_id_prefix = data.unique_id_prefix
  BY <1>1, OptionsFlow DEF OptionsFlowInv
<1>5. _save_selected_inverter_options(options)
  BY <1>2
<1> HIDE DEF new
<1> DEFINE told == ConnectionKeys \union {"unique_id_prefix", "modbus_serial_baud"}
<1>6. told \subseteq DOMAIN kept /\ \A k \in told : kept[k] = new[k]
  BY <1>3, <1>4 DEF Without, Connected, ConnectionKeys
<1> HIDE DEF kept
<1>7. told \subseteq DOMAIN options /\ \A k \in told : options[k] = new[k]
  BY <1>6 DEF Updated
<1> HIDE DEF options
<1>8. told \subseteq DOMAIN c /\ \A k \in told : c[k] = new[k]
  BY <1>7 DEF Updated
<1>9. c = Updated(data, options)
  OBVIOUS
<1> HIDE DEF c, data
<1>10. /\ Connection(c) = Connection(new)
       /\ c.unique_id_prefix = new.unique_id_prefix
       /\ c.modbus_serial_baud = new.modbus_serial_baud
  BY <1>8 DEF Connection, ConnectionKeys
<1>11. /\ Connection(c) = place
       /\ Answers(Connection(c), c.modbus_serial_baud)
       /\ c.unique_id_prefix = data.unique_id_prefix
  BY <1>3, <1>4, <1>10 DEF Connected
<1>12. ASSUME NEW other \in DOMAIN entry.data \ {flow.id}
       PROVE  Connection(ConfigOf(entry, other)) # Connection(c)
  <2>1. _config_for_inverter(other) \in Others(flow.id)
    BY DEF Others
  <2> QED
    BY <1>1, <1>11, <2>1, CurrentConfigs
<1> QED
  BY <1>1, <1>5, <1>9, <1>11, <1>12, SaveStep DEF data

\* Options that say nothing else of who the inverter is and where it answers.
Identifying == ConnectionKeys \union {"unique_id_prefix", "modbus_serial_baud"}

SaysTheSame(options, of) ==
  \A k \in Identifying : /\ k \in DOMAIN options <=> k \in DOMAIN of
                         /\ k \in DOMAIN of => options[k] = of[k]

LEMMA WithoutSaysTheSame ==
  ASSUME NEW of, NEW keys, keys \cap Identifying = {}
  PROVE  SaysTheSame(Without(of, keys), of)
  BY DEF SaysTheSame, Without

LEMMA Only1SaysTheSame ==
  ASSUME NEW of, NEW options, SaysTheSame(options, of),
         NEW key, key \notin Identifying, NEW value, NEW absent
  PROVE  SaysTheSame(Updated(options, Only1(key, value, absent)), of)
<1> DEFINE one == Only1(key, value, absent)
<1>1. DOMAIN one \subseteq {key}
  BY DEF Only1
<1> HIDE DEF one
<1>2. SaysTheSame(Updated(options, one), of)
  BY <1>1 DEF SaysTheSame, Updated
<1> QED
  BY <1>2 DEF one

LEMMA SaveSettingsStep ==
  ASSUME IInv, flow.id # None,
         NEW options, _save_selected_inverter_options(options),
         SaysTheSame(options, Options(flow.id))
  PROVE  IInv' /\ KeepsIds
<1> DEFINE data == entry.data[flow.id]
           before == ConfigOf(entry, flow.id)
           c == Updated(data, options)
<1>1. before = Updated(data, OptionsOf(entry, flow.id))
      /\ SaysTheSame(options, OptionsOf(entry, flow.id))
  BY CurrentConfigs DEF ConfigOf
<1>2. Sound(entry) /\ flow.id \in DOMAIN entry.data /\ SoundConfig(data, before)
  BY OptionsFlow
<1>3. c = Updated(data, options)
  OBVIOUS
<1> HIDE DEF before, c, data
<1>4. \A k \in Identifying : /\ k \in DOMAIN c <=> k \in DOMAIN before
                             /\ k \in DOMAIN before => c[k] = before[k]
  BY <1>1, <1>3 DEF SaysTheSame, Updated
<1>5. ConnectionKeys \union {"unique_id_prefix"} \subseteq DOMAIN before
  BY <1>1, <1>2 DEF SoundConfig, Updated
<1>6. /\ Connection(c) = Connection(before)
      /\ c.unique_id_prefix = before.unique_id_prefix
      /\ "modbus_serial_baud" \in DOMAIN c =>
           "modbus_serial_baud" \in DOMAIN before
           /\ c.modbus_serial_baud = before.modbus_serial_baud
  BY <1>4, <1>5 DEF Identifying, ConnectionKeys, Connection
<1>7. /\ c.unique_id_prefix = data.unique_id_prefix
      /\ "modbus_serial_baud" \in DOMAIN c => Answers(Connection(c), c.modbus_serial_baud)
  BY <1>2, <1>6 DEF SoundConfig
<1>8. \A other \in DOMAIN entry.data \ {flow.id} :
        Connection(ConfigOf(entry, other)) # Connection(c)
  BY <1>2, <1>6 DEF Sound, before
<1> QED
  BY <1>3, <1>7, <1>8, SaveStep DEF data

LEMMA VersionStep ==
  ASSUME IInv, flow.id # None, NEW version, async_step_version_settings(version)
  PROVE  IInv' /\ KeepsIds
<1> DEFINE kept == Without(Options(flow.id), {"inverter_version"})
           options == Updated(kept, Only1("inverter_version", version, LATEST))
<1>1. _save_selected_inverter_options(options)
  BY DEF async_step_version_settings
<1>2. SaysTheSame(kept, Options(flow.id))
  <2>1. {"inverter_version"} \cap Identifying = {}
    BY DEF Identifying, ConnectionKeys
  <2> QED
    BY <2>1, WithoutSaysTheSame
<1>3. "inverter_version" \notin Identifying
  BY DEF Identifying, ConnectionKeys
<1>4. SaysTheSame(options, Options(flow.id))
  BY <1>2, <1>3, Only1SaysTheSame
<1> QED
  BY <1>1, <1>4, SaveSettingsStep

LEMMA AdvancedStep ==
  ASSUME IInv, NEW poll_rate, NEW max_read, NEW round,
         async_step_inverter_advanced_options(poll_rate, max_read, round)
  PROVE  IInv' /\ KeepsIds
<1> DEFINE keys == {"poll_rate", "max_read", "round_sensor_values"}
           kept == Without(Options(flow.id), keys)
           polled == Updated(kept, Only1("poll_rate", poll_rate, None))
           read == Updated(polled, Only1("max_read", max_read, None))
           options == Updated(read, Only1("round_sensor_values", round, FALSE))
<1>1. flow.step = "inverter_options_category" /\ _save_selected_inverter_options(options)
  BY DEF async_step_inverter_advanced_options
<1>2. flow.id # None
  BY <1>1 DEF IInv, FlowInv, ConfigFlowInv, ConfigSteps
<1>3. keys \cap Identifying = {} /\ (\A key \in keys : key \notin Identifying)
  BY DEF Identifying, ConnectionKeys
<1>4. SaysTheSame(kept, Options(flow.id))
  BY <1>3, WithoutSaysTheSame
<1> HIDE DEF kept
<1>5. SaysTheSame(polled, Options(flow.id))
  BY <1>3, <1>4, Only1SaysTheSame
<1> HIDE DEF polled
<1>6. SaysTheSame(read, Options(flow.id))
  BY <1>3, <1>5, Only1SaysTheSame
<1> HIDE DEF read
<1>7. SaysTheSame(options, Options(flow.id))
  BY <1>3, <1>6, Only1SaysTheSame
<1> QED
  BY <1>1, <1>2, <1>7, SaveSettingsStep

-----------------------------------------------------------------------------
(* Migrating, loading and unloading.                                       *)

LEMMA DismissStep ==
  ASSUME IInv, Dismiss
  PROVE  IInv'
  BY NoFlowKeeps, FlowOnly DEF Dismiss

LEMMA MigrateStep ==
  ASSUME IInv, async_migrate_entry
  PROVE  IInv' /\ KeepsIds
<1>1. reload = "migrate" /\ UNCHANGED <<flow, loaded, changes>>
  BY DEF async_migrate_entry
<1>2. entry # None /\ entry \in OldEntries /\ LeftBehind(entry)
  BY <1>1, ConfigEntriesAssumption DEF IInv, EntryInv
<1>3. ~ Sound(entry)
  BY <1>2 DEF LeftBehind, Sound, VERSION
<1>4. running = None
  BY <1>3 DEF IInv, RunningInv
<1>5. /\ DOMAIN flow = {"step", "id", "all", "inverter"}
      /\ flow.id = None /\ ConfigFlowInv(flow, entry)
  BY <1>3 DEF IInv, FlowInv, OptionsFlowInv
<1>6. FlowInv'
  <2>1. ConfigFlowInv(flow', entry')
    BY <1>1, <1>2, <1>5 DEF ConfigFlowInv
  <2> QED
    BY <1>1, <1>5, <2>1 DEF FlowInv
<1>7. RunningInv'
  BY <1>1, <1>4 DEF RunningInv, loaded
<1>8. CASE entry' = entry /\ reload' = "idle"
  <2>1. EntryInv'
    BY <1>2, <1>8 DEF EntryInv
  <2> QED
    BY <1>6, <1>7, <1>8, <2>1 DEF IInv, KeepsIds
<1>9. CASE entry' = Migrated(entry) /\ reload' = "setup"
  <2>1. Sound(entry') /\ \A id \in DOMAIN entry'.data : IdOf(entry', id) = IdOf(entry, id)
    BY <1>2, <1>9, MigratedSound
  <2>2. EntryInv'
    BY <1>9, <2>1 DEF EntryInv
  <2> QED
    BY <1>6, <1>7, <2>1, <2>2 DEF IInv, KeepsIds
<1> QED
  BY <1>8, <1>9 DEF async_migrate_entry

LEMMA SetupStep ==
  ASSUME IInv, async_setup_entry
  PROVE  IInv'
<1>1. /\ reload = "setup" /\ reload' = "idle"
      /\ UNCHANGED <<entry, flow, changes>>
      /\ running' # None =>
           /\ running' = [id \in DOMAIN entry.data |-> Settings(id)]
           /\ clients' = Clients
           /\ \A id \in DOMAIN entry.data : "modbus_serial_baud" \in DOMAIN Settings(id)
  BY DEF async_setup_entry
<1>2. Sound(entry)
  BY <1>1 DEF IInv, EntryInv
<1>3. RunningInv'
  BY <1>1, <1>2, SameConfigs DEF RunningInv
<1>4. EntryInv' /\ FlowInv'
  BY <1>1 DEF IInv, EntryInv, FlowInv
<1> QED
  BY <1>3, <1>4 DEF IInv

LEMMA UnloadStep ==
  ASSUME IInv, async_unload_entry
  PROVE  IInv'
  BY DEF async_unload_entry, IInv, EntryInv, FlowInv, RunningInv

LEMMA RestartStep ==
  ASSUME IInv, Restart
  PROVE  IInv'
<1>1. /\ entry # None /\ entry' = entry /\ running' = None /\ flow' = NoFlow
      /\ reload' = IF entry.version = VERSION THEN "setup" ELSE "migrate"
  BY DEF Restart
<1>2. entry.version = VERSION => Sound(entry)
  BY <1>1, OldOrSound DEF IInv
<1>3. entry.version # VERSION => entry \in OldEntries
  BY <1>1 DEF IInv, EntryInv, Sound
<1>4. EntryInv'
  BY <1>1, <1>2, <1>3 DEF IInv, EntryInv
<1>5. FlowInv'
  BY <1>1, NoFlowKeeps
<1> QED
  BY <1>1, <1>4, <1>5 DEF IInv, RunningInv

-----------------------------------------------------------------------------
(* The theorems.                                                           *)

LEMMA InitIInv == Init => IInv
<1> SUFFICES ASSUME Init PROVE IInv
  OBVIOUS
<1>1. FlowInv
  BY NoFlowIsRight DEF Init, FlowInv
<1> QED
  BY <1>1 DEF Init, IInv, EntryInv, RunningInv

LEMMA NextIInv ==
  IInv /\ [Next]_vars => IInv' /\ KeepsIds
<1> SUFFICES ASSUME IInv, [Next]_vars PROVE IInv' /\ KeepsIds
  OBVIOUS
<1>1. ASSUME entry' = entry PROVE KeepsIds
  BY <1>1 DEF KeepsIds
<1>2. CASE UNCHANGED vars
  <2>1. UNCHANGED <<entry, reload, loaded, changes>> /\ FlowInv'
    BY <1>2 DEF vars, IInv, FlowInv
  <2> QED
    BY <1>1, <2>1, FlowOnly
<1>3. CASE async_step_user
  BY <1>1, <1>3, UserStep DEF async_step_user
<1>4. CASE async_step_add_another_inverter
  BY <1>1, <1>4, AddAnotherStep DEF async_step_add_another_inverter
<1>5. CASE _create_entry_data
  BY <1>5, CreateEntryStep DEF KeepsIds
<1>6. CASE ChangesAdapter
  BY <1>1, <1>6, ChangesAdapterStep DEF ChangesAdapter
<1>7. CASE Dismiss
  BY <1>1, <1>7, DismissStep DEF Dismiss
<1>8. CASE \E adapter \in Adapters : async_step_select_adapter_type(adapter)
  BY <1>1, <1>8, AdapterStep DEF async_step_select_adapter_type
<1>9. CASE \E protocol \in {"tcp", "udp", "rtu_over_tcp", "serial"}, host \in Hosts,
              slave \in Slaves, baud \in Bauds :
             NewConnection(protocol, host, slave, baud)
  BY <1>1, <1>9, NewConnectionStep DEF NewConnection
<1>10. CASE \E protocol \in {"tcp", "udp", "rtu_over_tcp", "serial"}, host \in Hosts,
               slave \in Slaves, baud \in Bauds :
              OtherConnection(protocol, host, slave, baud)
  BY <1>10, OtherConnectionStep
<1>11. CASE \E name \in Names : \E prefix \in {Slug(name)} \union EnteredPrefixes :
              async_step_friendly_name(name, prefix)
  BY <1>1, <1>11, FriendlyNameStep DEF async_step_friendly_name
<1>12. CASE entry # None /\ \E id \in DOMAIN entry.data : async_step_init(id)
  BY <1>1, <1>12, InitStep DEF async_step_init
<1>13. CASE flow.id # None /\ \E version \in {122, 144, LATEST} :
              async_step_version_settings(version)
  BY <1>13, VersionStep
<1>14. CASE \E poll_rate, max_read \in Rates \union {None}, round \in BOOLEAN :
              async_step_inverter_advanced_options(poll_rate, max_read, round)
  BY <1>14, AdvancedStep
<1>15. CASE async_migrate_entry
  BY <1>15, MigrateStep
<1>16. CASE async_setup_entry
  BY <1>1, <1>16, SetupStep DEF async_setup_entry
<1>17. CASE async_unload_entry
  BY <1>1, <1>17, UnloadStep DEF async_unload_entry
<1>18. CASE Restart
  BY <1>1, <1>18, RestartStep DEF Restart
<1> QED
  BY <1>2, <1>3, <1>4, <1>5, <1>6, <1>7, <1>8, <1>9, <1>10, <1>11, <1>12, <1>13, <1>14, <1>15,
     <1>16, <1>17, <1>18 DEF Next

LEMMA Invariance == Spec => []IInv
<1>1. IInv /\ [Next]_vars => IInv'
  BY NextIInv
<1> QED
  BY <1>1, InitIInv, PTL DEF Spec

\* Whatever is added, moved or migrated: no two inverters of the entry have the
\* same connection, and at each connection whose baud rate is stored, an inverter
\* answers at that rate (AdapterFlowSegment,
\* _autodetect_modbus_and_save_to_inverter_data).
THEOREM EveryOneHasItsConnection == Spec => []EachHasItsConnection
<1>1. IInv => EachHasItsConnection
  <2> SUFFICES ASSUME IInv, Loaded, NEW id \in DOMAIN entry.data
               PROVE  LET c == _config_for_inverter(id) IN
                      /\ \A other \in DOMAIN entry.data \ {id} :
                           Connection(_config_for_inverter(other)) # Connection(c)
                      /\ "modbus_serial_baud" \in DOMAIN c =>
                           \E o \in Out : /\ <<o.protocol, o.host, o.slave>> = Connection(c)
                                          /\ o.baud = c.modbus_serial_baud
    BY DEF EachHasItsConnection
  <2>1. Sound(entry)
    BY OldOrSound DEF IInv, Loaded
  <2>2. \A other \in DOMAIN entry.data \ {id} :
          Connection(ConfigOf(entry, other)) # Connection(ConfigOf(entry, id))
    BY <2>1 DEF Sound
  <2>3. "modbus_serial_baud" \in DOMAIN ConfigOf(entry, id) =>
          Answers(Connection(ConfigOf(entry, id)), ConfigOf(entry, id).modbus_serial_baud)
    BY <2>1 DEF Sound, SoundConfig
  <2> QED
    BY <2>2, <2>3, CurrentConfigs DEF Answers
<1> QED
  BY <1>1, Invariance, PTL

LEMMA LeastOf ==
  ASSUME NEW S \in SUBSET Nat, S # {}
  PROVE  \E least \in S : \A n \in S : least <= n
<1>1. PICK least \in S : \A n \in S : ~ (<<n, least>> \in OpToRel(<, Nat))
  BY NatLessThanWellFounded, WFMin
<1>2. ASSUME NEW n \in S
      PROVE  least <= n
  <2>1. n \in Nat /\ least \in Nat
    OBVIOUS
  <2>2. ~ (n < least)
    BY <1>1, <2>1 DEF OpToRel
  <2> QED
    BY <2>1, <2>2
<1> QED
  BY <1>2

\* The settings of a controller are the configuration of its inverter, and the
\* adapter's where it says nothing.
LEMMA SettingsAre ==
  ASSUME Sound(entry), NEW id \in DOMAIN entry.data, NEW c, c = _config_for_inverter(id)
  PROVE  /\ \A key \in DOMAIN c : key \in DOMAIN Settings(id) /\ Settings(id)[key] = c[key]
         /\ "max_read" \notin DOMAIN c =>
              Settings(id).max_read = ADAPTERS[c.adapter_id].config.max_read
         /\ "modbus_serial_baud" \in DOMAIN Settings(id) => "modbus_serial_baud" \in DOMAIN c
         /\ ConnectionKeys \union {"adapter_id"} \subseteq DOMAIN c
<1> DEFINE data == entry.data[id]
           options == Options(id)
           adapter == inverter_config(c.adapter_id, data.modbus_type)
           under == Updated(data, adapter)
           all == Settings(id)
<1>1. PollKeys \cap DOMAIN data = {} /\ ConnectionKeys \union {"adapter_id"} \subseteq DOMAIN data
  BY DEF Sound, SoundConfig
<1>2. all = Updated(under, options)
  BY DEF Settings
<1>3. c = Updated(data, options)
  BY DEF _config_for_inverter
<1>4. DOMAIN adapter = PollKeys
      /\ adapter["max_read"] = ADAPTERS[c.adapter_id].config.max_read
  BY DEF inverter_config, PollKeys
<1> HIDE DEF data, options, adapter, all
<1>5. DOMAIN under = DOMAIN data \union PollKeys
      /\ (\A k \in PollKeys : under[k] = adapter[k])
      /\ (\A k \in DOMAIN data : under[k] = data[k])
  BY <1>1, <1>4 DEF Updated
<1> HIDE DEF under
<1>6. DOMAIN all = DOMAIN under \union DOMAIN options
      /\ (\A k \in DOMAIN options : all[k] = options[k])
      /\ (\A k \in DOMAIN under \ DOMAIN options : all[k] = under[k])
  BY <1>2 DEF Updated
<1>7. DOMAIN c = DOMAIN data \union DOMAIN options
      /\ (\A k \in DOMAIN options : c[k] = options[k])
      /\ (\A k \in DOMAIN data \ DOMAIN options : c[k] = data[k])
  BY <1>3 DEF Updated
<1>8. \A key \in DOMAIN c : key \in DOMAIN all /\ all[key] = c[key]
  BY <1>5, <1>6, <1>7
<1>9. "max_read" \notin DOMAIN c => all["max_read"] = adapter["max_read"]
  BY <1>5, <1>6, <1>7 DEF PollKeys
<1>10. "modbus_serial_baud" \in DOMAIN all => "modbus_serial_baud" \in DOMAIN c
  BY <1>5, <1>6, <1>7 DEF PollKeys
<1> QED
  BY <1>1, <1>4, <1>7, <1>8, <1>9, <1>10 DEF all

\* So it is on the same line, and the client that would be made for it the same.
LEMMA SameLine ==
  ASSUME Sound(entry), NEW id \in DOMAIN entry.data,
         "modbus_serial_baud" \in DOMAIN Settings(id)
  PROVE  /\ Line(Settings(id)) = Line(_config_for_inverter(id))
         /\ Client(Settings(id)) = Client(_config_for_inverter(id))
<1> DEFINE c == _config_for_inverter(id)
           all == Settings(id)
<1>1. /\ \A key \in DOMAIN c : all[key] = c[key]
      /\ ConnectionKeys \union {"adapter_id", "modbus_serial_baud"} \subseteq DOMAIN c
  BY SettingsAre
<1> HIDE DEF c, all
<1>2. /\ all.modbus_type = c.modbus_type /\ all.host = c.host
      /\ all.adapter_id = c.adapter_id /\ all.modbus_serial_baud = c.modbus_serial_baud
  BY <1>1 DEF ConnectionKeys
<1>3. Line(all) = Line(c) /\ Client(all) = Client(c)
  BY <1>2 DEF Line, Client
<1> QED
  BY <1>3 DEF all, c

\* The client of each line is made for the first inverter there.
LEMMA ClientOfTheFirst ==
  ASSUME Sound(entry), NEW id \in DOMAIN entry.data
  PROVE  \E first \in DOMAIN entry.data :
           /\ Line(Settings(first)) = Line(Settings(id)) /\ IsFirst(first)
           /\ Clients[Line(Settings(id))] = Client(Settings(first))
<1> DEFINE line == Line(Settings(id))
           mates == {other \in DOMAIN entry.data : Line(Settings(other)) = line}
           first == CHOOSE i \in DOMAIN entry.data : Line(Settings(i)) = line /\ IsFirst(i)
<1>1. mates \in SUBSET Nat /\ id \in mates
  BY DEF Sound
<1> HIDE DEF mates
<1>2. PICK least \in mates : \A other \in mates : least <= other
  BY <1>1, LeastOf
<1>3. least \in DOMAIN entry.data /\ Line(Settings(least)) = line /\ IsFirst(least)
  BY <1>2 DEF mates, IsFirst
<1>4. first \in DOMAIN entry.data /\ Line(Settings(first)) = line /\ IsFirst(first)
  BY <1>3
<1>5. Clients[line] = Client(Settings(first))
  BY DEF Clients
<1> QED
  BY <1>4, <1>5

\* Loaded controllers have the settings of the entry, the user's before the
\* adapter's, and the client of each line is the one that the configuration of its
\* first inverter asks for (async_setup_entry).
THEOREM ControllersRunAsConfigured == Spec => []RunsAsConfigured
<1>1. IInv => RunsAsConfigured
  <2> SUFFICES ASSUME IInv, reload = "idle", running # None, NEW id \in DOMAIN entry.data
               PROVE  LET c == _config_for_inverter(id)
                          mates == {other \in DOMAIN entry.data :
                                      Line(_config_for_inverter(other)) = Line(c)} IN
                      /\ \A key \in DOMAIN c : /\ key \in DOMAIN running[id]
                                               /\ running[id][key] = c[key]
                      /\ "max_read" \notin DOMAIN c =>
                           running[id].max_read = ADAPTERS[c.adapter_id].config.max_read
                      /\ \E first \in mates :
                           /\ \A other \in mates : first <= other
                           /\ clients[Line(c)] = Client(_config_for_inverter(first))
    BY DEF RunsAsConfigured
  <2> DEFINE c == _config_for_inverter(id)
             mates == {other \in DOMAIN entry.data :
                         Line(_config_for_inverter(other)) = Line(c)}
  <2>1. /\ Sound(entry) /\ clients = Clients
        /\ running[id] = Settings(id)
        /\ \A i \in DOMAIN entry.data : "modbus_serial_baud" \in DOMAIN Settings(i)
    BY DEF IInv, RunningInv
  <2>2. /\ \A key \in DOMAIN c : key \in DOMAIN running[id] /\ running[id][key] = c[key]
        /\ "max_read" \notin DOMAIN c =>
             running[id].max_read = ADAPTERS[c.adapter_id].config.max_read
    BY <2>1, SettingsAre
  <2>3. \A i \in DOMAIN entry.data :
          /\ Line(Settings(i)) = Line(_config_for_inverter(i))
          /\ Client(Settings(i)) = Client(_config_for_inverter(i))
    BY <2>1, SameLine
  <2>4. PICK first \in DOMAIN entry.data :
          /\ Line(Settings(first)) = Line(Settings(id)) /\ IsFirst(first)
          /\ Clients[Line(Settings(id))] = Client(Settings(first))
    BY <2>1, ClientOfTheFirst
  <2>5. first \in mates /\ \A other \in mates : first <= other
    BY <2>3, <2>4 DEF IsFirst
  <2>6. clients[Line(c)] = Client(_config_for_inverter(first))
    BY <2>1, <2>3, <2>4
  <2> QED
    BY <2>2, <2>5, <2>6
<1> QED
  BY <1>1, Invariance, PTL

\* "their unique IDs stay the same" (async_step_friendly_name): no option and
\* no migration, from any version, changes what the unique ids of an inverter
\* begin with or makes two inverters share it (async_migrate_entry).
THEOREM IdsAreKept == Spec => UniqueIdsKept
<1>1. KeepsIds =>
        [entry # None =>
           \A id \in DOMAIN entry'.data :
             /\ UniqueId(id)' = UniqueId(id)
             /\ \A other \in DOMAIN entry'.data \ {id} : UniqueId(other)' # UniqueId(id)']_entry
  <2> SUFFICES ASSUME KeepsIds, entry # None, entry' # entry, NEW id \in DOMAIN entry'.data
               PROVE  /\ UniqueId(id)' = UniqueId(id)
                      /\ \A other \in DOMAIN entry'.data \ {id} : UniqueId(other)' # UniqueId(id)'
    OBVIOUS
  <2>1. \A i : UniqueId(i) = IdOf(entry, i)
    BY CurrentConfigs
  <2>2. \A i : UniqueId(i)' = IdOf(entry', i)
    BY DEF UniqueId, _config_for_inverter, Options, IdOf, ConfigOf, OptionsOf
  <2>3. Sound(entry') /\ IdOf(entry', id) = IdOf(entry, id)
    BY DEF KeepsIds
  <2>4. \A other \in DOMAIN entry'.data \ {id} : IdOf(entry', other) # IdOf(entry', id)
    BY <2>3 DEF Sound
  <2> QED
    BY <2>1, <2>2, <2>3, <2>4
<1>2. IInv /\ [Next]_vars => KeepsIds
  BY NextIInv
<1> QED
  BY <1>1, <1>2, Invariance, PTL DEF Spec, UniqueIdsKept
=============================================================================
