---------------------------- MODULE ConfigEntries ----------------------------
(***************************************************************************)
(* The config entry: how the config flow and the options flow fill it in,  *)
(* how old entries are migrated, and the controllers and the clients that  *)
(* async_setup_entry makes of it, through reloads and restarts.  The dicts *)
(* of the code are functions and records here, and an inverter's id is its *)
(* place in the dict of inverters.                                         *)
(***************************************************************************)
EXTENDS InverterProfiles, SequencesExt

CONSTANTS
  None,
  Out,            \* the inverters there are: [protocol, host, slave, baud, registers]
  Hosts, Slaves, Bauds, Names, EnteredPrefixes,   \* what a user may enter
  Slug(_),        \* slugify
  Rates,          \* poll rates that a user may enter
  Adapters,       \* the adapters that a user may choose
  OldEntries,     \* entries of older versions: [version, data, options]
  MaxInverters, MaxChanges   \* bounds on the config flow and on all that comes after

VARIABLES
  entry,    \* [version, data, options], or None before there is one
  flow,     \* the flow that the user is in
  reload,   \* "idle", or what is still to do: "migrate", "unload", "setup"
  running,  \* the settings of each controller that the last setup made, or None
  clients,  \* the client for each modbus type and host: [adapter_id, baud], or None
  changes   \* bounded counter

loaded == <<running, clients>>
vars == <<entry, flow, reload, loaded, changes>>

VERSION == 7

\* dict.update: what more says goes first.
Updated(config, more) ==
  [k \in DOMAIN config \union DOMAIN more |-> IF k \in DOMAIN more THEN more[k] ELSE config[k]]
Without(config, keys) == [k \in DOMAIN config \ keys |-> config[k]]
Only1(key, value, absent) == IF value = absent THEN <<>> ELSE [k \in {key} |-> value]

-----------------------------------------------------------------------------
(* Adapters.                                                               *)
Adapter(type, conn, protocols, config) ==
  [adapter_type |-> type, connection_type |-> conn, protocols |-> protocols, config |-> config]
_DefaultConfig(max_read) == [tcp |-> 10, other |-> 10, max_read |-> max_read]
_W610Config == [tcp |-> 15, other |-> 10, max_read |-> 8]
serial(config) == Adapter("serial", "AUX", {"serial"}, config)
network(protocols, config) == Adapter("network", "AUX", protocols, config)

ADAPTERS ==
  [direct           |-> Adapter("direct", "LAN", {"tcp"}, _DefaultConfig(100)),
   dsd_tech_sh_u10  |-> serial(_DefaultConfig(100)),
   runcci_yun_usb_to_rs485_converter |-> serial(_DefaultConfig(20)),
   waveshare_usb_to_rs485_b |-> serial(_DefaultConfig(100)),
   serial_other     |-> serial(_DefaultConfig(20)),
   elfin_ew11       |-> network({"tcp", "udp"}, _DefaultConfig(100)),
   usr_tcp232_304   |-> network({"rtu_over_tcp"}, _DefaultConfig(100)),
   usr_tcp232_410s  |-> network({"tcp", "udp"}, _DefaultConfig(100)),
   usr_w610         |-> network({"tcp", "udp"}, _W610Config),
   waveshare_rs485_to_eth_b |-> network({"tcp", "udp"}, _DefaultConfig(100)),
   network_other    |-> network({"tcp", "udp", "rtu_over_tcp"}, _W610Config)]

inverter_config(adapter, protocol) ==
  LET config == ADAPTERS[adapter].config
  IN  [poll_rate |-> IF protocol = "tcp" THEN config.tcp ELSE config.other,
       max_read |-> config.max_read]

-----------------------------------------------------------------------------
(* autodetect: what two registers tell, and at which baud rate.            *)
_IVEM_SUBTYPE_TO_MODEL ==
  516 :> 3024 @@ 518 :> 4024 @@ 1032 :> 5048 @@ 1034 :> 6048 @@ 1035 :> 6048 @@ 1038 :> 8048
  @@ 1039 :> 8048 @@ 1046 :> 12048 @@ 5124 :> 3048 @@ 5128 :> 5048 @@ 9224 :> 5048
  @@ 9230 :> 8048
TREX_POWER == 8 :> 5 @@ 16 :> 9 @@ 18 :> 10 @@ 98 :> 50

\* The model, or None for one that no profile matches or has no capacity.
autodetect(registers) ==
  LET model == IF registers[1] = 80 THEN "IVEM" ELSE "TREX"
      sizes == IF registers[1] = 80 THEN _IVEM_SUBTYPE_TO_MODEL ELSE TREX_POWER
      subtype == IF registers[1] = 80 THEN registers[2] ELSE registers[2] % 256
  IN  IF /\ registers[1] \in {80, 81} /\ subtype \in DOMAIN sizes
         /\ InverterCapacity(model, sizes[subtype]) > 0
      THEN model ELSE None

CandidateBauds(entered) == {entered, 2400, 9600}

\* The details that detection adds; none when nothing answers, or nothing known.
Detected(protocol, host, slave, entered) ==
  {[inverter_base |-> autodetect(i.registers), modbus_serial_baud |-> i.baud] :
     i \in {o \in Out : /\ <<o.protocol, o.host, o.slave>> = <<protocol, host, slave>>
                        /\ autodetect(o.registers) # None
                        /\ protocol = "serial" => o.baud \in CandidateBauds(entered)}}

-----------------------------------------------------------------------------
(* Configurations of inverters.                                            *)
\* The options of version 1 are for all the inverters.
Options(id) == IF entry.version > 1 /\ id \in DOMAIN entry.options THEN entry.options[id] ELSE <<>>
_config_for_inverter(id) == Updated(entry.data[id], Options(id))

Connection(c) == <<c.modbus_type, c.host, c.modbus_slave>>

NoOthers(id) == {}   \* mutant: does not compare with the other inverters

Others(id) == {_config_for_inverter(i) : i \in DOMAIN entry.data \ {id}}

\* _dict_to_inverter_data and back; the friendly name hangs on the prefix.
ThroughInverterData(c) ==
  IF c.entity_id_prefix # "" THEN c ELSE Updated(c, [friendly_name |-> ""])

-----------------------------------------------------------------------------
(* AdapterFlowSegment, which both flows use.                               *)
NoFlow == [step |-> "none", id |-> None, all |-> <<>>, inverter |-> <<>>]

async_step_select_adapter_type(adapter) ==
  /\ flow.step = "select_adapter_type"
  /\ ADAPTERS[adapter].adapter_type # "direct"
  /\ flow' = [flow EXCEPT !.step = "connect",
                !.inverter = Updated(@, [adapter_id |-> adapter,
                                         inverter_conn |-> ADAPTERS[adapter].connection_type])]
  /\ UNCHANGED <<entry, reload, loaded, changes>>

\* The step of the TCP or the serial adapter, when what is entered is not yet used.
Connects(protocol, host, slave, baud, others) ==
  /\ flow.step = "connect"
  /\ protocol \in ADAPTERS[flow.inverter.adapter_id].protocols
  /\ \A other \in others : Connection(other) # <<protocol, host, slave>>

ConnectedAs(protocol, host, slave, baud, details) ==
  Updated(Updated(flow.inverter, [modbus_type |-> protocol, host |-> host, modbus_slave |-> slave]),
          details)

-----------------------------------------------------------------------------
(* The config flow.                                                        *)
async_step_user ==
  /\ entry = None /\ flow = NoFlow
  /\ flow' = [NoFlow EXCEPT !.step = "select_adapter_type"]
  /\ UNCHANGED <<entry, reload, loaded, changes>>

NewConnection(protocol, host, slave, baud) ==
  /\ flow.id = None
  /\ Connects(protocol, host, slave, baud, Range(flow.all))
  /\ \E details \in Detected(protocol, host, slave, baud) :
       flow' = [flow EXCEPT !.step = "friendly_name",
                  !.inverter = ConnectedAs(protocol, host, slave, baud, details)]
  /\ UNCHANGED <<entry, reload, loaded, changes>>

\* The name, and the prefix that is generated from it or entered.
async_step_friendly_name(friendly_name, prefix) ==
  /\ flow.step = "friendly_name"
  /\ \A x \in Range(flow.all) : /\ x.friendly_name # friendly_name
                                /\ x.entity_id_prefix # prefix
  /\ flow' = [flow EXCEPT !.step = "add_another_inverter", !.inverter = <<>>,
                !.all = Append(@, Updated(flow.inverter, [entity_id_prefix |-> prefix,
                                                          unique_id_prefix |-> friendly_name,
                                                          friendly_name |-> friendly_name]))]
  /\ UNCHANGED <<entry, reload, loaded, changes>>

async_step_add_another_inverter ==
  /\ flow.step = "add_another_inverter" /\ Len(flow.all) < MaxInverters
  /\ flow' = [flow EXCEPT !.step = "select_adapter_type"]
  /\ UNCHANGED <<entry, reload, loaded, changes>>

\* async_step_energy creates the entry, and Home Assistant sets it up.
_create_entry_data ==
  /\ flow.step = "add_another_inverter"
  /\ entry' = [version |-> VERSION, data |-> flow.all, options |-> <<>>]
  /\ flow' = NoFlow /\ reload' = "setup"
  /\ UNCHANGED <<loaded, changes>>

-----------------------------------------------------------------------------
(* The options flow.                                                       *)
Change == changes < MaxChanges /\ changes' = changes + 1

async_step_init(id) ==
  /\ entry # None /\ entry.version = VERSION /\ reload = "idle" /\ flow = NoFlow
  /\ Change
  /\ flow' = [NoFlow EXCEPT !.step = "inverter_options_category", !.id = id]
  /\ UNCHANGED <<entry, reload, loaded>>

\* It reads the whole configuration of every inverter, the baud rate included.
ChangesAdapter ==
  /\ flow.step = "inverter_options_category"
  /\ \A id \in DOMAIN entry.data : "modbus_serial_baud" \in DOMAIN _config_for_inverter(id)
  /\ flow' = [flow EXCEPT !.step = "select_adapter_type",
                !.inverter = ThroughInverterData(_config_for_inverter(flow.id))]
  /\ UNCHANGED <<entry, reload, loaded, changes>>

\* Saving ends the flow; if anything changed, and a setup that worked is listening,
\* Home Assistant calls async_reload_entry.
_save_selected_inverter_options(options) ==
  /\ entry' = [entry EXCEPT !.options = Updated(@, [id \in {flow.id} |-> options])]
  /\ flow' = NoFlow
  /\ reload' = IF entry' = entry \/ running = None THEN reload ELSE "unload"
  /\ UNCHANGED <<loaded, changes>>

OtherConnection(protocol, host, slave, baud) ==
  /\ flow.id # None
  /\ Connects(protocol, host, slave, baud, Others(flow.id))
  /\ \E details \in Detected(protocol, host, slave, baud) :
       _save_selected_inverter_options(
         Updated(Options(flow.id),
                 Without(ConnectedAs(protocol, host, slave, baud, details),
                         {"inverter_version", "poll_rate", "max_read", "round_sensor_values"})))

async_step_version_settings(version) ==
  LET c == _config_for_inverter(flow.id)
      versions == DOMAIN ProfileFromConfig(c.inverter_base, c.inverter_conn).versions
  IN  /\ flow.step = "inverter_options_category"
      /\ Cardinality(versions) > 1 /\ version \in versions
      /\ _save_selected_inverter_options(
           Updated(Without(Options(flow.id), {"inverter_version"}),
                   Only1("inverter_version", version, LATEST)))

async_step_inverter_advanced_options(poll_rate, max_read, round) ==
  /\ flow.step = "inverter_options_category"
  /\ _save_selected_inverter_options(
       Updated(Updated(Updated(Without(Options(flow.id),
                                       {"poll_rate", "max_read", "round_sensor_values"}),
                               Only1("poll_rate", poll_rate, None)),
                       Only1("max_read", max_read, None)),
               Only1("round_sensor_values", round, FALSE)))

Dismiss ==
  /\ flow # NoFlow /\ flow' = NoFlow
  /\ UNCHANGED <<entry, reload, loaded, changes>>

-----------------------------------------------------------------------------
(* async_migrate_entry: a step from each version, for each inverter.       *)
SlugsFirst(c) ==   \* mutant: the unique ids follow the cleaned-up prefix
  Updated(c, [entity_id_prefix |-> Slug(c.entity_id_prefix),
              unique_id_prefix |-> Slug(c.entity_id_prefix)])

CleansPrefix(c) ==
  Updated(c, [entity_id_prefix |-> Slug(c.entity_id_prefix),
              unique_id_prefix |-> c.entity_id_prefix])

NoName(name) == IF name = None THEN "" ELSE name

Lower(type) ==
  CASE type = "TCP+RTU" -> "rtu_over_tcp"
    [] type = "TCP" -> "tcp"
    [] type = "UDP" -> "udp"
    [] type = "SERIAL" -> "serial"
    [] OTHER -> type

Step(v, c) ==
  CASE v = 3 -> Updated(c, [entity_id_prefix |-> c.friendly_name])
    [] v = 4 -> Updated(Without(c, {"poll_rate", "max_read"}),
                        [friendly_name |-> NoName(c.friendly_name),
                         entity_id_prefix |-> NoName(c.entity_id_prefix)])
    [] v = 5 -> Updated(c, [modbus_type |-> Lower(c.modbus_type)])
    [] v = 6 -> CleansPrefix(c)

Since(v, version, c) == IF version <= v THEN Step(v, c) ELSE c

Upgraded(version, c) ==
  Since(6, version, Since(5, version, Since(4, version, Since(3, version, c))))

\* From version 1, only connections under the keys of today are taken over.
Introduced(c) ==
  LET adapter == CASE c.modbus_type = "serial" -> "serial_other"
                   [] c.modbus_type # "serial" /\ c.inverter_conn = "LAN" -> "direct"
                   [] OTHER -> "network_other"
  IN  Updated(c, [friendly_name |-> IF c.friendly_name = "null" THEN "" ELSE c.friendly_name,
                  adapter_id |-> adapter])

TakenOver(old) ==
  {id \in DOMAIN old.data : old.version = 1 => old.data[id].modbus_type \in {"tcp", "serial"}}

Migrated(old) ==
  [version |-> VERSION,
   data |-> [id \in TakenOver(old) |->
     Upgraded(old.version, IF old.version = 1 THEN Introduced(old.data[id]) ELSE old.data[id])],
   options |-> IF old.version = 1 THEN [id \in TakenOver(old) |-> old.options] ELSE old.options]

\* What the unique ids of an inverter's entities begin with, in any version.
IdsBeginWith(version, c) ==
  LET id == IF "unique_id_prefix" \in DOMAIN c THEN c.unique_id_prefix
            ELSE IF "entity_id_prefix" \in DOMAIN c THEN c.entity_id_prefix
            ELSE c.friendly_name
  IN  IF id = None \/ (version = 1 /\ id = "null") THEN "" ELSE id

OldConfig(old, id) ==
  IF old.version > 1 /\ id \in DOMAIN old.options
  THEN Updated(old.data[id], old.options[id]) ELSE old.data[id]

OldConnection(c) == <<Lower(c.modbus_type), c.host, c.modbus_slave>>

\* What older versions have left behind: the keys that their migration reads are
\* there and those that it introduces or removes are not; options do not
\* rename, and have a modbus type, which no migration changes, as it is
\* written today; no two inverters have the same connection, and those
\* whose baud rate is known answer.
LeftBehind(old) ==
  /\ DOMAIN old = {"version", "data", "options"}
  /\ old.version \in 1 .. VERSION - 1
  /\ \A id \in DOMAIN old.data :
       LET c == OldConfig(old, id)
           key == DOMAIN old.data[id]
       IN  /\ id \in Nat
           /\ {"friendly_name", "modbus_type", "host", "modbus_slave"} \subseteq key
           /\ "unique_id_prefix" \notin DOMAIN c
           /\ old.version > 1 => "adapter_id" \in key
           /\ "entity_id_prefix" \in key <=> old.version > 3
           /\ old.version > 4 => {"poll_rate", "max_read"} \cap key = {}
           /\ old.version = 6 => Lower(old.data[id].modbus_type) = old.data[id].modbus_type
           /\ "modbus_serial_baud" \in DOMAIN c =>
                \E o \in Out : /\ <<o.protocol, o.host, o.slave>> = OldConnection(c)
                               /\ o.baud = c.modbus_serial_baud
           /\ \A other \in DOMAIN old.data \ {id} :
                /\ OldConnection(OldConfig(old, other)) # OldConnection(c)
                /\ IdsBeginWith(old.version, old.data[other]) # IdsBeginWith(old.version, old.data[id])
  /\ old.version = 1 => DOMAIN old.options \subseteq {"poll_rate", "max_read"}
  /\ old.version > 1 => DOMAIN old.options \subseteq DOMAIN old.data
  /\ old.version > 1 => \A id \in DOMAIN old.options :
       LET options == old.options[id]
       IN  /\ \A key \in {"friendly_name", "entity_id_prefix"} \cap DOMAIN options :
                key \in DOMAIN old.data[id] /\ options[key] = old.data[id][key]
           /\ "modbus_type" \in DOMAIN options => Lower(options.modbus_type) = options.modbus_type

ASSUME ConfigEntriesAssumption ==
  /\ None \notin Nat /\ None \notin Names
  /\ \A old \in OldEntries : LeftBehind(old)

\* A UDP connection of version 1 is an AssertionError: the entry stays as it is.
async_migrate_entry ==
  /\ reload = "migrate"
  /\ IF entry.version = 1 /\ \E id \in DOMAIN entry.data : entry.data[id].modbus_type = "udp"
     THEN entry' = entry /\ reload' = "idle"
     ELSE entry' = Migrated(entry) /\ reload' = "setup"
  /\ UNCHANGED <<flow, loaded, changes>>

-----------------------------------------------------------------------------
(* Loading and unloading.                                                  *)
AdapterLast(id) ==   \* mutant: the adapter's settings override the user's
  LET config == entry.data[id]
      adapter == _config_for_inverter(id).adapter_id
  IN  Updated(Updated(config, Options(id)), inverter_config(adapter, config.modbus_type))

\* The settings of a controller: the data, under the adapter's, under the user's.
Settings(id) ==
  LET config == entry.data[id]
      adapter == _config_for_inverter(id).adapter_id
  IN  Updated(Updated(config, inverter_config(adapter, config.modbus_type)), Options(id))

\* The controllers of one modbus type and host share a client, which is made for the
\* first of them, with its adapter and, on a serial line, its baud rate.
Line(config) == <<config.modbus_type, config.host>>

Client(config) ==
  [adapter_id |-> config.adapter_id,
   baud |-> IF config.modbus_type = "serial" THEN config.modbus_serial_baud ELSE None]

IsFirst(id) ==
  \A other \in DOMAIN entry.data : Line(Settings(other)) = Line(Settings(id)) => id <= other

Clients ==
  [line \in {Line(Settings(id)) : id \in DOMAIN entry.data} |->
     Client(Settings(CHOOSE id \in DOMAIN entry.data : Line(Settings(id)) = line /\ IsFirst(id)))]

\* An inverter without a baud rate is a KeyError, here or in create_controller.
async_setup_entry ==
  /\ reload = "setup" /\ reload' = "idle"
  /\ IF \A id \in DOMAIN entry.data : "modbus_serial_baud" \in DOMAIN Settings(id)
     THEN running' = [id \in DOMAIN entry.data |-> Settings(id)] /\ clients' = Clients
     ELSE running' = None /\ clients' = None
  /\ UNCHANGED <<entry, flow, changes>>

\* async_reload_entry unloads, and goes on to set up whatever came of that.
async_unload_entry ==
  /\ reload = "unload" /\ reload' = "setup"
  /\ running' = None /\ clients' = None
  /\ UNCHANGED <<entry, flow, changes>>

Restart ==
  /\ entry # None /\ Change
  /\ running' = None /\ clients' = None /\ flow' = NoFlow
  /\ reload' = IF entry.version = VERSION THEN "setup" ELSE "migrate"
  /\ UNCHANGED entry

Init ==
  /\ entry \in {None} \union OldEntries
  /\ flow = NoFlow /\ running = None /\ clients = None /\ changes = 0
  /\ reload = IF entry = None THEN "idle" ELSE "migrate"

Next ==
  \/ async_step_user \/ async_step_add_another_inverter \/ _create_entry_data
  \/ ChangesAdapter \/ Dismiss
  \/ \E adapter \in Adapters : async_step_select_adapter_type(adapter)
  \/ \E protocol \in {"tcp", "udp", "rtu_over_tcp", "serial"}, host \in Hosts, slave \in Slaves,
        baud \in Bauds :
       \/ NewConnection(protocol, host, slave, baud)
       \/ OtherConnection(protocol, host, slave, baud)
  \/ \E name \in Names : \E prefix \in {Slug(name)} \union EnteredPrefixes :
       async_step_friendly_name(name, prefix)
  \/ entry # None /\ \E id \in DOMAIN entry.data : async_step_init(id)
  \/ flow.id # None /\ \E version \in {122, 144, LATEST} : async_step_version_settings(version)
  \/ \E poll_rate, max_read \in Rates \union {None}, round \in BOOLEAN :
       async_step_inverter_advanced_options(poll_rate, max_read, round)
  \/ async_migrate_entry \/ async_setup_entry \/ async_unload_entry \/ Restart

Spec == Init /\ [][Next]_vars

-----------------------------------------------------------------------------
(* Properties.                                                             *)
Loaded == entry # None /\ entry.version = VERSION

\* "Check that connection details are unique" (_autodetect_modbus_and_save_to_inverter_data):
\* whatever was added, moved to another connection or migrated, no two inverters have
\* the same connection, and at that of each one that was detected, an inverter answers
\* at the baud rate that is stored for it. The same inverter may be there twice, at
\* two connections.
EachHasItsConnection ==
  Loaded =>
    \A id \in DOMAIN entry.data :
      LET c == _config_for_inverter(id) IN
      /\ \A other \in DOMAIN entry.data \ {id} :
           Connection(_config_for_inverter(other)) # Connection(c)
      /\ "modbus_serial_baud" \in DOMAIN c =>
           \E o \in Out : /\ <<o.protocol, o.host, o.slave>> = Connection(c)
                          /\ o.baud = c.modbus_serial_baud

UniqueId(id) == IdsBeginWith(entry.version, _config_for_inverter(id))

\* "so that ... their unique IDs stay the same" (async_step_friendly_name): neither
\* an option nor a migration changes what an inverter's unique ids begin
\* with, and no two inverters share it.
UniqueIdsKept ==
  [][entry # None =>
       \A id \in DOMAIN entry'.data :
         /\ UniqueId(id)' = UniqueId(id)
         /\ \A other \in DOMAIN entry'.data \ {id} : UniqueId(other)' # UniqueId(id)']_entry

\* Once loaded, every controller runs with the connection and the settings that the
\* user gave last, and with the adapter's where they gave none; and the client it
\* shares is made as the first inverter at its modbus type and host is configured by
\* then, also when that one was changed last (async_setup_entry, merging data,
\* adapter and options).
RunsAsConfigured ==
  reload = "idle" /\ running # None =>
    \A id \in DOMAIN entry.data :
      LET c == _config_for_inverter(id)
          mates == {other \in DOMAIN entry.data : Line(_config_for_inverter(other)) = Line(c)}
      IN  /\ \A key \in DOMAIN c : key \in DOMAIN running[id] /\ running[id][key] = c[key]
          /\ "max_read" \notin DOMAIN c =>
               running[id].max_read = ADAPTERS[c.adapter_id].config.max_read
          /\ \E first \in mates :
               /\ \A other \in mates : first <= other
               /\ clients[Line(c)] = Client(_config_for_inverter(first))

\* "The default for your adapter type is {default_poll_rate} seconds" (the form of
\* the advanced options): that is the rate when the user enters none.
PollsAtShownDefault ==
  reload = "idle" /\ running # None =>
    \A id \in DOMAIN entry.data :
      LET c == _config_for_inverter(id) IN
      "poll_rate" \notin DOMAIN c =>
        running[id].poll_rate = inverter_config(c.adapter_id, c.modbus_type).poll_rate
==============================================================================
