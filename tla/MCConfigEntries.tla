--------------------------- MODULE MCConfigEntries ---------------------------
(***************************************************************************)
(* ConfigEntries with inverters on one host and, at two baud rates, on one *)
(* serial line, one inverter that no profile knows, and entries of older   *)
(* versions.                                                               *)
(***************************************************************************)
EXTENDS ConfigEntries

At(protocol, host, slave, baud, registers) ==
  [protocol |-> protocol, host |-> host, slave |-> slave, baud |-> baud, registers |-> registers]

MCOut ==
  {At("tcp", "h", 1, None, <<80, 1035>>), At("udp", "h", 1, None, <<80, 1035>>),
   At("tcp", "h", 2, None, <<81, 4194>>), At("serial", "h", 1, 9600, <<81, 8>>),
   At("serial", "h", 2, 2400, <<80, 1035>>), At("udp", "h", 2, None, <<80, 2457>>)}

MCSlug(name) == CASE name = "" -> "" [] name \in {"Home", "home"} -> "home" [] OTHER -> name

Old(model, protocol, slave, name, more) ==
  1 :> (more @@ "inverter_base" :> model @@ "inverter_conn" :> "AUX" @@ "modbus_type" :> protocol
        @@ "host" :> "h" @@ "modbus_slave" :> slave @@ "friendly_name" :> name)

Adapted == "adapter_id" :> "usr_w610"
Prefixed == "entity_id_prefix" :> "Home" @@ Adapted

MCOldEntries ==
  {[version |-> 1, data |-> Old("TREX", "TCP", 1, "Home", <<>>), options |-> <<>>],
   [version |-> 1, data |-> Old("TREX", "tcp", 1, "null", <<>>),
    options |-> "poll_rate" :> 5 @@ "max_read" :> 8],
   [version |-> 1, data |-> Old("TREX", "udp", 1, "Home", <<>>), options |-> <<>>],
   [version |-> 2, data |-> Old("TREX", "TCP", 1, "Home", Adapted), options |-> <<>>],
   [version |-> 4, data |-> Old("TREX", "UDP", 1, None, "entity_id_prefix" :> None
                                @@ "poll_rate" :> 5 @@ Adapted), options |-> <<>>],
   [version |-> 6, data |-> Old("H1_G2", "tcp", 1, "Home", "modbus_serial_baud" :> None
                                @@ Prefixed),
    options |-> 1 :> ("entity_id_prefix" :> "Home" @@ "modbus_slave" :> 2)]}
==============================================================================
