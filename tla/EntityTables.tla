---------------------------- MODULE EntityTables ----------------------------
(***************************************************************************)
(* The entities the integration can create, and the registers each of them *)
(* stands for on each Inv: entities/entity_descriptions.py,                *)
(* charge_period_descriptions.py and remote_control_description.py.        *)
(* Names, units, icons and rounding are left out.                          *)
(***************************************************************************)
EXTENDS InverterProfiles

(* One of a description's alternatives: the registers it has on some Invs  *)
(* and a register type, lowest-order word first.                           *)
AddressSpec(models, type, addresses) ==
  [models |-> models, type |-> type, addresses |-> addresses]
On(inv, addresses) == AddressSpec({inv}, "HOLDING", addresses)
Holding(models, addresses) == AddressSpec(models, "HOLDING", addresses)
Input(models, addresses) == AddressSpec(models, "INPUT", addresses)

(* A description.  words: how many registers the class insists on (0: any) *)
(* other: the specs of a second register it needs; writes: the raw values  *)
(* that its setter sends.                                                  *)
Desc(class, key, specs, words, other, writes) ==
  [class |-> class, key |-> key, specs |-> specs, words |-> words,
   other |-> other, writes |-> writes]

Sensor(key, specs) == Desc("sensor", key, specs, 0, {}, {})
Sensors(keys, specs) == {Sensor(key, specs) : key \in keys}
State(key, specs) == Desc("state", key, specs, 1, {}, {})
Binary(key, specs) == Desc("binary", key, specs, 1, {}, {})
Battery(key, specs, bms) == Desc("battery", key, specs, 0, bms, {})
Select(key, specs, codes) == Desc("select", key, specs, 1, {}, codes)
WorkMode(key, specs, codes) == Desc("work_mode", key, specs, 1, {}, codes)
Number(key, specs, codes) == Desc("number", key, specs, 1, {}, codes)

Platform(desc) ==
  CASE desc.class \in {"select", "work_mode", "rc_select"} -> "select"
    [] desc.class \in {"number", "rc_number"} -> "number"
    [] desc.class \in {"binary", "force_charge"} -> "binary_sensor"
    [] OTHER -> "sensor"

(* Sensors that exist on some Invs only: rows of a key and its registers.  *)
SensorTable(models, rows) ==
  {Sensor(row[1], {Holding(models, row[2])}) : row \in rows}

-----------------------------------------------------------------------------
Version(key, gwetp, trex) ==
  Desc("version", key, {On("GWETP", <<gwetp>>), On("TREX", <<trex>>)}, 1, {}, {})

_version_entities ==
  {Version("master_version", 35016, 63549), Version("slave_version", 35017, 63550),
   Version("manager_version", 35019, 63553)}

_pv_entities ==
  {Sensor("pv1_voltage", {On("GWETP", <<35103>>), On("TREX", <<4375>>), On("IVEM", <<4390>>)}),
   Sensor("pv1_current", {On("TREX", <<4376>>), On("IVEM", <<4393>>)}),
   Sensor("pv1_power", {On("GWETP", <<35105>>), On("TREX", <<4377>>), On("IVEM", <<4394>>)}),
   Sensor("pv2_voltage", {On("TREX", <<4378>>), On("IVEM", <<4441>>)}),
   Sensor("pv2_current", {On("TREX", <<4379>>), On("IVEM", <<4442>>)}),
   Sensor("pv2_power", {On("TREX", <<4380>>), On("IVEM", <<4443>>)}),
   Desc("lambda", "pv_power",
        LET models == ALL \ (KH_SET \union H3_PRO_OR_SMART)
        IN  {AddressSpec(models, type, <<>>) : type \in {"INPUT", "HOLDING"}}, 0, {}, {})}

_h3_grid_and_inverter_entities ==
  SensorTable({"TREX"},
    {<<"grid_voltage_R", <<4361>> >>, <<"grid_voltage_S", <<4384>> >>,
     <<"grid_voltage_T", <<4388>> >>, <<"inverter_current_R", <<4362>> >>,
     <<"inverter_current_S", <<4385>> >>, <<"inverter_current_T", <<4389>> >>,
     <<"inverter_power_R", <<4364>> >>, <<"inverter_power_S", <<4387>> >>,
     <<"inverter_power_T", <<4391>> >>})

_h3_backup_entities ==
  SensorTable(H3_PRO_OR_SMART,
    {<<"backup_volt_R", <<39201>> >>, <<"backup_volt_S", <<39202>> >>,
     <<"backup_volt_T", <<39203>> >>, <<"backup_current_R", <<39205, 39204>> >>,
     <<"backup_current_S", <<39207, 39206>> >>, <<"backup_current_T", <<39209, 39208>> >>})
  \union
  SensorTable({"TREX"},
    {<<"backup_power_R", <<4531>> >>, <<"backup_power_S", <<4548>> >>,
     <<"backup_power_T", <<4552>> >>})

_h3_grid_and_load_entities ==
  Sensors({"grid_power", "grid_power_export", "grid_power_import"},
          {On("TREX", <<4502, 4501>>)})
  \union {Sensor("load_power", {On("TREX", <<4504, 4503>>)}),
          Sensor("load_power", {On("IVEM", <<4382>>)})}

Fault(specs, words) == Desc("fault", "inverter_fault_code", specs, words, {}, {})

_inverter_entities ==
  Sensors({"battery_power", "battery_power_discharge", "battery_power_charge"},
          {On("TREX", <<4367>>), On("IVEM", <<4362>>)})
  \union
  SensorTable({"TREX"}, {<<"inverter_temperature", <<4426>> >>, <<"ambient_temperature", <<4427>> >>})
  \union
  {Fault({AddressSpec({"H1_G1"}, "INPUT", <<11061, 11062, 11064, 11065, 11066, 11067, 11068>>),
          Holding({"H1_G1", "H1_LAN"}, <<31031, 31032, 31034, 31035, 31036, 31037, 31038>>),
          Holding(H3_SET, <<31044, 31045, 31047, 31048, 31049, 31050, 31051>>)}, 7),
   Fault({On("TREX", <<4615>>)}, 1),
   State("inverter_state", {On("TREX", <<4353>>)}),
   Desc("g2_state", "inverter_state",
        {Holding(H1_G2_SET \union H3_PRO_OR_SMART, <<39063, 39065>>)}, 2, {}, {})}

_inverter_energy_entities ==
  {Sensor("pv_energy_total", {On("TREX", <<4441, 4440, 4439, 4438>>),
                              On("IVEM", <<4412, 4411, 4410, 4409>>)}),
   Sensor("load_energy_total", {On("TREX", <<4451, 4450, 4449, 4448>>),
                                On("IVEM", <<4428, 4427, 4426, 4425>>)}),
   Sensor("input_energy_total", {On("GWETP", <<4461, 4460, 4459, 4458>>)})}
  \union
  SensorTable({"TREX"},
    {<<"battery_energy_charge_total", <<4481, 4480, 4479, 4478>> >>,
     <<"battery_energy_discharge_total", <<4491, 4490, 4489, 4488>> >>,
     <<"grid_energy_export_total", <<4471, 4470, 4469, 4468>> >>,
     <<"grid_energy_import_total", <<4461, 4460, 4459, 4458>> >>})

(* The battery values that the inverter's BMS reports; all but voltage and *)
(* current are unknown while the BMS register says that it is offline.     *)
_bms_inner(bms, voltage, current, rows) ==
  {Sensor(voltage[1], {voltage[2]}), Sensor(current[1], {current[2]})}
  \union {Battery(row[1], {row[2]}, bms) : row \in rows}

_bms_entities ==
  _bms_inner({On("TREX", <<4607>>)},
    <<"battery_voltage", On("TREX", <<4621>>)>>, <<"battery_current", On("TREX", <<4620>>)>>,
    {<<"battery_soc", On("TREX", <<4624>>)>>, <<"battery_soh", On("H3_180", <<31090>>)>>,
     <<"battery_temp", Holding(H3_SET, <<31037>>)>>,
     <<"bms_cell_temp_high", On("H3_180", <<31102>>)>>,
     <<"bms_cell_temp_low", On("H3_180", <<31103>>)>>,
     <<"bms_cell_mv_high", On("H3_180", <<31134>>)>>,
     <<"bms_cell_mv_low", On("H3_180", <<31135>>)>>,
     <<"bms_kwh_remaining", On("H3_180", <<31123>>)>>})

_bms_1_and_2_entities ==
  LET Both(address) == Holding(H3_PRO_OR_SMART, <<address>>)
  IN  _bms_inner({Both(37002)}, <<"battery_voltage_1", Both(37609)>>,
        <<"battery_current_1", Both(37610)>>,
        {<<"battery_soc_1", Both(37612)>>, <<"battery_soh_1", On("H3_SMART", <<37624>>)>>,
         <<"battery_temp_1", Both(37611)>>, <<"bms_cell_temp_high_1", Both(37617)>>,
         <<"bms_cell_temp_low_1", Both(37618)>>, <<"bms_cell_mv_high_1", Both(37619)>>,
         <<"bms_cell_mv_low_1", Both(37620)>>, <<"bms_kwh_remaining_1", Both(37632)>>})
      \union
      _bms_inner({Both(37700)}, <<"battery_voltage_2", Both(38307)>>,
        <<"battery_current_2", Both(38308)>>,
        {<<"battery_soc_2", Both(38310)>>, <<"battery_soh_2", On("H3_SMART", <<38322>>)>>,
         <<"battery_temp_2", Both(38309)>>, <<"bms_cell_temp_high_2", Both(38315)>>,
         <<"bms_cell_temp_low_2", Both(38316)>>, <<"bms_cell_mv_high_2", Both(38317)>>,
         <<"bms_cell_mv_low_2", Both(38318)>>, <<"bms_kwh_remaining_2", Both(38330)>>})

-----------------------------------------------------------------------------
IvemSensors(rows) == {Sensor(row[1], {On("IVEM", <<row[2]>>)}) : row \in rows}

_ivem_output_entities ==
  IvemSensors(
    {<<"battery_voltage", 4621>>, <<"battery_current", 4620>>, <<"battery_soc", 4624>>,
     <<"inverter_fault_code", 4355>>, <<"inverter_voltage", 4364>>,
     <<"inverter_current", 4365>>, <<"inverter_frequency", 4366>>, <<"inverter_power", 4367>>,
     <<"inverter_apparent_power", 4368>>, <<"ac_output_voltage", 4369>>,
     <<"ac_input_voltage", 4375>>, <<"ac_input_frequency", 4377>>})

_ivem_status_entities ==
  IvemSensors(
    {<<"ac_output_apparent_power", 4383>>, <<"load_percentage", 4384>>,
     <<"transformer_temperature", 4385>>, <<"inverter_temperature", 4386>>,
     <<"battery_temperature", 4387>>, <<"bus_voltage", 4388>>, <<"scc_temperature", 4395>>,
     <<"scc_charge_mode", 4396>>, <<"bms_flags", 4400>>, <<"bms_connect_count", 4401>>,
     <<"bms_soc", 4402>>, <<"bms_cv_voltage", 4403>>, <<"bms_float_voltage", 4404>>,
     <<"bms_cutoff_voltage", 4405>>, <<"bms_max_charge_current", 4406>>,
     <<"bms_max_discharge_current", 4407>>, <<"bms_fault_code", 4408>>})

_ivem_port_entities ==
  IvemSensors(
    {<<"generator_voltage", 4453>>, <<"generator_current", 4454>>,
     <<"generator_frequency", 4455>>, <<"generator_power", 4456>>,
     <<"smart_load_voltage", 4457>>, <<"smart_load_current", 4458>>,
     <<"smart_load_frequency", 4459>>, <<"smart_load_power", 4460>>, <<"eq_stage", 4500>>})
  \union {State("smart_port_status", {On("IVEM", <<4461>>)})}
  \union {Binary(key, {On("IVEM", <<4400>>)}) :
            key \in {"bms_communication_connected", "bms_version_mismatch",
                     "bms_forced_charge", "bms_charge_stopped", "bms_discharge_stopped"}}

_ivem_battery_entities ==
  IvemSensors(
    {<<"battery_line_voltage", 4608>>, <<"battery_charge_discharge_limit_voltage", 4609>>,
     <<"battery_max_charge_current_limit", 4610>>,
     <<"battery_max_discharge_current_limit", 4611>>, <<"battery_system_fault_code", 4612>>,
     <<"battery_system_status_state", 4613>>, <<"battery_soh", 4625>>})

_ivem_number_entities ==
  {Number(row[1], {On("IVEM", <<row[2]>>)}, row[3]) :
     row \in {<<"battery_cutoff_voltage", 8479, 210..601>>, <<"battery_cv_voltage", 8482, 210..601>>,
              <<"battery_float_voltage", 8483, 210..601>>,
              <<"battery_max_charge_current", 8494, 10..100>>,
              <<"battery_max_ac_charge_current", 8496, 10..100>>,
              <<"battery_back_to_charge_voltage", 8534, 210..601>>,
              <<"battery_back_to_discharge_voltage", 8537, 210..601>>}}

_ivem_select_entities ==
  {Select(row[1], {On("IVEM", <<row[2]>>)}, row[3]) :
     row \in {<<"ac_output_frequency", 8489, 0..1>>, <<"output_source_priority", 8490, 0..2>>,
              <<"application_mode", 8491, 0..1>>, <<"charging_source_priority", 8492, 1..3>>,
              <<"battery_type", 8493, 0..3>>, <<"buzzer", 8497, 0..1>>,
              <<"overload_restart", 8499, 0..1>>, <<"over_temperature_restart", 8500, 0..1>>,
              <<"lcd_backlight", 8501, 0..1>>, <<"overload_to_bypass", 8503, 0..1>>}}

_configuration_entities ==
  {WorkMode("work_mode", {On("TREX", <<8451>>)}, 0..2),
   WorkMode("impex_mode", {On("TREX", <<8568>>)}, 0..2)}
  \union
  {Number(row[1], {On("TREX", <<row[2]>>)}, row[3]) :
     row \in {<<"battery_battery_min_soc_impex", 8575, 0..100>>,
              <<"battery_power_impex", 8576, {100 * tenth : tenth \in 0..100}>>,
              <<"battery_max_charge_current", 8493, 0..2000>>,
              <<"battery_max_discharge_current", 8494, 0..2000>>,
              <<"battery_min_soc", 8491, 0..100>>, <<"battery_min_soc_on_grid", 8490, 10..100>>}}

-----------------------------------------------------------------------------
(* The registers of a charge period, and the keys of its entities.         *)
ChargePeriod(start, end, grid, keys) ==
  [start |-> start, end |-> end, grid |-> grid, keys |-> keys]

CHARGE_PERIODS ==
  {ChargePeriod(41002, 41003, 41001,
                <<"time_period_1_start", "time_period_1_end",
                  "time_period_1_enable_force_charge", "time_period_1_enable_charge_from_grid">>),
   ChargePeriod(41005, 41006, 41004,
                <<"time_period_2_start", "time_period_2_end",
                  "time_period_2_enable_force_charge", "time_period_2_enable_charge_from_grid">>)}

ChargePeriodSpecs(address) ==
  {Input({"H1_G1", "KH_PRE119"}, <<address>>), Holding(H1_G2_SET, <<address>>)}

ChargePeriodEntities(period) ==
  LET start == ChargePeriodSpecs(period.start)
      end   == ChargePeriodSpecs(period.end)
  IN  {Desc("time", period.keys[1], start, 1, end, {}),
       Desc("time", period.keys[2], end, 1, start, {}),
       Desc("force_charge", period.keys[3], start, 1, end, {}),
       Binary(period.keys[4], ChargePeriodSpecs(period.grid))}

(* The registers of remote control.  <<>> stands for None.                 *)
RemoteControl(models, type, enable, power, work_mode, max_soc, bat_power, bat_soc, limit, pv) ==
  [models |-> models, type |-> type, remote_enable |-> enable, timeout_set |-> enable + 1,
   active_power |-> power, work_mode |-> work_mode, max_soc |-> max_soc,
   battery_power |-> bat_power, battery_soc |-> bat_soc,
   pwr_limit_bat_up |-> limit, pv_voltages |-> pv]

REMOTE_CONTROL ==
  {RemoteControl({"H1_G1"}, "INPUT", 44000, <<44002>>, <<41000>>, <<41010>>, <<11008>>,
                 <<11036>>, <<44012>>, <<11000, 11003>>),
   RemoteControl({"H1_LAN"}, "HOLDING", 44000, <<44002>>, <<>>, <<>>, <<31022>>, <<31024>>,
                 <<>>, <<31000, 31003>>),
   RemoteControl(H1_G2_SET, "HOLDING", 44000, <<44002>>, <<41000>>, <<41010>>, <<31022>>,
                 <<31024>>, <<>>, <<39070, 39072>>),
   RemoteControl({"KH_PRE119"}, "INPUT", 44000, <<44002>>, <<41000>>, <<41010>>, <<11008>>,
                 <<11036>>, <<>>, <<11000, 11003, 11096, 11099>>),
   RemoteControl({"KH_PRE133", "KH_133"}, "HOLDING", 44000, <<44002>>, <<41000>>, <<41010>>,
                 <<31022>>, <<31024>>, <<>>, <<31000, 31003, 31039, 31042>>),
   RemoteControl({"H3_PRE180", "H3_180"}, "HOLDING", 44000, <<44003, 44002>>, <<41000>>,
                 <<41010>>, <<31022>>, <<31038>>, <<>>, <<31000, 31003>>),
   RemoteControl(H3_PRO_OR_SMART, "HOLDING", 46001, <<46004, 46003>>, <<49203>>, <<46610>>,
                 <<39238, 39237>>, <<37612, 38310>>, <<46019, 46018>>,
                 <<39070, 39072, 39074, 39076, 39078, 39080>>)}

(* Entities of every inverter with remote control, and those of the ones   *)
(* that have no register for the work mode or for the highest charge.      *)
RemoteControlEntities ==
  LET Entity(class, key, configs) ==
        Desc(class, key, {AddressSpec(c.models, c.type, <<>>) : c \in configs}, 0, {}, {})
      Without(field(_)) == {c \in REMOTE_CONTROL : field(c) = <<>>}
      WorkModeOf(c) == c.work_mode
      MaxSocOf(c)   == c.max_soc
  IN  {Entity("rc_number", "force_charge_power", REMOTE_CONTROL),
       Entity("rc_number", "force_discharge_power", REMOTE_CONTROL),
       Entity("rc_select", "force_charge_mode", Without(WorkModeOf)),
       Entity("rc_number", "force_charge_max_soc", Without(MaxSocOf))}

ENTITIES ==
  UNION {_version_entities, _pv_entities, _h3_grid_and_inverter_entities, _h3_backup_entities,
         _h3_grid_and_load_entities, _inverter_entities, _inverter_energy_entities,
         _bms_entities, _bms_1_and_2_entities, _ivem_output_entities, _ivem_status_entities,
         _ivem_port_entities, _ivem_battery_entities, _ivem_number_entities,
         _ivem_select_entities, _configuration_entities, RemoteControlEntities}
  \union UNION {ChargePeriodEntities(period) : period \in CHARGE_PERIODS}
=============================================================================
