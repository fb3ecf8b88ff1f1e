-------------------------- MODULE InverterProfiles --------------------------
(***************************************************************************)
(* What the integration knows of the inverters it supports: for each       *)
(* model, the connections it has, the register type they use, the versions *)
(* (each an "Inv" that keys the entity tables) and the registers that must *)
(* not be read or be read alone.  custom_components/fsolar_modbus/         *)
(* inverter_profiles.py and common/register_types.py.                      *)
(***************************************************************************)
EXTENDS Integers, Sequences, FiniteSetsExt, TLC

-----------------------------------------------------------------------------
(* Inv: sets of tables' keys (the Flag's members are strings here).        *)
H1_G2_SET  == {"H1_G2_PRE144", "H1_G2_144"}
KH_SET     == {"KH_PRE119", "KH_PRE133", "KH_133"}
H3_SET     == {"H3_PRE180", "H3_180", "AIO_H3_PRE101", "AIO_H3_101", "KUARA_H3"}
H3_PRO_SET == {"H3_PRO_PRE122", "H3_PRO_122"}
H3_PRO_OR_SMART == H3_PRO_SET \union {"H3_SMART"}
ALL == UNION {{"H1_LAN", "H1_G1"}, H1_G2_SET, KH_SET, H3_SET, H3_PRO_OR_SMART,
              {"IVEM", "TREX", "GWETP"}}

(* The inclusive ranges a profile's registers are excluded from (invalid)  *)
(* or are read one at a time in (individual).                              *)
Special(invalid, individual) == [invalid |-> invalid, individual |-> individual]

NO_SPECIAL         == Special({}, {})
H1_AC1_REGISTERS   == Special({<<11096, 39999>>}, {})
H3_INVALID         == {<<41001, 41006>>, <<41012, 41013>>, <<41015, 41015>>}
H3_REGISTERS       == Special(H3_INVALID, {<<41000, 41999>>})
H3_PRO_REGISTERS   == Special(H3_INVALID \union {<<37633, 37699>>}, {<<41000, 41999>>})
H3_SMART_REGISTERS == Special(H3_INVALID, {<<37609, 37620>>, <<37632, 37636>>})
KH_REGISTERS       == Special({<<41001, 41006>>, <<41012, 41012>>, <<41019, 43999>>,
                               <<31055, 31999>>}, {<<41000, 41999>>})
H1_G2_REGISTERS    == Special({}, {<<41000, 41999>>})

-----------------------------------------------------------------------------
(* A version x.yy is the number 100x + yy; None ("the latest") sorts above *)
(* every version.                                                          *)
LATEST == 10000

Conn(type, versions, special) ==
  [type |-> type, versions |-> versions, special |-> special]

Only(inv) == LATEST :> inv
Split(version, before, after) == version :> before @@ LATEST :> after

AuxOnly(type, versions, special) == "AUX" :> Conn(type, versions, special)

H1_G2_PROFILE == AuxOnly("HOLDING", Split(144, "H1_G2_PRE144", "H1_G2_144"), H1_G2_REGISTERS)
AUX_H1        == AuxOnly("INPUT", Only("H1_G1"), H1_AC1_REGISTERS)
H1_PROFILE    == AUX_H1 @@ "LAN" :> Conn("HOLDING", Only("H1_LAN"), NO_SPECIAL)
H3_LIKE(versions) == AuxOnly("HOLDING", versions, H3_REGISTERS)

INVERTER_PROFILES ==
  [ H1_G2       |-> H1_G2_PROFILE,
    H1_G1       |-> H1_PROFILE,
    AC1_G2      |-> H1_G2_PROFILE,
    AC1         |-> H1_PROFILE,
    AIO_H1      |-> H1_PROFILE,
    AIO_AC1     |-> AUX_H1,
    KH          |-> AuxOnly("HOLDING", Split(133, "KH_PRE133", "KH_133"), KH_REGISTERS),
    H3_SMART    |-> AuxOnly("HOLDING", Only("H3_SMART"), H3_SMART_REGISTERS),
    H3          |-> H3_LIKE(Split(180, "H3_PRE180", "H3_180")),
    AC3         |-> H3_LIKE(Split(180, "H3_PRE180", "H3_180")),
    AIO_H3      |-> H3_LIKE(Split(101, "AIO_H3_PRE101", "AIO_H3_101")),
    KUARA_H3    |-> H3_LIKE(Only("KUARA_H3")),
    SK_HWR      |-> H3_LIKE(Only("H3_PRE180")),
    STAR_H3     |-> H3_LIKE(Only("H3_PRE180")),
    SOLAVITA_SP |-> H3_LIKE(Only("H3_PRE180")),
    ATRONIX_AX  |-> H3_LIKE(Only("H3_PRE180")),
    H3_PRO      |-> AuxOnly("HOLDING", Split(122, "H3_PRO_PRE122", "H3_PRO_122"),
                            H3_PRO_REGISTERS),
    ENPAL_IX    |-> AuxOnly("HOLDING", Only("H3_SMART"), H3_SMART_REGISTERS),
    ONE_KOMMA_FIVE |-> AuxOnly("HOLDING", Only("H3_SMART"), H3_SMART_REGISTERS),
    GWETP       |-> AuxOnly("HOLDING", Only("GWETP"), NO_SPECIAL),
    IVEM        |-> AuxOnly("HOLDING", Only("IVEM"), NO_SPECIAL),
    TREX        |-> AuxOnly("HOLDING", Only("TREX"), NO_SPECIAL) ]

MODELS == DOMAIN INVERTER_PROFILES

(* A connection type the model does not list is taken to behave as AUX.    *)
ProfileFromConfig(model, conn) ==
  LET connections == INVERTER_PROFILES[model]
  IN  connections[IF conn \in DOMAIN connections THEN conn ELSE "AUX"]

(* The newest listed version that is not above the configured one, and the *)
(* latest when none is.                                                    *)
GetInvForVersion(profile, version) ==
  LET reached == {v \in DOMAIN profile.versions : v <= version}
  IN  profile.versions[IF reached = {} THEN LATEST ELSE Max(reached)]

InRanges(ranges, address) == \E r \in ranges : address \in r[1]..r[2]

OverlapsInvalidRange(profile, address) == InRanges(profile.special.invalid, address)
IsIndividualRead(profile, address) == InRanges(profile.special.individual, address)

-----------------------------------------------------------------------------
(* The capacity in W that a detected model's size stands for; 0 is the     *)
(* exception of a size that the model does not have.  Sizes are in tenths  *)
(* of a kW, except for the families whose sizes are only names.            *)
SVC_CAPACITY  == 8 :> 10400 @@ 10 :> 13000 @@ 12 :> 15600
IVEM_CAPACITY == 3024 :> 3000 @@ 3048 :> 3000 @@ 4024 :> 4000 @@ 5048 :> 5000
                 @@ 6048 :> 6000 @@ 8048 :> 8000 @@ 12048 :> 12000
H1_SIZED      == {"H1_G1", "H1_G2", "AC1", "AC1_G2", "AIO_H1", "AIO_AC1"}

InverterCapacity(model, size) ==
  LET Listed(table) == IF size \in DOMAIN table THEN table[size] ELSE 0
  IN  CASE model = "IVEM" -> Listed(IVEM_CAPACITY)
        [] model \in {"SOLAVITA_SP", "GWETP"} -> Listed(SVC_CAPACITY)
        [] model \in H1_SIZED /\ size = 37 -> 3680
        [] model \in {"TREX", "ONE_KOMMA_FIVE"} -> size * 1000
        [] OTHER -> size * 100
=============================================================================
