---------------------------- MODULE MCEntitySetup ----------------------------
(***************************************************************************)
(* EntitySetup on every model, connection and version that the tables      *)
(* tell apart, with adapters of each size that the tables name.            *)
(***************************************************************************)
EXTENDS EntitySetup

MCMaxReads == {8, 20, 100}

MCConfigs ==
  UNION {[model : {model}, conn : {conn}, max_read : MCMaxReads,
          version : DOMAIN INVERTER_PROFILES[model][conn].versions] :
           <<model, conn>> \in UNION {{m} \X DOMAIN INVERTER_PROFILES[m] : m \in MODELS}}

\* What OffersFit says beyond what the run finds when everything has been set up:
\* the tables name addresses that Modbus has, and ranges that begin before they end.
ASSUME AddressesAreRegisters ==
  /\ \A m \in MODELS : \A conn \in DOMAIN INVERTER_PROFILES[m] :
       \A r \in INVERTER_PROFILES[m][conn].special.invalid :
         r[1] \in Register /\ r[2] \in Register /\ r[1] <= r[2]
  /\ \A desc \in ENTITIES : \A spec \in desc.specs \union desc.other :
       Range(spec.addresses) \subseteq Register
  /\ \A c \in REMOTE_CONTROL : ManagerEntity(c).addresses \subseteq Register
==============================================================================
