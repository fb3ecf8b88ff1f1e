--------------------------- MODULE MCRemoteControl ---------------------------
(***************************************************************************)
(* RemoteControl with the weathers that take each branch of _update_charge.*)
(***************************************************************************)
EXTENDS RemoteControl

Sky(pv, limit, full) == [pv |-> pv, limit |-> limit, full |-> full]

MCWeather ==
  {Sky(0, 900, FALSE), Sky(400, None, FALSE), Sky(400, 30, FALSE), Sky(400, 900, TRUE),
   Sky(400, 900, FALSE), Sky(2000, 900, FALSE)}
==============================================================================
