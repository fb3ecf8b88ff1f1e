--------------------------- MODULE MCChargePeriods ---------------------------
(***************************************************************************)
(* ChargePeriods with a window that starts at midnight, one that does not, *)
(* none, and registers that hold no time.                                  *)
(***************************************************************************)
EXTENDS ChargePeriods, TLC

Asks(f, g, from, to) ==
  [enable_force_charge |-> f, enable_charge_from_grid |-> g,
   start |-> [hour |-> from, minute |-> 0], end |-> [hour |-> to, minute |-> 30]]

MCRequests == {Asks(FALSE, FALSE, 0, 0), Asks(TRUE, FALSE, 2, 23)}

MCPanelValues ==
  {[start |-> 0, end |-> 0, grid |-> 0], [start |-> 0, end |-> 5 * 256 + 59, grid |-> 2],
   [start |-> 60, end |-> 24 * 256, grid |-> 0]}

CallersAlike == Permutations(Caller)
==============================================================================
