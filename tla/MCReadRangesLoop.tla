--------------------------- MODULE MCReadRangesLoop ---------------------------
(***************************************************************************)
(* ReadRangesLoop on a small register map.                                 *)
(***************************************************************************)
EXTENDS ReadRangesLoop

MCAddress == 1 .. 9
MCInvalid == {4}
MCIndividual == {7, 8}
===============================================================================
