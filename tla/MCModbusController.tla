-------------------------- MODULE MCModbusController --------------------------
(***************************************************************************)
(* Instances of ModbusController for TLC, with the reads grouped by        *)
(* _create_read_ranges as ReadRanges has it.                               *)
(***************************************************************************)
EXTENDS ModbusController, ReadRanges, TLC

\* The reads of a poll as the sets of addresses they return.
Plans ==
  [S \in SUBSET Address |->
     LET reads == CreateReadRanges(S)
     IN  [i \in DOMAIN reads |-> Span(reads[i].start, reads[i].count)]]
MCReadPlan(S) == Plans[S]

CONSTANTS e1, e2, r1, r2, w1, w2

\* Polling: two entities with one register in common.
PollAddress == 1 .. 3
PollEntities == {e1, e2}
PollEntityAddresses == [e \in PollEntities |-> IF e = e1 THEN {1, 3} ELSE {2, 3}]

\* Writing: two callers write a watched register, alone or with its neighbour.
WriteAddress == 1 .. 2
WriteEntityAddresses == [e \in {e1} |-> {1}]
WriteBlocks == {{1}, {1, 2}}
WriterSymmetry == Permutations(Writer)

\* Liveness: a register that is polled and written.
SettingAddress == {1}
SettingEntityAddresses == [e \in {e1} |-> {1}]
===============================================================================
