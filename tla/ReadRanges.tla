------------------------------ MODULE ReadRanges ------------------------------
(***************************************************************************)
(* How a poll groups the registers it wants into Modbus reads:             *)
(* ModbusController._create_read_ranges walks the wanted addresses in      *)
(* ascending order, grows the current read greedily and yields it when it  *)
(* cannot grow.  This module holds one iteration of that loop and the      *)
(* whole list; ReadRangesLoop runs the iterations as steps.                *)
(***************************************************************************)
EXTENDS Integers, Sequences, FiniteSetsExt

CONSTANTS
  MaxRead,     \* the most registers the adapter reads in one request
  Invalid,     \* addresses the profile lists as invalid for this inverter
  Individual   \* addresses the profile wants read one at a time

ASSUME ReadRangesAssumption ==
  /\ MaxRead \in Nat \ {0}
  /\ Invalid \subseteq Int
  /\ Individual \subseteq Int

Span(start, count) == start .. start + count - 1

Read(start, count) == [start |-> start, count |-> count]

ReadType == [start : Int, count : Nat \ {0}]

Covers(request, address) == address \in Span(request.start, request.count)

NoRead == [start |-> 0, size |-> 0]

(***************************************************************************)
(* The loop works on a pair of the open read and the reads yielded.        *)
(***************************************************************************)
ExclusiveOverlap(first, last) ==   \* mutant: forgets the last address
  \E x \in Invalid : first <= x /\ x < last

overlaps_invalid_range(first, last) ==
  \E x \in Invalid : first <= x /\ x <= last

is_individual_read(address) == address \in Individual

YieldsEmpty(acc) ==   \* mutant: yields without asking whether a read is open
  [open |-> NoRead, reads |-> Append(acc.reads, Read(acc.open.start, acc.open.size))]

Yield(acc) ==
  IF acc.open.size = 0 THEN acc
  ELSE [open  |-> NoRead,
        reads |-> Append(acc.reads, Read(acc.open.start, acc.open.size))]

ExtendsByOne(o, address) ==   \* mutant: never reads across a gap
  o.size > 0 /\ address = o.start + 1

\* The open read may grow up to address: address is right behind its first
\* register, or close enough with nothing invalid in between.
CanExtend(o, address) ==
  /\ o.size > 0
  /\ \/ address = o.start + 1
     \/ /\ address <= o.start + MaxRead - 1
        /\ ~overlaps_invalid_range(o.start, address - 1)

GrowDropsOpen(acc, address) ==   \* mutant: starts a read without yielding the last
  IF CanExtend(acc.open, address)
  THEN [acc EXCEPT !.open.size = address - acc.open.start + 1]
  ELSE [acc EXCEPT !.open = [start |-> address, size |-> 1]]

Grow(acc, address) ==
  IF is_individual_read(address)
  THEN [Yield(acc) EXCEPT !.reads = Append(@, Read(address, 1))]
  ELSE IF CanExtend(acc.open, address)
       THEN [acc EXCEPT !.open.size = address - acc.open.start + 1]
       ELSE [Yield(acc) EXCEPT !.open = [start |-> address, size |-> 1]]

\* One iteration of the loop, with the test for a full read that ends it.
Iterate(acc, address) ==
  LET grown == Grow(acc, address)
  IN  IF grown.open.size = MaxRead THEN Yield(grown) ELSE grown

\* The wanted addresses that the read which begins at the first of them takes
\* in: all before one that is read alone, out of reach or cut off.
FirstReadOf(wanted) ==
  LET start == Min(wanted)
      refused == {a \in wanted \ {start} :
                    \/ is_individual_read(start) \/ is_individual_read(a)
                    \/ a >= start + MaxRead
                    \/ ~CanExtend([start |-> start, size |-> 1], a)}
  IN  {a \in wanted : \A r \in refused : a < r}

DropsLastRead(wanted) ==   \* mutant: forgets the read still open at the end
  LET rest[left \in SUBSET wanted] ==
        IF left \ FirstReadOf(left) = {} THEN <<>>
        ELSE <<Read(Min(left), Max(FirstReadOf(left)) - Min(left) + 1)>>
             \o rest[left \ FirstReadOf(left)]
  IN  IF wanted = {} THEN <<>> ELSE rest[wanted]

\* The reads of a whole poll of the finite set wanted, one read at a time
\* (AgreesWithWholeList compares them with the loop's).
CreateReadRanges(wanted) ==
  LET rest[left \in SUBSET wanted] ==
        IF left = {} THEN <<>>
        ELSE <<Read(Min(left), Max(FirstReadOf(left)) - Min(left) + 1)>>
             \o rest[left \ FirstReadOf(left)]
  IN  rest[wanted]
===============================================================================
