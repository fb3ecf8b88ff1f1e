---------------------------- MODULE ReadRangesLoop ----------------------------
(***************************************************************************)
(* The generator _create_read_ranges run one iteration at a time, so that  *)
(* what its loop promises about the reads is an invariant of a behaviour.  *)
(***************************************************************************)
EXTENDS ReadRanges, FiniteSets

CONSTANT Address   \* the register addresses that entities may watch

ASSUME AddressAssumption == Address \subseteq Int

VARIABLES
  wanted,      \* the addresses this poll has to read
  todo,        \* those the loop has not reached yet
  open,        \* the read being grown: [start, size], size 0 when there is none
  reads,       \* the reads yielded so far, in order
  finished     \* the generator is exhausted

vars == <<wanted, todo, open, reads, finished>>

\* Registering an entity asserts that none of its addresses is invalid.
Init ==
  /\ wanted \in SUBSET (Address \ Invalid)
  /\ todo = wanted
  /\ open = NoRead
  /\ reads = <<>>
  /\ finished = FALSE

\* address is the next of the sorted addresses.
IsNext(address) == \A other \in todo : address <= other

NextAddress ==
  \E address \in todo :
    LET acc == Iterate([open |-> open, reads |-> reads], address) IN
      /\ IsNext(address)
      /\ todo' = todo \ {address}
      /\ open' = acc.open
      /\ reads' = acc.reads
      /\ UNCHANGED <<wanted, finished>>

\* The loop is over: what is still open is the last read.
Finish ==
  LET acc == Yield([open |-> open, reads |-> reads]) IN
    /\ todo = {}
    /\ ~finished
    /\ finished' = TRUE
    /\ open' = acc.open
    /\ reads' = acc.reads
    /\ UNCHANGED <<wanted, todo>>

Next == NextAddress \/ Finish

Spec == Init /\ [][Next]_vars

-------------------------------------------------------------------------------

TypeOK ==
  /\ wanted \subseteq Address \ Invalid
  /\ todo \subseteq wanted
  /\ open \in [start : Int, size : Nat]
  /\ reads \in Seq(ReadType)
  /\ finished \in BOOLEAN

\* No request asks the adapter for more registers than it can return at once.
NoReadTooLong == \A i \in DOMAIN reads : reads[i].count <= MaxRead

\* No two requests of a poll read the same register, and they ascend.
ReadsAscend ==
  \A i, j \in DOMAIN reads :
    i < j => reads[i].start + reads[i].count <= reads[j].start

\* Every wanted register is read by the time the generator is exhausted.
AllWantedRead ==
  finished => \A a \in wanted : \E i \in DOMAIN reads : Covers(reads[i], a)

\* No request spans a register which the profile lists as invalid.  Two adjacent
\* registers are joined without that test ("we assume that registers we're
\* reading won't be inside invalid ranges"), so this rests on what the
\* registration of an entity asserts.
NoInvalidRead ==
  \A i \in DOMAIN reads : \A x \in Invalid : ~Covers(reads[i], x)

\* A wanted register that the profile wants read individually shares its
\* request with no other wanted register.
IndividualReadAlone ==
  \A i \in DOMAIN reads : \A a \in wanted \cap Individual :
    Covers(reads[i], a) => reads[i].count = 1

\* A request starts and ends at registers somebody wants: padding is only ever
\* read between two of them.
ReadsAreTight ==
  \A i \in DOMAIN reads :
    /\ reads[i].start \in wanted
    /\ reads[i].start + reads[i].count - 1 \in wanted

\* Every request is one the adapter and the profile allow, and asks for no more
\* than it must: the inverter refuses a request as a whole.
ReadsAreLegal ==
  /\ NoReadTooLong
  /\ ReadsAscend
  /\ NoInvalidRead
  /\ IndividualReadAlone
  /\ ReadsAreTight

(***************************************************************************)
(* What any way of grouping has to respect: a request is short enough,     *)
(* spans nothing invalid, and if it serves an individual register it       *)
(* serves no other.                                                        *)
(***************************************************************************)
IsLegal(request) ==
  LET span == Span(request.start, request.count)
  IN  /\ request.count <= MaxRead
      /\ span \cap Invalid = {}
      /\ \A a \in span \cap wanted \cap Individual : span \cap wanted = {a}

IsGrouping(requests) ==
  /\ IsFiniteSet(requests)
  /\ \A request \in requests : IsLegal(request)
  /\ \A a \in wanted : \E request \in requests : Covers(request, a)

\* The requests that may be worth making: from a wanted register to another.
UsefulRequests ==
  {request \in [start : wanted, count : 1 .. MaxRead] :
     request.start + request.count - 1 \in wanted /\ IsLegal(request)}

\* Growing each read as far as it goes needs as few requests as any grouping
\* does: "read operations are expensive", so this is what the loop is for.
NoGroupingNeedsFewer ==
  finished => \A requests \in SUBSET UsefulRequests :
    IsGrouping(requests) => Len(reads) <= Cardinality(requests)

\* Running the loop one iteration at a time and taking the whole list one read
\* at a time yield the same reads (_create_read_ranges).
AgreesWithWholeList == finished => reads = CreateReadRanges(wanted)
===============================================================================
