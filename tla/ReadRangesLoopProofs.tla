------------------------- MODULE ReadRangesLoopProofs -------------------------
(***************************************************************************)
(* What the loop of _create_read_ranges promises, for every register map,  *)
(* every adapter limit and every set of wanted addresses.                  *)
(***************************************************************************)
EXTENDS ReadRangesLoop, ReadRangesProofs

-------------------------------------------------------------------------------
(***************************************************************************)
(* The inductive invariant, over the pair acc of the open read and the     *)
(* reads yielded, while the addresses in T of the wanted ones in W are     *)
(* still to come.                                                          *)
(***************************************************************************)

Acc == [open : [start : Int, size : Nat], reads : Seq(ReadType)]

IsOpen(acc) == acc.open.size > 0

\* A request for count registers that is worth sending.
GoodRead(W, T, start, count) ==
  /\ count <= MaxRead
  /\ start \in W \ T
  /\ start + count - 1 \in W \ T
  /\ \A a \in Span(start, count) : a \notin Invalid
  /\ \A a \in Span(start, count) \cap W \cap Individual : count = 1

\* The open read holds no individual register at all.
GoodOpen(W, T, o) ==
  /\ GoodRead(W, T, o.start, o.size)
  /\ \A a \in Span(o.start, o.size) \cap W : a \notin Individual

Ascend(rs) ==
  \A i, j \in DOMAIN rs : i < j => rs[i].start + rs[i].count <= rs[j].start

GoodReads(W, T, rs) ==
  /\ rs \in Seq(ReadType)
  /\ \A i \in DOMAIN rs : GoodRead(W, T, rs[i].start, rs[i].count)
  /\ Ascend(rs)

Before(rs, start) == \A i \in DOMAIN rs : rs[i].start + rs[i].count <= start

Reads(acc, a) ==
  \/ IsOpen(acc) /\ a \in Span(acc.open.start, acc.open.size)
  \/ \E i \in DOMAIN acc.reads : Covers(acc.reads[i], a)

Good(W, T, acc) ==
  /\ acc \in Acc
  /\ GoodReads(W, T, acc.reads)
  /\ IsOpen(acc) => GoodOpen(W, T, acc.open) /\ Before(acc.reads, acc.open.start)
  /\ \A a \in W \ T : Reads(acc, a)

\* Whatever the loop has reached lies before all that is still to come.
Past(W, T) == \A a \in W \ T : \A t \in T : a < t

pair == [open |-> open, reads |-> reads]

IInv ==
  /\ TypeOK
  /\ Good(wanted, todo, pair)
  /\ Past(wanted, todo)
  /\ open.size < MaxRead
  /\ finished => todo = {} /\ open.size = 0

-------------------------------------------------------------------------------

LEMMA ReadsTyped ==
  ASSUME NEW W, NEW T, NEW rs, GoodReads(W, T, rs), NEW i \in DOMAIN rs
  PROVE  rs[i].start \in Int /\ rs[i].count \in Nat \ {0}
<1>1. rs \in Seq(ReadType)
  BY DEF GoodReads
<1>2. rs[i] \in ReadType
  BY <1>1
<1> QED
  BY <1>2 DEF ReadType

\* A good read behind all others may be appended.
LEMMA AppendGood ==
  ASSUME NEW W, NEW T, NEW rs, GoodReads(W, T, rs),
         NEW start \in Int, NEW count \in Nat \ {0},
         Before(rs, start), GoodRead(W, T, start, count)
  PROVE  /\ GoodReads(W, T, Append(rs, Read(start, count)))
         /\ \A a : (\E i \in DOMAIN rs : Covers(rs[i], a)) \/ a \in Span(start, count)
              => \E i \in DOMAIN Append(rs, Read(start, count)) :
                   Covers(Append(rs, Read(start, count))[i], a)
<1> DEFINE new == Append(rs, Read(start, count))
<1>1. Read(start, count) \in ReadType
  BY DEF Read, ReadType
<1>2. /\ new \in Seq(ReadType)
      /\ DOMAIN new = 1 .. Len(rs) + 1
      /\ DOMAIN rs = 1 .. Len(rs)
      /\ Len(rs) \in Nat
      /\ \A i \in 1 .. Len(rs) : new[i] = rs[i]
      /\ new[Len(rs) + 1] = Read(start, count)
  BY <1>1 DEF GoodReads
<1> HIDE DEF new
<1>3. \A i \in DOMAIN new : i = Len(rs) + 1 \/ i \in DOMAIN rs
  BY <1>2
<1>4. Read(start, count).start = start /\ Read(start, count).count = count
  BY DEF Read
<1>5. \A i \in DOMAIN new : GoodRead(W, T, new[i].start, new[i].count)
  BY <1>2, <1>3, <1>4 DEF GoodReads
<1>6. Ascend(new)
  <2> SUFFICES ASSUME NEW i \in DOMAIN new, NEW j \in DOMAIN new, i < j
               PROVE  new[i].start + new[i].count <= new[j].start
    BY DEF Ascend
  <2>1. i \in DOMAIN rs
    BY <1>2
  <2>2. CASE j \in DOMAIN rs
    BY <1>2, <2>1, <2>2 DEF Ascend, GoodReads
  <2>3. CASE j = Len(rs) + 1
    BY <1>2, <1>4, <2>1, <2>3 DEF Before
  <2> QED
    BY <1>3, <2>2, <2>3
<1>7. ASSUME NEW a, (\E i \in DOMAIN rs : Covers(rs[i], a)) \/ a \in Span(start, count)
      PROVE  \E i \in DOMAIN new : Covers(new[i], a)
  <2>1. CASE \E i \in DOMAIN rs : Covers(rs[i], a)
    BY <1>2, <2>1
  <2>2. CASE a \in Span(start, count)
    BY <1>2, <1>4, <2>2 DEF Covers
  <2> QED
    BY <1>7, <2>1, <2>2
<1>8. GoodReads(W, T, new)
  BY <1>2, <1>5, <1>6 DEF GoodReads
<1> QED
  BY <1>7, <1>8 DEF new

\* Yielding the open read keeps all of this, and leaves none open.
LEMMA YieldGood ==
  ASSUME NEW W, NEW T, NEW acc, Good(W, T, acc)
  PROVE  Good(W, T, Yield(acc)) /\ Yield(acc).open.size = 0
<1>1. CASE acc.open.size = 0
  BY <1>1 DEF Yield
<1>2. CASE acc.open.size # 0
  <2> DEFINE start == acc.open.start
             count == acc.open.size
             new == Append(acc.reads, Read(start, count))
  <2>1. start \in Int /\ count \in Nat \ {0} /\ IsOpen(acc)
    BY <1>2 DEF Good, Acc, IsOpen
  <2>2. /\ GoodReads(W, T, acc.reads)
        /\ GoodRead(W, T, start, count)
        /\ Before(acc.reads, start)
    BY <2>1 DEF Good, GoodOpen
  <2>3. /\ GoodReads(W, T, new)
        /\ \A a : (\E i \in DOMAIN acc.reads : Covers(acc.reads[i], a))
                  \/ a \in Span(start, count)
              => \E i \in DOMAIN new : Covers(new[i], a)
    BY <2>1, <2>2, AppendGood
  <2>4. Yield(acc) = [open |-> NoRead, reads |-> new]
    BY <1>2 DEF Yield
  <2> HIDE DEF new
  <2>5. /\ Yield(acc) \in Acc
        /\ Yield(acc).reads = new
        /\ Yield(acc).open.size = 0
        /\ ~IsOpen(Yield(acc))
    BY <2>3, <2>4 DEF Acc, NoRead, IsOpen, GoodReads
  <2>6. ASSUME NEW a \in W \ T
        PROVE  Reads(Yield(acc), a)
    BY <2>3, <2>5 DEF Reads, Good
  <2> QED
    BY <2>3, <2>5, <2>6 DEF Good
<1> QED
  BY <1>1, <1>2

-------------------------------------------------------------------------------
(***************************************************************************)
(* One iteration, when address is the least of the addresses still to come.*)
(***************************************************************************)

LeastToCome(W, T, address) ==
  /\ W \subseteq Int \ Invalid
  /\ T \subseteq W
  /\ Past(W, T)
  /\ address \in T
  /\ \A t \in T : address <= t

\* What was good before address is reached is good afterwards, and lies behind it.
LEMMA StillGood ==
  ASSUME NEW W, NEW T, NEW address, LeastToCome(W, T, address),
         NEW acc, Good(W, T, acc)
  PROVE  /\ GoodReads(W, T \ {address}, acc.reads)
         /\ Before(acc.reads, address)
<1>1. ASSUME NEW start, NEW count, GoodRead(W, T, start, count)
      PROVE  GoodRead(W, T \ {address}, start, count)
  BY <1>1 DEF GoodRead
<1>2. GoodReads(W, T \ {address}, acc.reads)
  BY <1>1 DEF Good, GoodReads
<1>3. ASSUME NEW i \in DOMAIN acc.reads
      PROVE  acc.reads[i].start + acc.reads[i].count <= address
  <2>1. acc.reads[i].start \in Int /\ acc.reads[i].count \in Nat
    BY ReadsTyped DEF Good
  <2>2. acc.reads[i].start + acc.reads[i].count - 1 \in W \ T
    BY DEF Good, GoodReads, GoodRead
  <2> QED
    BY <2>1, <2>2 DEF LeastToCome, Past
<1> QED
  BY <1>2, <1>3 DEF Before

LEMMA GrowGood ==
  ASSUME NEW W, NEW T, NEW address, LeastToCome(W, T, address),
         NEW acc, Good(W, T, acc), acc.open.size < MaxRead
  PROVE  Good(W, T \ {address}, Grow(acc, address))
<1> DEFINE rest == T \ {address}
           done == Yield(acc)
           grown == Grow(acc, address)
<1> USE ReadRangesAssumption
<1>1. /\ address \in Int \ Invalid
      /\ address \in W \ rest
      /\ W \ rest = (W \ T) \cup {address}
  BY DEF LeastToCome
<1>2. Good(W, T, done) /\ done.open.size = 0 /\ ~IsOpen(done)
  BY YieldGood DEF IsOpen
<1>3. GoodReads(W, rest, done.reads) /\ Before(done.reads, address)
  BY <1>2, StillGood
<1>4. /\ GoodRead(W, rest, address, 1)
      /\ \A a \in Span(address, 1) : a = address
      /\ address \in Span(address, 1)
  BY <1>1 DEF GoodRead, Span
<1>5. \A a \in W \ T : \E i \in DOMAIN done.reads : Covers(done.reads[i], a)
  BY <1>2 DEF Good, Reads
<1>6. CASE is_individual_read(address)
  <2> DEFINE new == Append(done.reads, Read(address, 1))
  <2>1. grown = [done EXCEPT !.reads = new]
    BY <1>6 DEF Grow
  <2>2. /\ GoodReads(W, rest, new)
        /\ \A a : (\E i \in DOMAIN done.reads : Covers(done.reads[i], a))
                  \/ a \in Span(address, 1)
              => \E i \in DOMAIN new : Covers(new[i], a)
    BY <1>1, <1>3, <1>4, AppendGood
  <2> HIDE DEF new
  <2>3. /\ grown \in Acc
        /\ grown.reads = new
        /\ ~IsOpen(grown)
    BY <1>2, <2>1, <2>2 DEF Good, Acc, GoodReads, IsOpen
  <2>4. ASSUME NEW a \in W \ rest
        PROVE  Reads(grown, a)
    BY <1>1, <1>4, <1>5, <2>2, <2>3 DEF Reads
  <2> QED
    BY <2>2, <2>3, <2>4 DEF Good
<1>7. CASE ~is_individual_read(address) /\ CanExtend(acc.open, address)
  <2> DEFINE start == acc.open.start
             size == address - start + 1
  <2>1. /\ start \in Int /\ acc.open.size \in Nat \ {0} /\ IsOpen(acc)
        /\ GoodOpen(W, T, acc.open)
        /\ Before(acc.reads, start)
    BY <1>7 DEF Good, Acc, IsOpen, CanExtend
  <2>2. start \in W \ T /\ start < address /\ start + acc.open.size - 1 < address
    BY <2>1 DEF GoodOpen, GoodRead, LeastToCome, Past
  <2>3. size \in Nat \ {0} /\ size <= MaxRead
    BY <1>1, <1>7, <2>1, <2>2 DEF CanExtend
  <2>4. Span(start, size) = start .. address
    BY <1>1, <2>1 DEF Span
  <2>5. grown = [acc EXCEPT !.open.size = size]
    BY <1>7 DEF Grow
  <2> HIDE DEF size
  <2>6. /\ grown \in Acc
        /\ grown.reads = acc.reads
        /\ grown.open.start = start /\ grown.open.size = size
        /\ IsOpen(grown)
    BY <2>3, <2>5 DEF Good, Acc, IsOpen
  <2>7. \A a \in Span(start, size) : a \notin Invalid
    <3>1. CASE address = start + 1
      BY <1>1, <2>1, <2>2, <2>4, <3>1 DEF LeastToCome
    <3>2. CASE ~overlaps_invalid_range(start, address - 1)
      BY <1>1, <2>1, <2>4, <3>2 DEF overlaps_invalid_range
    <3> QED
      BY <1>7, <3>1, <3>2 DEF CanExtend
  <2>8. ASSUME NEW a \in Span(start, size) \cap W
        PROVE  a \notin Individual
    <3>1. a \in Int /\ start <= a /\ a <= address
      BY <1>1, <2>1, <2>4
    <3>2. CASE a = address
      BY <1>7, <3>2 DEF is_individual_read
    <3>3. CASE a < address
      <4>1. a \in W \ T
        BY <1>1, <3>1, <3>3 DEF LeastToCome
      <4>2. ASSUME NEW i \in DOMAIN acc.reads
            PROVE  ~Covers(acc.reads[i], a)
        <5>1. acc.reads[i].start \in Int /\ acc.reads[i].count \in Nat
          BY ReadsTyped DEF Good
        <5> QED
          BY <2>1, <3>1, <5>1 DEF Before, Covers, Span
      <4>3. a \in Span(start, acc.open.size)
        BY <4>1, <4>2 DEF Good, Reads
      <4> QED
        BY <2>1, <4>3 DEF GoodOpen
    <3> QED
      BY <1>1, <3>1, <3>2, <3>3
  <2>9. GoodOpen(W, rest, grown.open)
    <3>1. start + size - 1 = address
      BY <1>1, <2>1 DEF size
    <3>2. start \in W \ rest
      BY <2>2
    <3> QED
      BY <1>1, <2>3, <2>6, <2>7, <2>8, <3>1, <3>2 DEF GoodOpen, GoodRead
  <2>10. ASSUME NEW a \in W \ rest
         PROVE  Reads(grown, a)
    <3>1. CASE a = address
      BY <1>1, <2>1, <2>2, <2>4, <2>6, <3>1 DEF Reads
    <3>2. CASE a \in W \ T
      <4>1. Reads(acc, a)
        BY <3>2 DEF Good
      <4>2. CASE a \in Span(start, acc.open.size)
        <5>1. a \in Int /\ start <= a /\ a <= start + acc.open.size - 1
          BY <2>1, <4>2 DEF Span
        <5>2. a \in Span(start, size)
          BY <1>1, <2>1, <2>2, <2>4, <5>1
        <5> QED
          BY <2>6, <5>2 DEF Reads
      <4>3. CASE \E i \in DOMAIN acc.reads : Covers(acc.reads[i], a)
        BY <2>6, <4>3 DEF Reads
      <4> QED
        BY <4>1, <4>2, <4>3 DEF Reads
    <3> QED
      BY <1>1, <3>1, <3>2
  <2>11. GoodReads(W, rest, acc.reads)
    BY StillGood
  <2> QED
    BY <2>1, <2>6, <2>9, <2>10, <2>11 DEF Good
<1>8. CASE ~is_individual_read(address) /\ ~CanExtend(acc.open, address)
  <2>1. grown = [done EXCEPT !.open = [start |-> address, size |-> 1]]
    BY <1>8 DEF Grow
  <2>2. /\ grown \in Acc
        /\ grown.reads = done.reads
        /\ grown.open.start = address /\ grown.open.size = 1
        /\ IsOpen(grown)
    BY <1>1, <1>2, <2>1 DEF Good, Acc, IsOpen
  <2>3. GoodOpen(W, rest, grown.open)
    BY <1>4, <1>8, <2>2 DEF GoodOpen, is_individual_read
  <2>4. ASSUME NEW a \in W \ rest
        PROVE  Reads(grown, a)
    BY <1>1, <1>4, <1>5, <2>2 DEF Reads
  <2> QED
    BY <1>3, <2>2, <2>3, <2>4 DEF Good
<1> QED
  BY <1>6, <1>7, <1>8

LEMMA IterateGood ==
  ASSUME NEW W, NEW T, NEW address, LeastToCome(W, T, address),
         NEW acc, Good(W, T, acc), acc.open.size < MaxRead
  PROVE  /\ Good(W, T \ {address}, Iterate(acc, address))
         /\ Iterate(acc, address).open.size < MaxRead
<1> DEFINE grown == Grow(acc, address)
<1>1. Good(W, T \ {address}, grown)
  BY GrowGood
<1>2. grown.open.size <= MaxRead
  BY <1>1, ReadRangesAssumption DEF Good, Acc, IsOpen, GoodOpen, GoodRead
<1>3. /\ Good(W, T \ {address}, Yield(grown))
      /\ Yield(grown).open.size = 0
  BY <1>1, YieldGood
<1>4. grown.open.size \in Nat
  BY <1>1 DEF Good, Acc
<1> HIDE DEF grown
<1> QED
  BY <1>1, <1>2, <1>3, <1>4, ReadRangesAssumption DEF Iterate, grown

-------------------------------------------------------------------------------

LEMMA InitIInv == Init => IInv
<1> SUFFICES ASSUME Init PROVE IInv
  OBVIOUS
<1>1. wanted \subseteq Address \ Invalid /\ todo = wanted
  BY DEF Init
<1>2. open = [start |-> 0, size |-> 0] /\ reads = <<>> /\ finished = FALSE
  BY DEF Init, NoRead
<1>3. TypeOK
  <2>1. open \in [start : Int, size : Nat] /\ reads \in Seq(ReadType)
    BY <1>2
  <2> QED
    BY <1>1, <1>2, <2>1 DEF TypeOK
<1>4. Good(wanted, todo, pair)
  <2>1. /\ pair \in Acc /\ ~IsOpen(pair)
        /\ pair.reads \in Seq(ReadType) /\ DOMAIN pair.reads = {}
    BY <1>2 DEF pair, Acc, IsOpen
  <2>2. GoodReads(wanted, todo, pair.reads)
    BY <2>1 DEF GoodReads, Ascend
  <2> QED
    BY <1>1, <2>1, <2>2 DEF Good
<1> QED
  BY <1>1, <1>2, <1>3, <1>4, ReadRangesAssumption DEF IInv, Past, pair

LEMMA NextIInv == IInv /\ [Next]_vars => IInv'
<1> SUFFICES ASSUME IInv, [Next]_vars PROVE IInv'
  OBVIOUS
<1>1. /\ wanted \subseteq Int \ Invalid /\ todo \subseteq wanted
      /\ Good(wanted, todo, pair) /\ pair.open = open /\ open.size < MaxRead
      /\ Past(wanted, todo)
  BY AddressAssumption DEF IInv, TypeOK, pair
<1>2. CASE NextAddress
  <2> PICK address \in todo :
        /\ IsNext(address)
        /\ todo' = todo \ {address}
        /\ open' = Iterate(pair, address).open
        /\ reads' = Iterate(pair, address).reads
        /\ UNCHANGED <<wanted, finished>>
    BY <1>2 DEF NextAddress, pair
  <2>1. LeastToCome(wanted, todo, address)
    BY <1>1 DEF LeastToCome, IsNext
  <2>2. /\ Good(wanted, todo \ {address}, Iterate(pair, address))
        /\ Iterate(pair, address).open.size < MaxRead
    BY <1>1, <2>1, IterateGood
  <2>3. Iterate(pair, address) = [open |-> open', reads |-> reads']
    BY <2>2 DEF Good, Acc
  <2>4. Good(wanted, todo, pair)' /\ (open.size < MaxRead)'
    BY <2>2, <2>3 DEF pair
  <2>5. Past(wanted, todo)'
    BY <1>1, <2>1 DEF Past, LeastToCome
  <2>6. TypeOK'
    BY <2>2, <2>3 DEF IInv, TypeOK, Good, Acc
  <2>7. ~finished'
    BY DEF IInv
  <2> QED
    BY <2>4, <2>5, <2>6, <2>7 DEF IInv, pair
<1>3. CASE Finish
  <2>1. /\ todo = {} /\ todo' = todo /\ wanted' = wanted /\ finished'
        /\ open' = Yield(pair).open
        /\ reads' = Yield(pair).reads
    BY <1>3 DEF Finish, pair
  <2>2. Good(wanted, todo, Yield(pair)) /\ Yield(pair).open.size = 0
    BY <1>1, YieldGood
  <2>3. Yield(pair) = [open |-> open', reads |-> reads']
    BY <2>1, <2>2 DEF Good, Acc
  <2>4. Good(wanted, todo, pair)' /\ (open.size < MaxRead)'
    BY <2>1, <2>2, <2>3, ReadRangesAssumption DEF pair
  <2>5. TypeOK'
    BY <1>3, <2>1, <2>2, <2>3 DEF Finish, IInv, TypeOK, Good, Acc
  <2> QED
    BY <1>1, <2>1, <2>2, <2>4, <2>5 DEF IInv, pair
<1>4. CASE UNCHANGED vars
  BY <1>4 DEF vars, IInv, TypeOK, Good, pair, Acc, Past
<1> QED
  BY <1>2, <1>3, <1>4 DEF Next

LEMMA AlwaysIInv == Spec => []IInv
  BY InitIInv, NextIInv, PTL DEF Spec

\* The state of the generator keeps its type, so every read it yields asks for
\* at least one register.
THEOREM Typed == Spec => []TypeOK
<1>1. IInv => TypeOK
  BY DEF IInv
<1> QED
  BY <1>1, AlwaysIInv, PTL

\* No read is longer than the adapter's limit (max_read).
THEOREM ReadsAreShort == Spec => []NoReadTooLong
<1>1. IInv => NoReadTooLong
  BY DEF IInv, Good, GoodReads, GoodRead, NoReadTooLong, pair
<1> QED
  BY <1>1, AlwaysIInv, PTL

\* The reads ascend and share no register.
THEOREM ReadsAreDisjoint == Spec => []ReadsAscend
<1>1. IInv => ReadsAscend
  BY DEF IInv, Good, GoodReads, Ascend, ReadsAscend, pair
<1> QED
  BY <1>1, AlwaysIInv, PTL

\* Once the generator is exhausted its reads cover every wanted register.
THEOREM ReadsAreComplete == Spec => []AllWantedRead
<1>1. IInv => AllWantedRead
  BY DEF IInv, Good, Reads, IsOpen, AllWantedRead, pair
<1> QED
  BY <1>1, AlwaysIInv, PTL

\* No read spans a register that the profile lists as invalid, although reads of
\* two adjacent registers are joined without a test.
THEOREM ReadsAreValid == Spec => []NoInvalidRead
<1>1. ASSUME IInv, NEW i \in DOMAIN reads, NEW x \in Invalid
      PROVE  ~Covers(reads[i], x)
  <2>1. GoodRead(wanted, todo, reads[i].start, reads[i].count)
    BY <1>1 DEF IInv, Good, GoodReads, pair
  <2> QED
    BY <2>1 DEF GoodRead, Covers
<1>2. IInv => NoInvalidRead
  BY <1>1 DEF NoInvalidRead
<1> QED
  BY <1>2, AlwaysIInv, PTL

\* A register that the profile wants read by itself is read by itself.
THEOREM IndividualReadsAreAlone == Spec => []IndividualReadAlone
<1>1. ASSUME IInv, NEW i \in DOMAIN reads, NEW a \in wanted \cap Individual,
             Covers(reads[i], a)
      PROVE  reads[i].count = 1
  <2>1. GoodRead(wanted, todo, reads[i].start, reads[i].count)
    BY <1>1 DEF IInv, Good, GoodReads, pair
  <2> QED
    BY <1>1, <2>1 DEF GoodRead, Covers
<1>2. IInv => IndividualReadAlone
  BY <1>1 DEF IndividualReadAlone
<1> QED
  BY <1>2, AlwaysIInv, PTL

\* A read never extends past the registers somebody wants.
THEOREM ReadsEndAtWanted == Spec => []ReadsAreTight
<1>1. IInv => ReadsAreTight
  BY DEF IInv, Good, GoodReads, GoodRead, ReadsAreTight, pair
<1> QED
  BY <1>1, AlwaysIInv, PTL

\* For every register map, every request of a poll is within the adapter's limit
\* and the profile's special registers, and no longer than the registers wanted
\* make it (_create_read_ranges).
THEOREM ReadsLegal == Spec => []ReadsAreLegal
<1>1. (/\ NoReadTooLong /\ ReadsAscend /\ NoInvalidRead
       /\ IndividualReadAlone /\ ReadsAreTight)
        => ReadsAreLegal
  BY DEF ReadsAreLegal
<1> QED
  BY <1>1, ReadsAreShort, ReadsAreDisjoint, ReadsAreValid, IndividualReadsAreAlone,
     ReadsEndAtWanted, PTL

-------------------------------------------------------------------------------
(***************************************************************************)
(* No grouping needs fewer reads.  The reason is that no two of the reads  *)
(* could have been one: something lies between the registers they start    *)
(* at, whatever is read with them.                                         *)
(***************************************************************************)

\* No request may serve both of the wanted registers a and b.
Apart(W, a, b) ==
  \/ b - a >= MaxRead
  \/ \E x \in Invalid : a <= x /\ x <= b
  \/ \E c \in W \cap Individual : a <= c /\ c <= b

\* What starts at a is apart from all that is still to come.
ApartFrom(W, T, a) == \A t \in T : Apart(W, a, t)

Separated(W, T, acc) ==
  \A i \in DOMAIN acc.reads :
    /\ \A j \in DOMAIN acc.reads : i < j => Apart(W, acc.reads[i].start, acc.reads[j].start)
    /\ IsOpen(acc) => Apart(W, acc.reads[i].start, acc.open.start)
    /\ ApartFrom(W, T, acc.reads[i].start)

LEMMA ApartBeyond ==
  ASSUME NEW W \in SUBSET Int, NEW a \in Int, NEW b \in Int, NEW c \in Int,
         b <= c, Apart(W, a, b)
  PROVE  Apart(W, a, c)
<1> USE ReadRangesAssumption
<1>1. CASE b - a >= MaxRead
  BY <1>1 DEF Apart
<1>2. CASE \E x \in Invalid : a <= x /\ x <= b
  BY <1>2 DEF Apart
<1>3. CASE \E x \in W \cap Individual : a <= x /\ x <= b
  BY <1>3 DEF Apart
<1> QED
  BY <1>1, <1>2, <1>3 DEF Apart

\* Appending a read that all others are apart from keeps them separated.
LEMMA AppendSeparated ==
  ASSUME NEW W, NEW T, NEW rs \in Seq(ReadType), NEW start \in Int, NEW count \in Nat \ {0},
         \A i, j \in DOMAIN rs : i < j => Apart(W, rs[i].start, rs[j].start),
         \A i \in DOMAIN rs : Apart(W, rs[i].start, start) /\ ApartFrom(W, T, rs[i].start),
         ApartFrom(W, T, start)
  PROVE  LET new == Append(rs, Read(start, count)) IN
         /\ new \in Seq(ReadType)
         /\ \A i, j \in DOMAIN new : i < j => Apart(W, new[i].start, new[j].start)
         /\ \A i \in DOMAIN new : ApartFrom(W, T, new[i].start)
<1> DEFINE new == Append(rs, Read(start, count))
<1>1. Read(start, count) \in ReadType /\ Read(start, count).start = start
  BY DEF Read, ReadType
<1>2. /\ new \in Seq(ReadType)
      /\ DOMAIN rs = 1 .. Len(rs) /\ Len(rs) \in Nat
      /\ DOMAIN new = 1 .. Len(rs) + 1
      /\ \A i \in 1 .. Len(rs) : new[i] = rs[i]
      /\ new[Len(rs) + 1].start = start
  BY <1>1
<1> HIDE DEF new
<1>3. ASSUME NEW i \in DOMAIN new, NEW j \in DOMAIN new, i < j
      PROVE  Apart(W, new[i].start, new[j].start)
  <2>1. i \in DOMAIN rs /\ new[i] = rs[i]
    BY <1>2, <1>3
  <2>2. CASE j \in DOMAIN rs
    BY <1>2, <1>3, <2>1, <2>2
  <2>3. CASE j = Len(rs) + 1
    BY <1>2, <2>1, <2>3
  <2> QED
    BY <1>2, <2>2, <2>3
<1>4. ASSUME NEW i \in DOMAIN new
      PROVE  ApartFrom(W, T, new[i].start)
  BY <1>2
<1> QED
  BY <1>2, <1>3, <1>4 DEF new

LEMMA YieldSeparated ==
  ASSUME NEW W, NEW T, NEW acc \in Acc, Separated(W, T, acc),
         IsOpen(acc) => ApartFrom(W, T, acc.open.start)
  PROVE  /\ Yield(acc) \in Acc /\ Separated(W, T, Yield(acc))
         /\ ~IsOpen(Yield(acc))
<1>1. CASE acc.open.size = 0
  BY <1>1 DEF Yield, IsOpen
<1>2. CASE acc.open.size # 0
  <2> DEFINE new == Append(acc.reads, Read(acc.open.start, acc.open.size))
  <2>1. /\ acc.reads \in Seq(ReadType) /\ IsOpen(acc)
        /\ acc.open.start \in Int /\ acc.open.size \in Nat \ {0}
    BY <1>2 DEF Acc, IsOpen
  <2>2. /\ new \in Seq(ReadType)
        /\ \A i, j \in DOMAIN new : i < j => Apart(W, new[i].start, new[j].start)
        /\ \A i \in DOMAIN new : ApartFrom(W, T, new[i].start)
    BY <2>1, AppendSeparated DEF Separated
  <2>3. Yield(acc) = [open |-> NoRead, reads |-> new]
    BY <1>2 DEF Yield
  <2> HIDE DEF new
  <2>4. /\ Yield(acc) \in Acc
        /\ Yield(acc).reads = new /\ ~IsOpen(Yield(acc))
    BY <2>2, <2>3 DEF Acc, NoRead, IsOpen
  <2> QED
    BY <2>2, <2>4 DEF Separated
<1> QED
  BY <1>1, <1>2

\* A read is only closed when nothing to come could be part of it.
LEMMA GrowSeparated ==
  ASSUME NEW W, NEW T, NEW address, LeastToCome(W, T, address),
         NEW acc, Good(W, T, acc), Separated(W, T, acc)
  PROVE  Separated(W, T \ {address}, Grow(acc, address))
<1> DEFINE rest == T \ {address}
           done == Yield(acc)
           grown == Grow(acc, address)
<1>1. /\ acc \in Acc /\ W \in SUBSET Int /\ T \subseteq Int /\ address \in T
      /\ \A t \in T : address <= t
  BY DEF Good, LeastToCome
<1>2. ASSUME is_individual_read(address) \/ ~CanExtend(acc.open, address), IsOpen(acc)
      PROVE  ApartFrom(W, T, acc.open.start)
  <2> DEFINE start == acc.open.start
  <2>1. start \in Int /\ start <= address /\ acc.open.size > 0
    BY <1>1, <1>2 DEF Good, GoodOpen, GoodRead, LeastToCome, Past, Acc, IsOpen
  <2>2. Apart(W, start, address)
    <3>1. CASE is_individual_read(address)
      BY <1>1, <2>1, <3>1 DEF Apart, is_individual_read, LeastToCome
    <3>2. CASE ~(address <= start + MaxRead - 1)
      BY <1>1, <2>1, <3>2, ReadRangesAssumption DEF Apart
    <3>3. CASE overlaps_invalid_range(start, address - 1)
      BY <1>1, <2>1, <3>3, ReadRangesAssumption DEF Apart, overlaps_invalid_range
    <3> QED
      BY <1>2, <2>1, <3>1, <3>2, <3>3 DEF CanExtend
  <2> QED
    BY <1>1, <2>1, <2>2, ApartBeyond DEF ApartFrom
<1>3. CASE is_individual_read(address)
  <2> DEFINE new == Append(done.reads, Read(address, 1))
  <2>1. done \in Acc /\ Separated(W, T, done) /\ ~IsOpen(done)
    BY <1>1, <1>2, <1>3, YieldSeparated
  <2>2. ApartFrom(W, rest, address)
    BY <1>1, <1>3 DEF ApartFrom, Apart, is_individual_read, LeastToCome
  <2>3. done.reads \in Seq(ReadType) /\ address \in Int
    BY <1>1, <2>1 DEF Acc
  <2>4. /\ \A i, j \in DOMAIN done.reads :
             i < j => Apart(W, done.reads[i].start, done.reads[j].start)
        /\ \A i \in DOMAIN done.reads :
             Apart(W, done.reads[i].start, address) /\ ApartFrom(W, rest, done.reads[i].start)
    BY <1>1, <2>1 DEF Separated, ApartFrom
  <2>5. /\ new \in Seq(ReadType)
        /\ \A i, j \in DOMAIN new : i < j => Apart(W, new[i].start, new[j].start)
        /\ \A i \in DOMAIN new : ApartFrom(W, rest, new[i].start)
    <3>1. 1 \in Nat \ {0}
      OBVIOUS
    <3> HIDE DEF done, rest
    <3> QED
      BY <2>2, <2>3, <2>4, <3>1, AppendSeparated
  <2>6. grown = [done EXCEPT !.reads = new]
    BY <1>3 DEF Grow
  <2> HIDE DEF new
  <2>7. grown.reads = new /\ ~IsOpen(grown)
    BY <2>1, <2>6 DEF Acc, IsOpen
  <2> QED
    BY <2>5, <2>7 DEF Separated
<1>4. CASE ~is_individual_read(address) /\ CanExtend(acc.open, address)
  <2>1. grown = [acc EXCEPT !.open.size = address - acc.open.start + 1]
    BY <1>4 DEF Grow
  <2>2. grown.reads = acc.reads /\ grown.open.start = acc.open.start /\ IsOpen(acc)
    BY <1>1, <1>4, <2>1 DEF Acc, IsOpen, CanExtend
  <2> QED
    BY <2>2 DEF Separated, ApartFrom
<1>5. CASE ~is_individual_read(address) /\ ~CanExtend(acc.open, address)
  <2>1. done \in Acc /\ Separated(W, T, done)
    BY <1>1, <1>2, <1>5, YieldSeparated
  <2>2. grown = [done EXCEPT !.open = [start |-> address, size |-> 1]]
    BY <1>5 DEF Grow
  <2>3. grown.reads = done.reads /\ grown.open.start = address
    BY <2>1, <2>2 DEF Acc
  <2> QED
    BY <1>1, <2>1, <2>3 DEF Separated, ApartFrom
<1> QED
  BY <1>3, <1>4, <1>5

LEMMA IterateSeparated ==
  ASSUME NEW W, NEW T, NEW address, LeastToCome(W, T, address),
         NEW acc, Good(W, T, acc), Separated(W, T, acc), acc.open.size < MaxRead
  PROVE  Separated(W, T \ {address}, Iterate(acc, address))
<1> DEFINE rest == T \ {address}
           grown == Grow(acc, address)
<1>1. Good(W, rest, grown) /\ Separated(W, rest, grown)
  BY GrowGood, GrowSeparated
<1>2. W \in SUBSET Int /\ rest \subseteq Int /\ address \in Int
      /\ \A a \in W \ rest : \A t \in rest : a < t
  BY DEF LeastToCome, Past
<1> HIDE DEF grown, rest
<1>3. CASE grown.open.size # MaxRead
  BY <1>1, <1>3 DEF Iterate, grown, rest
<1>4. CASE grown.open.size = MaxRead
  <2>1. /\ grown \in Acc /\ IsOpen(grown)
        /\ grown.open.start \in Int
        /\ grown.open.start + MaxRead - 1 \in W \ rest
    BY <1>1, <1>4, ReadRangesAssumption DEF Good, Acc, IsOpen, GoodOpen, GoodRead
  <2>2. ApartFrom(W, rest, grown.open.start)
    BY <1>2, <2>1, ReadRangesAssumption DEF ApartFrom, Apart
  <2>3. Separated(W, rest, Yield(grown))
    BY <1>1, <2>1, <2>2, YieldSeparated
  <2> QED
    BY <1>4, <2>3 DEF Iterate, grown, rest
<1> QED
  BY <1>3, <1>4

\* The reads yielded and the open one are separated all along.
SeparatedInv == Separated(wanted, todo, pair)

LEMMA NextSeparated ==
  ASSUME IInv, SeparatedInv, [Next]_vars
  PROVE  SeparatedInv'
<1>1. /\ wanted \subseteq Int \ Invalid /\ todo \subseteq wanted
      /\ Good(wanted, todo, pair) /\ pair.open = open /\ pair.reads = reads
      /\ open.size < MaxRead
      /\ Past(wanted, todo)
  BY AddressAssumption DEF IInv, TypeOK, pair
<1>2. CASE NextAddress
  <2> PICK address \in todo :
        /\ IsNext(address)
        /\ todo' = todo \ {address}
        /\ open' = Iterate(pair, address).open
        /\ reads' = Iterate(pair, address).reads
        /\ wanted' = wanted
    BY <1>2 DEF NextAddress, pair
  <2>1. LeastToCome(wanted, todo, address)
    BY <1>1 DEF LeastToCome, IsNext
  <2>2. Separated(wanted, todo \ {address}, Iterate(pair, address))
    BY <1>1, <2>1, IterateSeparated DEF SeparatedInv
  <2>3. pair'.open = Iterate(pair, address).open /\ pair'.reads = Iterate(pair, address).reads
    BY DEF pair
  <2> QED
    BY <2>2, <2>3 DEF SeparatedInv, Separated, IsOpen
<1>3. CASE Finish
  <2>1. /\ todo = {} /\ todo' = todo /\ wanted' = wanted
        /\ pair'.open = Yield(pair).open /\ pair'.reads = Yield(pair).reads
    BY <1>3 DEF Finish, pair
  <2>2. pair \in Acc /\ (IsOpen(pair) => ApartFrom(wanted, todo, pair.open.start))
    BY <1>1, <2>1 DEF Good, ApartFrom
  <2>3. Separated(wanted, todo, Yield(pair))
    BY <2>2, YieldSeparated DEF SeparatedInv
  <2> QED
    BY <2>1, <2>3 DEF SeparatedInv, Separated, IsOpen
<1>4. CASE UNCHANGED vars
  BY <1>4 DEF vars, SeparatedInv, pair
<1> QED
  BY <1>2, <1>3, <1>4 DEF Next

LEMMA AlwaysSeparated == Spec => []SeparatedInv
<1>1. Init => SeparatedInv
  BY DEF Init, SeparatedInv, Separated, pair
<1>2. IInv /\ SeparatedInv /\ [Next]_vars => SeparatedInv'
  BY NextSeparated
<1> QED
  BY <1>1, <1>2, AlwaysIInv, PTL DEF Spec

\* A legal request does not serve two registers that are apart.
LEMMA ApartNotServed ==
  ASSUME wanted \subseteq Int, NEW request \in ReadType, IsLegal(request),
         NEW a \in wanted, NEW b \in wanted, a < b,
         Covers(request, a), Covers(request, b)
  PROVE  ~Apart(wanted, a, b)
<1> DEFINE first == request.start
           count == request.count
<1>1. /\ first \in Int /\ count \in Nat /\ count <= MaxRead
      /\ first <= a /\ a < b /\ b <= first + count - 1 /\ a \in Int /\ b \in Int
  BY DEF ReadType, IsLegal, Covers, Span
<1>2. \A x \in Int : a <= x /\ x <= b => x \in Span(first, count)
  BY <1>1 DEF Span
<1>3. ~(b - a >= MaxRead)
  BY <1>1, ReadRangesAssumption
<1>4. ~\E x \in Invalid : a <= x /\ x <= b
  BY <1>2, ReadRangesAssumption DEF IsLegal
<1>5. ~\E c \in wanted \cap Individual : a <= c /\ c <= b
  <2> SUFFICES ASSUME NEW c \in wanted \cap Individual, a <= c, c <= b
               PROVE  FALSE
    OBVIOUS
  <2>1. Span(first, count) \cap wanted = {c}
    BY <1>2 DEF IsLegal
  <2>2. a \in Span(first, count) \cap wanted /\ b \in Span(first, count) \cap wanted
    BY DEF Covers
  <2> QED
    BY <1>1, <2>1, <2>2
<1> QED
  BY <1>3, <1>4, <1>5 DEF Apart

\* Any grouping of the wanted registers has a request of its own for the first
\* register of each read.
LEMMA ReadsNeeded ==
  ASSUME IInv, SeparatedInv, NEW requests \in SUBSET ReadType, IsGrouping(requests)
  PROVE  Len(reads) <= Cardinality(requests)
<1> DEFINE serves(i) == CHOOSE request \in requests : Covers(request, reads[i].start)
           f == [i \in DOMAIN reads |-> serves(i)]
<1>1. /\ wanted \subseteq Int
      /\ reads \in Seq(ReadType) /\ DOMAIN reads = 1 .. Len(reads) /\ Len(reads) \in Nat
      /\ \A i \in DOMAIN reads : reads[i].start \in wanted
      /\ Ascend(reads)
  BY AddressAssumption DEF IInv, TypeOK, Good, GoodReads, GoodRead, pair
<1>2. \A i \in DOMAIN reads : serves(i) \in requests /\ Covers(serves(i), reads[i].start)
  BY <1>1 DEF IsGrouping
<1> HIDE DEF serves
<1>3. ASSUME NEW i \in DOMAIN reads, NEW j \in DOMAIN reads, i < j
      PROVE  f[i] # f[j]
  <2>1. Apart(wanted, reads[i].start, reads[j].start)
    BY <1>3 DEF SeparatedInv, Separated, pair
  <2>2. reads[i].start < reads[j].start
    <3>1. reads[i] \in ReadType /\ reads[j] \in ReadType
      BY <1>1
    <3> QED
      BY <1>1, <1>3, <3>1 DEF Ascend, ReadType
  <2>3. IsLegal(serves(i)) /\ serves(i) \in ReadType
    BY <1>2 DEF IsGrouping
  <2> QED
    BY <1>1, <1>2, <2>1, <2>2, <2>3, ApartNotServed
<1>4. f \in [DOMAIN reads -> requests]
  BY <1>2
<1>5. IsFiniteSet(DOMAIN reads) /\ Cardinality(DOMAIN reads) = Len(reads)
  <2>1. 1 \in Int /\ Len(reads) \in Int /\ Len(reads) >= 0
    BY <1>1
  <2>2. /\ IsFiniteSet(1 .. Len(reads))
        /\ Cardinality(1 .. Len(reads)) = IF 1 > Len(reads) THEN 0 ELSE Len(reads) - 1 + 1
    BY <2>1, FS_Interval
  <2>3. Cardinality(1 .. Len(reads)) = Len(reads)
    BY <2>1, <2>2
  <2> QED
    BY <1>1, <2>2, <2>3
<1>6. IsFiniteSet(requests) /\ Cardinality(requests) \in Nat
  BY FS_CardinalityType DEF IsGrouping
<1> HIDE DEF f
<1>7. CASE Cardinality(requests) < Len(reads)
  <2>1. PICK i, j \in DOMAIN reads : i # j /\ f[i] = f[j]
    BY <1>4, <1>5, <1>6, <1>7, FS_PigeonHole
  <2>2. i \in Int /\ j \in Int
    BY <1>1
  <2>3. i < j \/ j < i
    BY <2>1, <2>2
  <2> QED
    BY <1>3, <2>1, <2>3
<1> QED
  BY <1>1, <1>6, <1>7

\* No legal way of covering the wanted registers takes fewer requests than the
\* reads yielded so far.
GroupingsNeedAsMany ==
  \A requests \in SUBSET ReadType : IsGrouping(requests) => Len(reads) <= Cardinality(requests)

\* Growing each read as far as it goes is optimal for every register map, limit
\* and set of wanted registers, among all legal requests (_create_read_ranges).
THEOREM GreedyIsOptimal == Spec => []GroupingsNeedAsMany
<1>1. IInv /\ SeparatedInv => GroupingsNeedAsMany
  BY ReadsNeeded DEF GroupingsNeedAsMany
<1> QED
  BY <1>1, AlwaysIInv, AlwaysSeparated, PTL

\* In particular none made of useful requests does once the loop has ended, which
\* is what the run compares it with.
THEOREM ReadsAreFewest == Spec => []NoGroupingNeedsFewer
<1>1. IInv => UsefulRequests \subseteq ReadType
  <2> SUFFICES ASSUME IInv, NEW request \in UsefulRequests
               PROVE  request \in ReadType
    OBVIOUS
  <2>1. request \in [start : wanted, count : 1 .. MaxRead]
    BY DEF UsefulRequests
  <2>2. wanted \subseteq Int /\ 1 .. MaxRead \subseteq Nat \ {0}
    BY AddressAssumption, ReadRangesAssumption DEF IInv, TypeOK
  <2> QED
    BY <2>1, <2>2 DEF ReadType
<1>2. IInv /\ GroupingsNeedAsMany => NoGroupingNeedsFewer
  BY <1>1 DEF GroupingsNeedAsMany, NoGroupingNeedsFewer
<1> QED
  BY <1>2, AlwaysIInv, GreedyIsOptimal, PTL

-------------------------------------------------------------------------------
(***************************************************************************)
(* The loop and the whole list agree: what it has yielded, followed by the *)
(* list of what is still to be yielded, is the list of all.                *)
(***************************************************************************)

\* What no request yielded serves yet.
Unserved(W, T, acc) ==
  IF IsOpen(acc) THEN {a \in W : acc.open.start <= a} ELSE T

AgreesSoFar(W, T, acc) ==
  CreateReadRanges(W) = acc.reads \o CreateReadRanges(Unserved(W, T, acc))

\* address cannot be part of the read that is open from start on.
Refused(start, address) ==
  \/ is_individual_read(address)
  \/ address >= start + MaxRead
  \/ ~CanExtend([start |-> start, size |-> 1], address)

\* The first of the addresses to come cannot.
NoneGoesOn(T, start) == \A t \in T : \E r \in T : r <= t /\ Refused(start, r)

\* The open read is the first request of what is unserved when no more goes in.
LEMMA OpenIsFirst ==
  ASSUME NEW W, NEW T \in SUBSET W, W \subseteq Int \ Invalid, IsFiniteSet(W), Past(W, T),
         NEW acc, Good(W, T, acc), IsOpen(acc), NoneGoesOn(T, acc.open.start)
  PROVE  LET S == Unserved(W, T, acc) IN
         /\ S \in SUBSET Int /\ IsFiniteSet(S) /\ S # {}
         /\ FirstRequest(S) = Read(acc.open.start, acc.open.size)
         /\ S \ FirstReadOf(S) = T
<1> DEFINE start == acc.open.start
           size == acc.open.size
           S == Unserved(W, T, acc)
           served == {a \in W \ T : start <= a}
           last == start + size - 1
<1>1. /\ start \in Int /\ size \in Nat \ {0} /\ start \in W \ T /\ last \in W \ T
      /\ size <= MaxRead
      /\ GoodOpen(W, T, acc.open) /\ Before(acc.reads, start)
  BY DEF Good, GoodOpen, GoodRead, Acc, IsOpen
<1>2. S = {a \in W : start <= a}
  BY DEF Unserved
<1> HIDE DEF S
<1>3. S = served \cup T /\ S \subseteq W
  <2>1. \A t \in T : t \in W /\ start <= t
    BY <1>1 DEF Past
  <2> HIDE DEF start
  <2> QED  BY <1>2, <2>1
<1>4. S \in SUBSET Int /\ IsFiniteSet(S) /\ start \in S
  <2>1. IsFiniteSet(S) /\ S \in SUBSET Int
    BY <1>3, FS_Subset
  <2> QED  BY <1>1, <1>2, <2>1
<1>5. ASSUME NEW a \in served
      PROVE  a \in Int /\ a <= last /\ a \in Span(start, size)
  <2>1. a \in W \ T /\ a \in Int /\ start <= a
    OBVIOUS
  <2>2. ASSUME NEW i \in DOMAIN acc.reads
        PROVE  ~Covers(acc.reads[i], a)
    <3>1. acc.reads[i].start \in Int /\ acc.reads[i].count \in Nat
      BY ReadsTyped DEF Good
    <3> QED  BY <1>1, <2>1, <3>1 DEF Before, Covers, Span
  <2>3. a \in Span(start, size)
    BY <2>1, <2>2 DEF Good, Reads
  <2> QED  BY <1>1, <2>1, <2>3 DEF Span
<1> HIDE DEF served
<1>6. Min(S) = start
  <2>1. Min(S) \in S /\ Min(S) \in Int /\ \A y \in S : Min(S) <= y
    BY <1>4, FiniteSetHasEnds, MinIsFirst
  <2>2. Min(S) <= start /\ start <= Min(S)
    BY <1>2, <1>4, <2>1
  <2> HIDE DEF start
  <2> QED  BY <1>1, <2>1, <2>2
<1>7. ASSUME NEW a \in served
      PROVE  a = start \/ ~Refused(start, a)
  <2>1. a \in W /\ start <= a /\ a \in Int
    BY <1>5 DEF served
  <2>2. a \in Span(start, size) /\ a <= last
    BY <1>5
  <2>3. ~is_individual_read(a)
    BY <1>1, <2>1, <2>2 DEF GoodOpen, is_individual_read
  <2>4. a < start + MaxRead
    BY <1>1, <2>1, <2>2, ReadRangesAssumption
  <2>5. \A x \in Invalid : ~(start <= x /\ x <= a - 1)
    <3> SUFFICES ASSUME NEW x \in Invalid, start <= x, x <= a - 1 PROVE FALSE
      OBVIOUS
    <3>1. x \in Int
      BY ReadRangesAssumption
    <3>2. x \in Span(start, size)
      BY <1>1, <2>1, <2>2, <3>1 DEF Span
    <3> QED  BY <1>1, <3>2 DEF GoodOpen, GoodRead
  <2>6. CanExtend([start |-> start, size |-> 1], a)
    BY <1>1, <2>1, <2>4, <2>5, ReadRangesAssumption DEF CanExtend, overlaps_invalid_range
  <2> QED  BY <1>1, <2>1, <2>3, <2>4, <2>6, ReadRangesAssumption DEF Refused
<1>8. ~is_individual_read(start)
  <2>1. start \in Span(start, size) \cap W
    BY <1>1 DEF Span
  <2> QED  BY <1>1, <2>1 DEF GoodOpen, is_individual_read
<1> DEFINE refused == {r \in S \ {start} : Refused(start, r)}
<1>9. FirstReadOf(S) = {a \in S : \A r \in refused : a < r}
  BY <1>6, <1>8 DEF FirstReadOf, Refused
<1>10. refused \subseteq T
  BY <1>3, <1>7
<1>11. ASSUME NEW t \in T
       PROVE  \E r \in refused : r <= t
  <2>1. PICK r \in T : r <= t /\ Refused(start, r)
    BY DEF NoneGoesOn
  <2>2. r # start
    BY <1>1
  <2> QED  BY <1>3, <2>1, <2>2
<1>12. \A a \in served : \A t \in T : a < t
  BY DEF served, Past
<1> HIDE DEF refused
<1>13. FirstReadOf(S) = served
  <2>1. ASSUME NEW a \in served
        PROVE  a \in FirstReadOf(S)
    BY <1>3, <1>9, <1>10, <1>12
  <2>2. ASSUME NEW a \in S, a \notin served
        PROVE  a \notin FirstReadOf(S)
    <3>1. a \in T
      BY <1>3, <2>2
    <3>2. PICK r \in refused : r <= a
      BY <1>11, <3>1
    <3>3. r \in Int /\ a \in Int
      BY <1>3, <1>4, <1>10
    <3> QED  BY <1>9, <3>2, <3>3
  <2>3. FirstReadOf(S) \subseteq S
    BY <1>9
  <2> QED  BY <2>1, <2>2, <2>3
<1>14. Max(served) = last
  <2>1. served \in SUBSET Int /\ IsFiniteSet(served) /\ last \in served
    <3>1. served \subseteq S
      BY <1>3
    <3>2. last \in served
      BY <1>1 DEF served
    <3> QED  BY <1>4, <3>1, <3>2, FS_Subset
  <2>2. Max(served) \in served /\ Max(served) \in Int /\ \A y \in served : Max(served) >= y
    BY <2>1, FiniteSetHasEnds, MaxIsLast
  <2> QED  BY <1>1, <1>5, <2>1, <2>2
<1>15. FirstRequest(S) = Read(start, size)
  BY <1>1, <1>6, <1>13, <1>14 DEF FirstRequest
<1>16. S \ FirstReadOf(S) = T
  BY <1>3, <1>13 DEF served
<1> QED  BY <1>4, <1>15, <1>16 DEF S

LEMMA AppendBefore ==
  ASSUME NEW s \in Seq(ReadType), NEW e \in ReadType, NEW t \in Seq(ReadType)
  PROVE  Append(s, e) \o t = s \o (<<e>> \o t)
<1>1. Append(s, e) = s \o <<e>>
  BY AppendIsConcat
<1>2. <<e>> \in Seq(ReadType)
  OBVIOUS
<1>3. (s \o <<e>>) \o t = s \o (<<e>> \o t)
  <2> DEFINE one == <<e>>
  <2>1. one \in Seq(ReadType)
    BY <1>2
  <2> HIDE DEF one
  <2>2. (s \o one) \o t = s \o (one \o t)
    BY <2>1, ConcatAssociative
  <2> QED  BY <2>2 DEF one
<1> QED  BY <1>1, <1>3

\* Yielding it takes its registers off the list.
LEMMA YieldAgrees ==
  ASSUME NEW W, NEW T \in SUBSET W, W \subseteq Int \ Invalid, IsFiniteSet(W), Past(W, T),
         NEW acc, Good(W, T, acc), AgreesSoFar(W, T, acc),
         IsOpen(acc) => NoneGoesOn(T, acc.open.start)
  PROVE  AgreesSoFar(W, T, Yield(acc))
<1>1. CASE acc.open.size = 0
  BY <1>1 DEF Yield
<1>2. CASE acc.open.size # 0
  <2> DEFINE S == Unserved(W, T, acc)
             request == Read(acc.open.start, acc.open.size)
  <2>1. IsOpen(acc) /\ acc.reads \in Seq(ReadType)
        /\ acc.open.start \in Int /\ acc.open.size \in Nat \ {0}
    BY <1>2 DEF Good, Acc, IsOpen
  <2>2. /\ S \in SUBSET Int /\ IsFiniteSet(S) /\ S # {}
        /\ FirstRequest(S) = request /\ S \ FirstReadOf(S) = T
    BY <2>1, OpenIsFirst
  <2>3. CreateReadRanges(S) = <<request>> \o CreateReadRanges(T)
    BY <2>2, WholeListUnfolds
  <2>4. CreateReadRanges(T) \in Seq(ReadType)
    <3>1. T \in SUBSET Int /\ IsFiniteSet(T)
      BY FS_Subset
    <3> QED  BY <3>1, WholeListIsWellListed DEF WellListed
  <2>5. request \in ReadType
    BY <2>1 DEF Read, ReadType
  <2>6. Append(acc.reads, request) \o CreateReadRanges(T)
          = acc.reads \o (<<request>> \o CreateReadRanges(T))
    <3> DEFINE done == acc.reads
               others == CreateReadRanges(T)
    <3>1. done \in Seq(ReadType) /\ others \in Seq(ReadType)
      BY <2>1, <2>4
    <3> HIDE DEF request, done, others
    <3>2. Append(done, request) \o others = done \o (<<request>> \o others)
      BY <2>5, <3>1, AppendBefore
    <3> QED  BY <3>2 DEF done, others
  <2>7. Yield(acc) = [open |-> NoRead, reads |-> Append(acc.reads, request)]
    BY <1>2 DEF Yield
  <2> HIDE DEF request, S
  <2>8. Yield(acc).reads = Append(acc.reads, request) /\ ~IsOpen(Yield(acc))
    BY <2>7 DEF IsOpen, NoRead
  <2>9. Unserved(W, T, Yield(acc)) = T
    BY <2>8 DEF Unserved
  <2> QED  BY <2>3, <2>6, <2>8, <2>9 DEF AgreesSoFar, S
<1> QED  BY <1>1, <1>2

\* A register read on its own is the first request of a list that starts with it.
LEMMA AloneIsFirst ==
  ASSUME NEW T \in SUBSET Int, IsFiniteSet(T), NEW address \in T,
         \A t \in T : address <= t, is_individual_read(address)
  PROVE  /\ FirstRequest(T) = Read(address, 1)
         /\ FirstReadOf(T) = {address}
<1>1. Min(T) = address
  <2>1. Min(T) \in T /\ Min(T) \in Int /\ \A y \in T : Min(T) <= y
    BY FiniteSetHasEnds, MinIsFirst
  <2> QED  BY <2>1
<1>2. FirstReadOf(T) = {a \in T : \A r \in T \ {address} : a < r}
  BY <1>1 DEF FirstReadOf
<1>3. \A t \in T \ {address} : address < t
  OBVIOUS
<1>4. FirstReadOf(T) = {address}
  <2>1. address \in FirstReadOf(T)
    BY <1>2, <1>3
  <2>2. ASSUME NEW a \in FirstReadOf(T), a # address
        PROVE  FALSE
    <3>1. a \in T /\ \A r \in T \ {address} : a < r
      BY <1>2
    <3>2. a < a /\ a \in Int
      BY <2>2, <3>1
    <3> QED  BY <3>2
  <2> QED  BY <2>1, <2>2
<1>5. Max({address}) = address
  <2>1. {address} \in SUBSET Int /\ HasMax({address})
    BY DEF HasMax
  <2> QED  BY <2>1, MaxIsLast
<1> QED  BY <1>1, <1>4, <1>5 DEF FirstRequest

LEMMA GrowAgrees ==
  ASSUME NEW W, NEW T, NEW address, LeastToCome(W, T, address), IsFiniteSet(W),
         NEW acc, Good(W, T, acc), AgreesSoFar(W, T, acc)
  PROVE  AgreesSoFar(W, T \ {address}, Grow(acc, address))
<1> DEFINE rest == T \ {address}
           done == Yield(acc)
           grown == Grow(acc, address)
<1>1. /\ acc \in Acc /\ W \subseteq Int \ Invalid /\ T \in SUBSET W /\ T \in SUBSET Int
      /\ address \in T /\ address \in Int /\ Past(W, T)
      /\ \A t \in T : address <= t
  BY DEF Good, LeastToCome
<1>2. IsFiniteSet(T) /\ IsFiniteSet(rest)
  BY <1>1, FS_Subset
<1>3. ASSUME is_individual_read(address) \/ ~CanExtend(acc.open, address)
      PROVE  /\ done \in Acc /\ ~IsOpen(done)
             /\ CreateReadRanges(W) = done.reads \o CreateReadRanges(T)
  <2>1. ASSUME IsOpen(acc)
        PROVE  NoneGoesOn(T, acc.open.start)
    <3>1. CanExtend([start |-> acc.open.start, size |-> 1], address)
            <=> CanExtend(acc.open, address)
      BY <2>1 DEF CanExtend, IsOpen
    <3>2. Refused(acc.open.start, address)
      BY <1>3, <3>1 DEF Refused
    <3> QED  BY <1>1, <3>2 DEF NoneGoesOn
  <2>2. AgreesSoFar(W, T, done)
    BY <1>1, <2>1, YieldAgrees
  <2>3. done \in Acc /\ ~IsOpen(done)
    <3>1. Good(W, T, done) /\ done.open.size = 0
      BY YieldGood
    <3> HIDE DEF done
    <3> QED  BY <3>1 DEF Good, IsOpen
  <2> QED  BY <2>2, <2>3 DEF AgreesSoFar, Unserved
<1>4. CASE is_individual_read(address)
  <2> DEFINE request == Read(address, 1)
  <2>1. /\ done \in Acc /\ ~IsOpen(done)
        /\ CreateReadRanges(W) = done.reads \o CreateReadRanges(T)
    BY <1>3, <1>4
  <2>2. FirstRequest(T) = request /\ FirstReadOf(T) = {address}
    BY <1>1, <1>2, <1>4, AloneIsFirst
  <2>3. CreateReadRanges(T) = <<request>> \o CreateReadRanges(rest)
    BY <1>1, <1>2, <2>2, WholeListUnfolds
  <2>4. CreateReadRanges(rest) \in Seq(ReadType)
    BY <1>1, <1>2, WholeListIsWellListed DEF WellListed
  <2>5. request \in ReadType /\ done.reads \in Seq(ReadType)
    BY <1>1, <2>1 DEF Acc, Read, ReadType
  <2>6. Append(done.reads, request) \o CreateReadRanges(rest)
          = done.reads \o (<<request>> \o CreateReadRanges(rest))
    <3> DEFINE yielded == done.reads
               others == CreateReadRanges(rest)
    <3>1. yielded \in Seq(ReadType) /\ others \in Seq(ReadType)
      BY <2>4, <2>5
    <3> HIDE DEF request, yielded, others
    <3>2. Append(yielded, request) \o others = yielded \o (<<request>> \o others)
      BY <2>5, <3>1, AppendBefore
    <3> QED  BY <3>2 DEF yielded, others
  <2>7. grown = [done EXCEPT !.reads = Append(@, request)]
    BY <1>4 DEF Grow
  <2> HIDE DEF request, done
  <2>8. grown.reads = Append(done.reads, request) /\ ~IsOpen(grown)
    BY <2>1, <2>7 DEF Acc, IsOpen
  <2> HIDE DEF grown, rest
  <2>9. Unserved(W, rest, grown) = rest
    BY <2>8 DEF Unserved
  <2>10. AgreesSoFar(W, rest, grown)
    BY <2>1, <2>3, <2>6, <2>8, <2>9 DEF AgreesSoFar
  <2> QED  BY <2>10 DEF grown, rest
<1>5. CASE ~is_individual_read(address) /\ CanExtend(acc.open, address)
  <2>1. grown = [acc EXCEPT !.open.size = address - acc.open.start + 1]
    BY <1>5 DEF Grow
  <2>2. /\ IsOpen(acc) /\ acc.open.start < address /\ acc.open.start \in Int
    BY <1>1, <1>5 DEF CanExtend, IsOpen, Good, GoodOpen, GoodRead, Past, Acc
  <2>3. /\ grown.reads = acc.reads /\ grown.open.start = acc.open.start
        /\ grown.open.size = address - acc.open.start + 1
    BY <1>1, <2>1 DEF Acc
  <2>4. IsOpen(grown)
    BY <1>1, <2>2, <2>3 DEF IsOpen
  <2> HIDE DEF grown, rest
  <2>5. Unserved(W, rest, grown) = Unserved(W, T, acc)
    BY <2>2, <2>3, <2>4 DEF Unserved
  <2>6. AgreesSoFar(W, rest, grown)
    BY <2>3, <2>5 DEF AgreesSoFar
  <2> QED  BY <2>6 DEF grown, rest
<1>6. CASE ~is_individual_read(address) /\ ~CanExtend(acc.open, address)
  <2>1. /\ done \in Acc
        /\ CreateReadRanges(W) = done.reads \o CreateReadRanges(T)
    BY <1>3, <1>6
  <2>2. grown = [done EXCEPT !.open = [start |-> address, size |-> 1]]
    BY <1>6 DEF Grow
  <2> HIDE DEF done
  <2>3. grown.reads = done.reads /\ grown.open.start = address /\ IsOpen(grown)
    BY <2>1, <2>2 DEF Acc, IsOpen
  <2> HIDE DEF grown, rest
  <2>4. {a \in W : address <= a} = T
    <3>1. ASSUME NEW a \in W, address <= a
          PROVE  a \in T
      <4>1. a \in Int
        BY <1>1
      <4>2. a \notin T => a < address
        BY <1>1 DEF Past
      <4> QED  BY <1>1, <3>1, <4>1, <4>2
    <3>2. \A t \in T : t \in W /\ address <= t
      BY <1>1
    <3> QED  BY <3>1, <3>2
  <2>5. Unserved(W, rest, grown) = T
    BY <2>3, <2>4 DEF Unserved
  <2>6. AgreesSoFar(W, rest, grown)
    BY <2>1, <2>3, <2>5 DEF AgreesSoFar
  <2> QED  BY <2>6 DEF grown, rest
<1> QED  BY <1>4, <1>5, <1>6

LEMMA IterateAgrees ==
  ASSUME NEW W, NEW T, NEW address, LeastToCome(W, T, address), IsFiniteSet(W),
         NEW acc, Good(W, T, acc), acc.open.size < MaxRead, AgreesSoFar(W, T, acc)
  PROVE  AgreesSoFar(W, T \ {address}, Iterate(acc, address))
<1> DEFINE rest == T \ {address}
           grown == Grow(acc, address)
<1>1. Good(W, rest, grown) /\ AgreesSoFar(W, rest, grown)
  BY GrowGood, GrowAgrees
<1>2. /\ W \subseteq Int \ Invalid /\ rest \in SUBSET W /\ Past(W, rest) /\ rest \subseteq Int
  BY DEF LeastToCome, Past
<1> HIDE DEF grown, rest
<1>3. CASE grown.open.size # MaxRead
  BY <1>1, <1>3 DEF Iterate, grown, rest
<1>4. CASE grown.open.size = MaxRead
  <2>1. /\ grown \in Acc /\ IsOpen(grown)
        /\ grown.open.start \in Int
        /\ grown.open.start + MaxRead - 1 \in W \ rest
    BY <1>1, <1>4, ReadRangesAssumption DEF Good, Acc, IsOpen, GoodOpen, GoodRead
  <2>2. ASSUME NEW t \in rest
        PROVE  Refused(grown.open.start, t)
    BY <1>2, <2>1, ReadRangesAssumption DEF Past, Refused
  <2>3. NoneGoesOn(rest, grown.open.start)
    BY <1>2, <2>2 DEF NoneGoesOn
  <2>4. AgreesSoFar(W, rest, Yield(grown))
    BY <1>1, <1>2, <2>3, YieldAgrees
  <2> QED  BY <1>4, <2>4 DEF Iterate, grown, rest
<1> QED  BY <1>3, <1>4

\* The loop has only passed a finite number of addresses, and agrees with the
\* whole list so far.
AgreesInv ==
  /\ IsFiniteSet(wanted \ todo)
  /\ IsFiniteSet(wanted) => AgreesSoFar(wanted, todo, pair)

LEMMA InitAgrees == Init => AgreesInv
<1> SUFFICES ASSUME Init PROVE AgreesInv
  OBVIOUS
<1>1. /\ todo = wanted /\ wanted \subseteq Int
      /\ open = [start |-> 0, size |-> 0] /\ reads = <<>>
  BY AddressAssumption DEF Init, NoRead
<1>2. IsFiniteSet(wanted \ todo)
  <2>1. wanted \ todo = {}
    BY <1>1
  <2> QED  BY <2>1, FS_EmptySet
<1>3. ASSUME IsFiniteSet(wanted)
      PROVE  AgreesSoFar(wanted, todo, pair)
  <2>1. pair.reads = <<>> /\ ~IsOpen(pair)
    BY <1>1 DEF pair, IsOpen
  <2>2. Unserved(wanted, todo, pair) = wanted
    BY <1>1, <2>1 DEF Unserved
  <2>3. CreateReadRanges(wanted) \in Seq(ReadType)
    BY <1>1, <1>3, WholeListIsWellListed DEF WellListed
  <2>4. <<>> \o CreateReadRanges(wanted) = CreateReadRanges(wanted)
    BY <2>3, ConcatEmptySeq
  <2> QED  BY <2>1, <2>2, <2>4 DEF AgreesSoFar
<1> QED  BY <1>2, <1>3 DEF AgreesInv

LEMMA NextAgrees ==
  ASSUME IInv, AgreesInv, [Next]_vars
  PROVE  AgreesInv'
<1>1. /\ wanted \subseteq Int \ Invalid /\ todo \in SUBSET wanted
      /\ Good(wanted, todo, pair) /\ pair.open = open /\ pair.reads = reads
      /\ open.size < MaxRead
      /\ Past(wanted, todo)
  BY AddressAssumption DEF IInv, TypeOK, pair
<1>2. CASE NextAddress
  <2> PICK address \in todo :
        /\ IsNext(address)
        /\ todo' = todo \ {address}
        /\ open' = Iterate(pair, address).open
        /\ reads' = Iterate(pair, address).reads
        /\ wanted' = wanted
    BY <1>2 DEF NextAddress, pair
  <2>1. LeastToCome(wanted, todo, address)
    BY <1>1 DEF LeastToCome, IsNext
  <2>2. Iterate(pair, address) = pair'
    <3>1. Iterate(pair, address) \in Acc
      BY <1>1, <2>1, IterateGood DEF Good
    <3> QED  BY <3>1 DEF Acc, pair
  <2>3. IsFiniteSet(wanted) => AgreesSoFar(wanted, todo \ {address}, Iterate(pair, address))
    BY <1>1, <2>1, IterateAgrees DEF AgreesInv
  <2>4. IsFiniteSet(wanted \ (todo \ {address}))
    <3>1. wanted \ (todo \ {address}) = (wanted \ todo) \cup {address}
      BY <1>1
    <3> QED  BY <3>1, FS_AddElement DEF AgreesInv
  <2>5. (IsFiniteSet(wanted) => AgreesSoFar(wanted, todo, pair))'
    <3>1. (AgreesSoFar(wanted, todo, pair))' <=> AgreesSoFar(wanted', todo', pair')
      BY DEF AgreesSoFar, Unserved, IsOpen
    <3> QED  BY <2>2, <2>3, <3>1
  <2> QED  BY <2>4, <2>5 DEF AgreesInv
<1>3. CASE Finish
  <2>1. /\ todo = {} /\ todo' = todo /\ wanted' = wanted
        /\ open' = Yield(pair).open /\ reads' = Yield(pair).reads
    BY <1>3 DEF Finish, pair
  <2>2. Yield(pair) = pair'
    <3>1. Yield(pair) \in Acc
      BY <1>1, YieldGood DEF Good
    <3> QED  BY <2>1, <3>1 DEF Acc, pair
  <2>3. IsFiniteSet(wanted) => AgreesSoFar(wanted, todo, Yield(pair))
    BY <1>1, <2>1, YieldAgrees DEF AgreesInv, NoneGoesOn
  <2>4. (IsFiniteSet(wanted) => AgreesSoFar(wanted, todo, pair))'
    <3>1. (AgreesSoFar(wanted, todo, pair))' <=> AgreesSoFar(wanted', todo', pair')
      BY DEF AgreesSoFar, Unserved, IsOpen
    <3> QED  BY <2>1, <2>2, <2>3, <3>1
  <2> QED  BY <2>1, <2>4 DEF AgreesInv
<1>4. CASE UNCHANGED vars
  BY <1>4 DEF vars, AgreesInv, pair, AgreesSoFar, Unserved, IsOpen
<1> QED  BY <1>2, <1>3, <1>4 DEF Next

\* For every register map, limit and set of wanted registers the loop yields the
\* list that CreateReadRanges defines by recursion.
THEOREM LoopYieldsWholeList == Spec => []AgreesWithWholeList
<1>1. ASSUME IInv, AgreesInv, finished
      PROVE  reads = CreateReadRanges(wanted)
  <2>1. todo = {} /\ open.size = 0 /\ Good(wanted, todo, pair)
    BY <1>1 DEF IInv
  <2>2. IsFiniteSet(wanted) /\ AgreesSoFar(wanted, todo, pair)
    <3>1. wanted \ todo = wanted
      BY <2>1
    <3> QED  BY <1>1, <3>1 DEF AgreesInv
  <2>3. pair.reads = reads /\ ~IsOpen(pair) /\ reads \in Seq(ReadType)
    BY <2>1 DEF pair, IsOpen, Good, GoodReads
  <2>4. CreateReadRanges({}) = <<>>
    BY FS_EmptySet, WholeListUnfolds
  <2>5. Unserved(wanted, todo, pair) = {}
    BY <2>1, <2>3 DEF Unserved
  <2>6. CreateReadRanges(wanted) = reads \o <<>>
    BY <2>2, <2>3, <2>4, <2>5 DEF AgreesSoFar
  <2> QED  BY <2>3, <2>6, ConcatEmptySeq
<1>2. IInv /\ AgreesInv => AgreesWithWholeList
  BY <1>1 DEF AgreesWithWholeList
<1>3. Init => AgreesInv
  BY InitAgrees
<1>4. IInv /\ AgreesInv /\ [Next]_vars => AgreesInv'
  BY NextAgrees
<1> QED  BY <1>2, <1>3, <1>4, AlwaysIInv, PTL DEF Spec
===============================================================================
