--------------------------- MODULE ReadRangesProofs ---------------------------
(***************************************************************************)
(* What the list of reads of _create_read_ranges is, for every register    *)
(* map, every adapter limit and every finite set of wanted addresses.      *)
(***************************************************************************)
EXTENDS ReadRanges, FiniteSetTheorems, SequenceTheorems, WellFoundedInduction, TLAPS

-------------------------------------------------------------------------------
(***************************************************************************)
(* CreateReadRanges is defined by recursion over the addresses left.  That *)
(* a set has a smallest subset with a property takes the place of          *)
(* induction: the recursion has one solution on a finite set of addresses. *)
(***************************************************************************)

\* Among subsets of a finite set there is one that contains no other.
LEMMA SmallestSubset ==
  ASSUME NEW S, IsFiniteSet(S), NEW T, \A X \in T : X \subseteq S, T # {}
  PROVE  \E X \in T : \A Y \in T : Y \subseteq X => Y = X
<1>1. T \subseteq FiniteSubsetsOf(S)
  BY FS_Subset DEF FiniteSubsetsOf
<1>2. \E X \in T : \A Y \in T : ~(<<Y, X>> \in StrictSubsetOrdering(S))
  BY <1>1, FS_StrictSubsetOrderingWellFounded, WFMin
<1>3. \A X, Y \in T : Y \subseteq X /\ Y # X => <<Y, X>> \in StrictSubsetOrdering(S)
  BY DEF StrictSubsetOrdering
<1> QED  BY <1>2, <1>3

HasMin(S) == \E x \in S : \A y \in S : x <= y

HasMax(S) == \E x \in S : \A y \in S : x >= y

\* Sorting the wanted addresses is possible: a finite set has a first and a
\* last one.
LEMMA FiniteSetHasEnds ==
  ASSUME NEW S \in SUBSET Int, IsFiniteSet(S), S # {}
  PROVE  HasMin(S) /\ HasMax(S)
<1> DEFINE T == {X \in SUBSET S : X # {} /\ ~(HasMin(X) /\ HasMax(X))}
<1>1. SUFFICES ASSUME T # {} PROVE FALSE
  OBVIOUS
<1>0. \A X \in T : X \subseteq S
  OBVIOUS
<1>2. PICK X \in T : \A Y \in T : Y \subseteq X => Y = X
  <2> HIDE DEF T
  <2> QED  BY <1>0, <1>1, SmallestSubset
<1>3. PICK x \in X : TRUE
  BY <1>2
<1>4. CASE X = {x}
  BY <1>2, <1>4 DEF HasMin, HasMax
<1>5. CASE X # {x}
  <2> DEFINE Y == X \ {x}
  <2>1. Y \subseteq X /\ Y # X /\ Y # {} /\ Y \in SUBSET S
    BY <1>2, <1>3, <1>5
  <2>2. HasMin(Y) /\ HasMax(Y)
    BY <1>2, <2>1
  <2>3. PICK low \in Y : \A y \in Y : low <= y
    BY <2>2 DEF HasMin
  <2>4. PICK high \in Y : \A y \in Y : high >= y
    BY <2>2 DEF HasMax
  <2>5. x \in Int /\ low \in Int /\ high \in Int /\ X \subseteq Int
    BY <1>2, <1>3
  <2>6. HasMin(X)
    <3>1. CASE x <= low  BY <1>3, <2>3, <2>5, <3>1 DEF HasMin
    <3>2. CASE low <= x  BY <1>3, <2>3, <2>5, <3>2 DEF HasMin
    <3> QED  BY <2>5, <3>1, <3>2
  <2>7. HasMax(X)
    <3>1. CASE x >= high  BY <1>3, <2>4, <2>5, <3>1 DEF HasMax
    <3>2. CASE high >= x  BY <1>3, <2>4, <2>5, <3>2 DEF HasMax
    <3> QED  BY <2>5, <3>1, <3>2
  <2> QED  BY <1>2, <2>6, <2>7
<1> QED  BY <1>4, <1>5

LEMMA MinIsFirst ==
  ASSUME NEW S \in SUBSET Int, HasMin(S)
  PROVE  Min(S) \in S /\ Min(S) \in Int /\ \A y \in S : Min(S) <= y
BY DEF Min, HasMin

LEMMA MaxIsLast ==
  ASSUME NEW S \in SUBSET Int, HasMax(S)
  PROVE  Max(S) \in S /\ Max(S) \in Int /\ \A y \in S : Max(S) >= y
BY DEF Max, HasMax

\* The first read serves the first wanted address, so the list gets shorter.
LEMMA FirstReadServes ==
  ASSUME NEW S \in SUBSET Int, IsFiniteSet(S), S # {}
  PROVE  /\ FirstReadOf(S) \subseteq S
         /\ Min(S) \in FirstReadOf(S)
         /\ S \ FirstReadOf(S) # S
<1>1. Min(S) \in S /\ \A y \in S : Min(S) <= y
  BY FiniteSetHasEnds, MinIsFirst
<1>2. Min(S) \in Int
  BY <1>1
<1> HIDE DEF CanExtend
<1>3. \A r \in S \ {Min(S)} : Min(S) < r
  BY <1>1, <1>2
<1>4. Min(S) \in FirstReadOf(S)
  BY <1>1, <1>3 DEF FirstReadOf
<1> QED  BY <1>1, <1>4 DEF FirstReadOf

\* The first request of a list and the recursion that CreateReadRanges solves.
FirstRequest(S) == Read(Min(S), Max(FirstReadOf(S)) - Min(S) + 1)

Solves(f, S) ==
  f = [left \in SUBSET S |->
         IF left = {} THEN <<>>
         ELSE <<FirstRequest(left)>> \o f[left \ FirstReadOf(left)]]

LEMMA WholeListSolves ==
  ASSUME NEW S
  PROVE  CreateReadRanges(S) = (CHOOSE f : Solves(f, S))[S]
BY DEF CreateReadRanges, Solves, FirstRequest

LEMMA SolutionStep ==
  ASSUME NEW S, NEW f, Solves(f, S), NEW L \in SUBSET S
  PROVE  /\ L = {} => f[L] = <<>>
         /\ L # {} => f[L] = <<FirstRequest(L)>> \o f[L \ FirstReadOf(L)]
BY DEF Solves

LEMMA SolutionIsUnique ==
  ASSUME NEW S \in SUBSET Int, IsFiniteSet(S),
         NEW f, Solves(f, S), NEW g, Solves(g, S)
  PROVE  f = g
<1> DEFINE T == {L \in SUBSET S : f[L] # g[L]}
<1>1. f = [L \in SUBSET S |-> f[L]] /\ g = [L \in SUBSET S |-> g[L]]
  BY DEF Solves
<1>2. SUFFICES ASSUME T # {} PROVE FALSE
  BY <1>1
<1>0. \A X \in T : X \subseteq S
  OBVIOUS
<1>3. PICK L \in T : \A M \in T : M \subseteq L => M = L
  <2> HIDE DEF T
  <2> QED  BY <1>0, <1>2, SmallestSubset
<1> HIDE DEF T
<1>4. L \in SUBSET S /\ f[L] # g[L]
  BY <1>3 DEF T
<1>5. L # {}
  BY <1>4, SolutionStep
<1> DEFINE rest == L \ FirstReadOf(L)
<1>6. L \in SUBSET Int /\ IsFiniteSet(L)
  BY <1>4, FS_Subset
<1>7. rest \in SUBSET S /\ rest \subseteq L /\ rest # L
  BY <1>4, <1>5, <1>6, FirstReadServes
<1>8. f[rest] = g[rest]
  BY <1>3, <1>7 DEF T
<1>9. f[L] = <<FirstRequest(L)>> \o f[rest]
  BY <1>4, <1>5 DEF Solves
<1>10. g[L] = <<FirstRequest(L)>> \o g[rest]
  BY <1>4, <1>5 DEF Solves
<1> QED  BY <1>4, <1>8, <1>9, <1>10

LEMMA SolutionRestricts ==
  ASSUME NEW S \in SUBSET Int, IsFiniteSet(S), NEW f, Solves(f, S), NEW R \in SUBSET S
  PROVE  Solves([L \in SUBSET R |-> f[L]], R)
<1> DEFINE g == [L \in SUBSET R |-> f[L]]
<1>1. ASSUME NEW L \in SUBSET R
      PROVE  g[L] = IF L = {} THEN <<>>
                    ELSE <<FirstRequest(L)>> \o g[L \ FirstReadOf(L)]
  <2>1. L \in SUBSET S /\ L \ FirstReadOf(L) \in SUBSET R
    OBVIOUS
  <2>2. f[L] = IF L = {} THEN <<>>
               ELSE <<FirstRequest(L)>> \o f[L \ FirstReadOf(L)]
    BY <2>1 DEF Solves
  <2>3. g[L] = f[L] /\ g[L \ FirstReadOf(L)] = f[L \ FirstReadOf(L)]
    BY <2>1
  <2> QED  BY <2>2, <2>3
<1> HIDE DEF g
<1>2. g = [L \in SUBSET R |->
             IF L = {} THEN <<>> ELSE <<FirstRequest(L)>> \o g[L \ FirstReadOf(L)]]
  <2>1. g = [L \in SUBSET R |-> g[L]]
    BY DEF g
  <2> QED  BY <1>1, <2>1
<1> QED  BY <1>2 DEF Solves, g

LEMMA SolutionExists ==
  ASSUME NEW S \in SUBSET Int, IsFiniteSet(S)
  PROVE  \E f : Solves(f, S)
<1> DEFINE T == {R \in SUBSET S : ~\E f : Solves(f, R)}
<1>0. \A R \in T : R \subseteq S
  OBVIOUS
<1>1. SUFFICES ASSUME T # {} PROVE FALSE
  OBVIOUS
<1>2. PICK R \in T : \A Q \in T : Q \subseteq R => Q = R
  <2> HIDE DEF T
  <2> QED  BY <1>0, <1>1, SmallestSubset
<1>3. R \in SUBSET S /\ R \in SUBSET Int /\ ~\E f : Solves(f, R)
  BY <1>2
<1> DEFINE Solution(M) == CHOOSE f : Solves(f, M)
           Value(M) == Solution(M)[M]
           h == [L \in SUBSET R |->
                   IF L = {} THEN <<>>
                   ELSE <<FirstRequest(L)>> \o Value(L \ FirstReadOf(L))]
<1>4. ASSUME NEW M \in SUBSET R, M # R
      PROVE  Solves(Solution(M), M)
  <2>1. M \notin T /\ M \in SUBSET S
    BY <1>2, <1>3, <1>4
  <2> QED  BY <2>1
<1>5. ASSUME NEW M \in SUBSET R, M # R
      PROVE  h[M] = Value(M)
  <2>1. Solves(Solution(M), M)
    BY <1>4, <1>5
  <2>2. CASE M = {}
    <3>1. Solution(M)[M] = <<>>
      <4> HIDE DEF Solution
      <4> QED  BY <2>1, <2>2 DEF Solves
    <3> QED  BY <2>2, <3>1
  <2>3. CASE M # {}
    <3> DEFINE rest == M \ FirstReadOf(M)
    <3>1. M \in SUBSET Int /\ IsFiniteSet(M)
      BY <1>3, FS_Subset
    <3>2. rest \in SUBSET M /\ rest # R /\ rest \in SUBSET R
      BY <2>3, <3>1, FirstReadServes
    <3>3. Solves(Solution(rest), rest)
      BY <1>4, <3>2
    <3>4. Solves([L \in SUBSET rest |-> Solution(M)[L]], rest)
      BY <2>1, <3>1, <3>2, SolutionRestricts
    <3>5. [L \in SUBSET rest |-> Solution(M)[L]] = Solution(rest)
      <4>1. rest \in SUBSET Int /\ IsFiniteSet(rest)
        BY <3>1, <3>2, FS_Subset
      <4> HIDE DEF Solution, rest
      <4> QED  BY <3>3, <3>4, <4>1, SolutionIsUnique
    <3>6. Solution(M)[rest] = Value(rest)
      <4>1. [L \in SUBSET rest |-> Solution(M)[L]][rest] = Solution(M)[rest]
        OBVIOUS
      <4> HIDE DEF Solution, rest
      <4> QED  BY <3>5, <4>1
    <3>7. Solution(M)[M] = <<FirstRequest(M)>> \o Solution(M)[rest]
      <4> HIDE DEF Solution
      <4> QED  BY <2>1, <2>3 DEF Solves
    <3>8. h[M] = <<FirstRequest(M)>> \o Value(rest)
      <4> HIDE DEF Value
      <4> QED  BY <2>3
    <3> QED  BY <3>6, <3>7, <3>8
  <2> QED  BY <2>2, <2>3
<1> HIDE DEF Value, Solution
<1>6. ASSUME NEW L \in SUBSET R, L # {}
      PROVE  h[L \ FirstReadOf(L)] = Value(L \ FirstReadOf(L))
  <2>1. L \in SUBSET Int /\ IsFiniteSet(L)
    BY <1>3, FS_Subset
  <2>2. L \ FirstReadOf(L) # R
    BY <1>6, <2>1, FirstReadServes
  <2> QED  BY <1>5, <2>2
<1>7. Solves(h, R)
  <2>1. \A L \in SUBSET R :
          h[L] = IF L = {} THEN <<>>
                 ELSE <<FirstRequest(L)>> \o h[L \ FirstReadOf(L)]
    BY <1>6
  <2>2. h = [L \in SUBSET R |-> h[L]]
    OBVIOUS
  <2> HIDE DEF h
  <2> QED  BY <2>1, <2>2 DEF Solves
<1> QED  BY <1>3, <1>7

\* The whole list is the first request and the list of what it leaves.
LEMMA WholeListUnfolds ==
  ASSUME NEW S \in SUBSET Int, IsFiniteSet(S)
  PROVE  /\ S = {} => CreateReadRanges(S) = <<>>
         /\ S # {} => CreateReadRanges(S) =
                        <<FirstRequest(S)>> \o CreateReadRanges(S \ FirstReadOf(S))
<1> DEFINE Solution(M) == CHOOSE f : Solves(f, M)
           rest == S \ FirstReadOf(S)
<1>1. Solves(Solution(S), S)
  BY SolutionExists
<1>2. rest \in SUBSET S /\ rest \in SUBSET Int /\ IsFiniteSet(rest)
  BY FS_Subset
<1>3. Solves(Solution(rest), rest)
  <2> HIDE DEF rest
  <2> QED  BY <1>2, SolutionExists
<1>4. Solves([L \in SUBSET rest |-> Solution(S)[L]], rest)
  <2> HIDE DEF rest, Solution
  <2> QED  BY <1>1, <1>2, SolutionRestricts
<1>5. [L \in SUBSET rest |-> Solution(S)[L]] = Solution(rest)
  <2> HIDE DEF rest, Solution
  <2> QED  BY <1>2, <1>3, <1>4, SolutionIsUnique
<1>6. Solution(S)[rest] = Solution(rest)[rest]
  <2>1. [L \in SUBSET rest |-> Solution(S)[L]][rest] = Solution(S)[rest]
    OBVIOUS
  <2> HIDE DEF Solution, rest
  <2> QED  BY <1>5, <2>1
<1>7. /\ S = {} => Solution(S)[S] = <<>>
      /\ S # {} => Solution(S)[S] = <<FirstRequest(S)>> \o Solution(S)[rest]
  <2> HIDE DEF Solution
  <2> QED  BY <1>1 DEF Solves
<1>8. CreateReadRanges(S) = Solution(S)[S] /\ CreateReadRanges(rest) = Solution(rest)[rest]
  BY WholeListSolves
<1> QED  BY <1>6, <1>7, <1>8

\* The first request serves exactly what it takes off the list, and more only
\* between the two ends.
LEMMA FirstRequestServes ==
  ASSUME NEW S \in SUBSET Int, IsFiniteSet(S), S # {}
  PROVE  /\ FirstRequest(S) \in ReadType
         /\ \A a \in FirstReadOf(S) : Covers(FirstRequest(S), a)
<1> DEFINE first == Min(S)
           last == Max(FirstReadOf(S))
<1>1. first \in Int /\ \A a \in S : first <= a
  BY FiniteSetHasEnds, MinIsFirst
<1>2. FirstReadOf(S) \in SUBSET Int /\ FirstReadOf(S) \subseteq S /\ first \in FirstReadOf(S)
  BY FirstReadServes
<1>3. IsFiniteSet(FirstReadOf(S))
  BY <1>2, FS_Subset
<1>4. last \in Int /\ \A a \in FirstReadOf(S) : last >= a
  BY <1>2, <1>3, FiniteSetHasEnds, MaxIsLast
<1> HIDE DEF first, last
<1>5. last - first + 1 \in Nat \ {0}
  BY <1>1, <1>2, <1>4
<1>6. FirstRequest(S) = [start |-> first, count |-> last - first + 1]
  BY DEF FirstRequest, Read, first, last
<1>7. \A a \in FirstReadOf(S) : a \in Int /\ first <= a /\ a <= last
  BY <1>1, <1>2, <1>4
<1> QED  BY <1>1, <1>4, <1>5, <1>6, <1>7 DEF ReadType, Covers, Span

\* For every finite set of addresses the list is one of requests, and they cover
\* the set.
WellListed(S) ==
  /\ CreateReadRanges(S) \in Seq(ReadType)
  /\ \A a \in S : \E i \in DOMAIN CreateReadRanges(S) : Covers(CreateReadRanges(S)[i], a)

LEMMA WholeListIsWellListed ==
  ASSUME NEW S \in SUBSET Int, IsFiniteSet(S)
  PROVE  WellListed(S)
<1> DEFINE T == {R \in SUBSET S : ~WellListed(R)}
<1>0. \A R \in T : R \subseteq S
  OBVIOUS
<1>1. SUFFICES ASSUME T # {} PROVE FALSE
  OBVIOUS
<1>2. PICK R \in T : \A Q \in T : Q \subseteq R => Q = R
  <2> HIDE DEF T
  <2> QED  BY <1>0, <1>1, SmallestSubset
<1>3. R \in SUBSET S /\ R \in SUBSET Int /\ IsFiniteSet(R) /\ ~WellListed(R)
  BY <1>2, FS_Subset
<1>4. R # {}
  <2>1. R = {} => CreateReadRanges(R) = <<>>
    BY <1>3, WholeListUnfolds
  <2>2. R = {} => WellListed(R)
    <3>1. <<>> \in Seq(ReadType)
      OBVIOUS
    <3> QED  BY <2>1, <3>1 DEF WellListed
  <2> QED  BY <1>3, <2>2
<1> DEFINE left == R \ FirstReadOf(R)
           others == CreateReadRanges(left)
<1>5. WellListed(left)
  BY <1>2, <1>3, <1>4, FirstReadServes
<1>6. others \in Seq(ReadType)
  BY <1>5 DEF WellListed
<1>7. \A a \in left : \E i \in DOMAIN others : Covers(others[i], a)
  BY <1>5 DEF WellListed
<1> HIDE DEF others
<1> DEFINE all == <<FirstRequest(R)>> \o others
<1>8. FirstRequest(R) \in ReadType /\ \A a \in FirstReadOf(R) : Covers(FirstRequest(R), a)
  BY <1>3, <1>4, FirstRequestServes
<1>9. /\ all \in Seq(ReadType) /\ all[1] = FirstRequest(R)
      /\ DOMAIN all = 1 .. Len(others) + 1 /\ Len(others) \in Nat
      /\ \A i \in DOMAIN others : i \in Nat /\ i + 1 \in DOMAIN all /\ all[i + 1] = others[i]
  <2> HIDE DEF left
  <2> QED  BY <1>6, <1>8
<1>10. CreateReadRanges(R) = all
  BY <1>3, <1>4, WholeListUnfolds DEF others
<1> HIDE DEF all
<1>11. ASSUME NEW a \in R
       PROVE  \E i \in DOMAIN all : Covers(all[i], a)
  <2>1. CASE a \in FirstReadOf(R)
    <3>1. Covers(all[1], a)
      BY <1>8, <1>9, <2>1
    <3>2. 1 \in DOMAIN all
      BY <1>9
    <3> QED  BY <3>1, <3>2
  <2>2. CASE a \in left
    <3>1. PICK i \in DOMAIN others : Covers(others[i], a)
      BY <1>7, <2>2
    <3> QED  BY <1>9, <3>1
  <2> QED  BY <2>1, <2>2
<1>12. WellListed(R)
  BY <1>9, <1>10, <1>11 DEF WellListed
<1> QED  BY <1>3, <1>12

\* The list covers every wanted register in requests for one register or more,
\* which is what the model of the poll assumes of its plan (ReadPlanCovers).
THEOREM WholeListCovers ==
  ASSUME NEW S \in SUBSET Int, IsFiniteSet(S)
  PROVE  /\ CreateReadRanges(S) \in Seq(ReadType)
         /\ \A a \in S : \E i \in DOMAIN CreateReadRanges(S) :
              a \in Span(CreateReadRanges(S)[i].start, CreateReadRanges(S)[i].count)
BY WholeListIsWellListed DEF WellListed, Covers

-------------------------------------------------------------------------------
(***************************************************************************)
(* Each request is one that the adapter and the profile allow.             *)
(***************************************************************************)

\* Why the read that begins at start may not take a in.
Barred(start, a) ==
  \/ is_individual_read(start) \/ is_individual_read(a)
  \/ a >= start + MaxRead
  \/ ~CanExtend([start |-> start, size |-> 1], a)

\* The first read takes in the addresses up to its last one, and is barred from
\* none of them.
LEMMA FirstReadEnds ==
  ASSUME NEW S \in SUBSET Int, IsFiniteSet(S), S # {}
  PROVE  LET first == Min(S)
             last  == Max(FirstReadOf(S))
         IN  /\ first \in FirstReadOf(S) /\ last \in FirstReadOf(S)
             /\ FirstReadOf(S) \subseteq S
             /\ \A a \in FirstReadOf(S) : first <= a /\ a <= last
             /\ \A a \in S \ FirstReadOf(S) : last < a
             /\ \A a \in FirstReadOf(S) \ {first} : ~Barred(first, a)
<1> DEFINE first == Min(S)
           last == Max(FirstReadOf(S))
           barred == {a \in S \ {first} : Barred(first, a)}
<1>1. first \in Int /\ \A a \in S : first <= a
  BY FiniteSetHasEnds, MinIsFirst
<1>2. FirstReadOf(S) \subseteq S /\ first \in FirstReadOf(S) /\ FirstReadOf(S) \in SUBSET Int
  BY FirstReadServes
<1>3. FirstReadOf(S) = {a \in S : \A r \in barred : a < r}
  BY DEF FirstReadOf, Barred
<1>4. last \in FirstReadOf(S) /\ last \in Int /\ \A a \in FirstReadOf(S) : last >= a
  <2>1. IsFiniteSet(FirstReadOf(S)) /\ FirstReadOf(S) # {}
    BY <1>2, FS_Subset
  <2> QED  BY <1>2, <2>1, FiniteSetHasEnds, MaxIsLast
<1> HIDE DEF first, last
<1>5. ASSUME NEW a \in S \ FirstReadOf(S)
      PROVE  last < a
  <2>1. PICK r \in barred : ~(a < r)
    BY <1>3, <1>5
  <2>2. last < r
    BY <1>3, <1>4, <2>1
  <2> QED  BY <1>4, <2>1, <2>2
<1>6. ASSUME NEW a \in FirstReadOf(S) \ {first}
      PROVE  ~Barred(first, a)
  <2>1. a \notin barred
    <3>1. a \in barred => a < a
      BY <1>3, <1>6
    <3> QED  BY <1>2, <1>6, <3>1
  <2> QED  BY <1>2, <1>6, <2>1
<1>7. \A a \in FirstReadOf(S) : first <= a /\ a <= last
  BY <1>1, <1>2, <1>4
<1> QED  BY <1>2, <1>4, <1>5, <1>6, <1>7 DEF first, last

\* A request worth sending when S is wanted.
GoodRequest(S, request) ==
  /\ request.count <= MaxRead
  /\ request.start \in S
  /\ request.start + request.count - 1 \in S
  /\ \A x \in Invalid : ~Covers(request, x)
  /\ \A a \in S \cap Individual : Covers(request, a) => request.count = 1

LEMMA FirstRequestIsGood ==
  ASSUME NEW S \in SUBSET Int, IsFiniteSet(S), S # {}, S \cap Invalid = {}
  PROVE  GoodRequest(S, FirstRequest(S))
<1> DEFINE first == Min(S)
           last == Max(FirstReadOf(S))
           request == FirstRequest(S)
<1>1. /\ first \in FirstReadOf(S) /\ last \in FirstReadOf(S) /\ FirstReadOf(S) \subseteq S
      /\ \A a \in FirstReadOf(S) : first <= a /\ a <= last
      /\ \A a \in S \ FirstReadOf(S) : last < a
      /\ \A a \in FirstReadOf(S) \ {first} : ~Barred(first, a)
  BY FirstReadEnds
<1>2. request.start = first /\ request.count = last - first + 1
  BY DEF FirstRequest, Read
<1> HIDE DEF first, last, request
<1>3. first \in Int /\ last \in Int /\ first <= last /\ first \in S /\ last \in S
  BY <1>1
<1>4. request.count <= MaxRead
  BY <1>1, <1>2, <1>3, ReadRangesAssumption DEF Barred
<1>5. request.start + request.count - 1 = last
  BY <1>2, <1>3
<1>6. ASSUME NEW x \in Invalid, Covers(request, x)
      PROVE  FALSE
  <2>1. x \in Int /\ first <= x /\ x <= last /\ x # first /\ x # last
    BY <1>2, <1>3, <1>6, ReadRangesAssumption DEF Covers, Span
  <2>2. CanExtend([start |-> first, size |-> 1], last)
    BY <1>1, <1>3, <2>1 DEF Barred
  <2>3. last # first + 1
    BY <1>3, <2>1
  <2>4. ~overlaps_invalid_range(first, last - 1)
    BY <2>2, <2>3 DEF CanExtend
  <2> QED  BY <1>3, <2>1, <2>4 DEF overlaps_invalid_range
<1>7. ASSUME NEW a \in S \cap Individual, Covers(request, a)
      PROVE  request.count = 1
  <2>1. a \in Int /\ first <= a /\ a <= last
    BY <1>2, <1>3, <1>7 DEF Covers, Span
  <2>2. a \in FirstReadOf(S)
    BY <1>1, <1>3, <2>1
  <2>3. first = last
    BY <1>1, <1>7, <2>2 DEF Barred, is_individual_read
  <2> QED  BY <1>2, <1>3, <2>3
<1> QED  BY <1>2, <1>3, <1>4, <1>5, <1>6, <1>7 DEF GoodRequest, request

\* The whole list: requests worth sending, in ascending order and apart, that
\* leave out nothing that is wanted.
LegalList(S, list) ==
  /\ list \in Seq(ReadType)
  /\ \A i \in DOMAIN list : GoodRequest(S, list[i])
  /\ \A i, j \in DOMAIN list : i < j => list[i].start + list[i].count <= list[j].start
  /\ \A a \in S : \E i \in DOMAIN list : Covers(list[i], a)

\* The requests of a list follow its first one.
LEMMA ListGrowsLegally ==
  ASSUME NEW S \in SUBSET Int, IsFiniteSet(S), S # {}, S \cap Invalid = {},
         NEW list, LegalList(S \ FirstReadOf(S), list)
  PROVE  LegalList(S, <<FirstRequest(S)>> \o list)
<1> DEFINE first == Min(S)
           last == Max(FirstReadOf(S))
           rest == S \ FirstReadOf(S)
           request == FirstRequest(S)
           all == <<request>> \o list
<1>1. /\ first \in FirstReadOf(S) /\ last \in FirstReadOf(S) /\ FirstReadOf(S) \subseteq S
      /\ \A a \in FirstReadOf(S) : first <= a /\ a <= last
      /\ \A a \in rest : last < a
  BY FirstReadEnds
<1>2. /\ request.start = first /\ request.count = last - first + 1
      /\ GoodRequest(S, request) /\ request \in ReadType
      /\ \A a \in FirstReadOf(S) : Covers(request, a)
  BY FirstRequestIsGood, FirstRequestServes DEF FirstRequest, Read
<1>3. list \in Seq(ReadType)
  BY DEF LegalList
<1> HIDE DEF first, last, request
<1>4. first \in Int /\ last \in Int /\ rest \subseteq S /\ S = rest \cup FirstReadOf(S)
  BY <1>1
<1>5. /\ all \in Seq(ReadType) /\ all[1] = request
      /\ Len(list) \in Nat /\ DOMAIN list = 1 .. Len(list)
      /\ DOMAIN all = 1 .. Len(list) + 1
      /\ \A i \in DOMAIN list : i \in Nat /\ i + 1 \in DOMAIN all /\ all[i + 1] = list[i]
  <2> HIDE DEF rest
  <2> QED  BY <1>2, <1>3
<1>6. \A i \in DOMAIN all : i = 1 \/ (i - 1 \in DOMAIN list /\ all[i] = list[i - 1])
  <2> HIDE DEF all
  <2>1. ASSUME NEW i \in DOMAIN all, i # 1
        PROVE  i - 1 \in DOMAIN list /\ all[i] = list[i - 1]
    <3>1. i \in Int /\ i - 1 \in DOMAIN list /\ i - 1 + 1 = i
      BY <1>5, <2>1
    <3>2. all[i - 1 + 1] = list[i - 1]
      BY <1>5, <3>1
    <3> QED  BY <3>1, <3>2
  <2> QED  BY <2>1
<1> HIDE DEF all, rest
<1>7. ASSUME NEW i \in DOMAIN list
      PROVE  /\ list[i].start \in rest /\ list[i].start \in Int /\ list[i].count \in Nat
             /\ request.start + request.count <= list[i].start
             /\ GoodRequest(S, list[i])
  <2>1. GoodRequest(rest, list[i])
    BY <1>7 DEF LegalList, rest
  <2>2. list[i] \in ReadType
    BY <1>3
  <2>3. list[i].start \in rest /\ list[i].start \in Int /\ list[i].count \in Nat
    BY <2>1, <2>2 DEF GoodRequest, ReadType
  <2>4. last < list[i].start
    BY <1>1, <2>3
  <2>5. \A a \in S \cap Individual : Covers(list[i], a) => list[i].count = 1
    <3>1. \A a \in FirstReadOf(S) : ~Covers(list[i], a)
      BY <1>1, <1>4, <2>3, <2>4 DEF Covers, Span
    <3> QED  BY <1>4, <2>1, <3>1 DEF GoodRequest
  <2>6. GoodRequest(S, list[i])
    BY <1>4, <2>1, <2>5 DEF GoodRequest
  <2> QED  BY <1>2, <1>4, <2>3, <2>4, <2>6
<1>8. \A i \in DOMAIN all : GoodRequest(S, all[i])
  BY <1>2, <1>5, <1>6, <1>7
<1>9. ASSUME NEW i \in DOMAIN all, NEW j \in DOMAIN all, i < j
      PROVE  all[i].start + all[i].count <= all[j].start
  <2>1. j # 1 /\ j - 1 \in DOMAIN list /\ all[j] = list[j - 1] /\ i \in Int /\ j \in Int
    BY <1>5, <1>6, <1>9
  <2>2. CASE i = 1
    BY <1>5, <1>7, <2>1, <2>2
  <2>3. CASE i # 1
    <3>1. i - 1 \in DOMAIN list /\ all[i] = list[i - 1] /\ i - 1 < j - 1
      BY <1>6, <1>9, <2>1, <2>3
    <3> QED  BY <2>1, <3>1 DEF LegalList
  <2> QED  BY <2>2, <2>3
<1>10. ASSUME NEW a \in S
       PROVE  \E i \in DOMAIN all : Covers(all[i], a)
  <2>1. CASE a \in FirstReadOf(S)
    BY <1>2, <1>5, <2>1
  <2>2. CASE a \in rest
    <3>1. PICK i \in DOMAIN list : Covers(list[i], a)
      BY <2>2 DEF LegalList, rest
    <3> QED  BY <1>5, <3>1
  <2> QED  BY <1>4, <2>1, <2>2
<1>11. LegalList(S, all)
  BY <1>5, <1>8, <1>9, <1>10 DEF LegalList
<1> QED  BY <1>11 DEF all, request

\* For every register map, every adapter and every finite set of registers none
\* of which is invalid, the requests are short enough, span nothing invalid,
\* read an individual register alone, begin and end at wanted registers, ascend
\* without overlapping, and leave out nothing (_create_read_ranges).
THEOREM WholeListIsLegal ==
  ASSUME NEW S \in SUBSET Int, IsFiniteSet(S), S \cap Invalid = {}
  PROVE  LegalList(S, CreateReadRanges(S))
<1> DEFINE T == {R \in SUBSET S : ~LegalList(R, CreateReadRanges(R))}
<1>0. \A R \in T : R \subseteq S
  OBVIOUS
<1>1. SUFFICES ASSUME T # {} PROVE FALSE
  OBVIOUS
<1>2. PICK R \in T : \A Q \in T : Q \subseteq R => Q = R
  <2> HIDE DEF T
  <2> QED  BY <1>0, <1>1, SmallestSubset
<1>3. /\ R \in SUBSET S /\ R \in SUBSET Int /\ IsFiniteSet(R) /\ R \cap Invalid = {}
      /\ ~LegalList(R, CreateReadRanges(R))
  BY <1>2, FS_Subset
<1>4. R # {}
  <2>1. R = {} => CreateReadRanges(R) = <<>>
    BY <1>3, WholeListUnfolds
  <2>2. LegalList({}, <<>>)
    BY DEF LegalList
  <2> QED  BY <1>3, <2>1, <2>2
<1> DEFINE rest == R \ FirstReadOf(R)
<1>5. LegalList(rest, CreateReadRanges(rest))
  BY <1>2, <1>3, <1>4, FirstReadServes
<1>6. CreateReadRanges(R) = <<FirstRequest(R)>> \o CreateReadRanges(rest)
  BY <1>3, <1>4, WholeListUnfolds
<1>7. LegalList(R, <<FirstRequest(R)>> \o CreateReadRanges(rest))
  BY <1>3, <1>4, <1>5, ListGrowsLegally
<1> QED  BY <1>3, <1>6, <1>7

-------------------------------------------------------------------------------
(***************************************************************************)
(* No other way of cutting needs fewer requests.                           *)
(***************************************************************************)

\* What any request has to respect when S is wanted: it is short enough, spans
\* nothing invalid, and if it serves an individual register it serves no other.
Allowed(S, request) ==
  /\ request \in ReadType /\ request.count <= MaxRead
  /\ \A x \in Invalid : ~Covers(request, x)
  /\ \A a \in S \cap Individual : \A b \in S : Covers(request, a) /\ Covers(request, b) => a = b

\* A request that serves the first wanted register serves no more than the
\* first read of the list does.
LEMMA FirstReadTakesMost ==
  ASSUME NEW S \in SUBSET Int, IsFiniteSet(S), S # {},
         NEW request, Allowed(S, request), Covers(request, Min(S))
  PROVE  \A a \in S \ FirstReadOf(S) : ~Covers(request, a)
<1> DEFINE first == Min(S)
           barred == {a \in S \ {first} : Barred(first, a)}
<1>1. first \in S /\ first \in Int /\ \A a \in S : first <= a
  BY FiniteSetHasEnds, MinIsFirst
<1>2. FirstReadOf(S) = {a \in S : \A r \in barred : a < r}
  BY DEF FirstReadOf, Barred
<1> HIDE DEF first
<1>3. SUFFICES ASSUME NEW a \in S \ FirstReadOf(S), Covers(request, a)
               PROVE  FALSE
  OBVIOUS
<1>4. PICK r \in barred : ~(a < r)
  BY <1>2, <1>3
<1>5. /\ request.start \in Int /\ request.count \in Nat /\ request.count <= MaxRead
      /\ MaxRead \in Nat
  BY ReadRangesAssumption DEF Allowed, ReadType
<1>6. /\ r \in S /\ r # first /\ first < r /\ r <= a
      /\ Barred(first, r)
  BY <1>1, <1>3, <1>4
<1>7. /\ request.start <= first /\ a <= request.start + request.count - 1
      /\ Covers(request, r) /\ Covers(request, first)
  BY <1>1, <1>3, <1>5, <1>6 DEF Covers, Span, first
<1>8. ~is_individual_read(first) /\ ~is_individual_read(r)
  BY <1>1, <1>6, <1>7 DEF Allowed, is_individual_read
<1>9. r <= first + MaxRead - 1
  BY <1>1, <1>5, <1>6, <1>7
<1>10. ~overlaps_invalid_range(first, r - 1)
  <2>1. ASSUME NEW x \in Invalid, first <= x, x <= r - 1
        PROVE  Covers(request, x)
    BY <2>1, <1>1, <1>5, <1>6, <1>7, ReadRangesAssumption DEF Covers, Span
  <2> QED  BY <2>1 DEF overlaps_invalid_range, Allowed
<1>11. CanExtend([start |-> first, size |-> 1], r)
  BY <1>1, <1>9, <1>10 DEF CanExtend
<1> QED  BY <1>1, <1>5, <1>6, <1>8, <1>9, <1>11 DEF Barred

\* A set of requests that serves all of S.
Serves(S, requests) ==
  /\ IsFiniteSet(requests)
  /\ \A request \in requests : Allowed(S, request)
  /\ \A a \in S : \E request \in requests : Covers(request, a)

NeedsNoMore(S) ==
  \A requests : Serves(S, requests) => Len(CreateReadRanges(S)) <= Cardinality(requests)

\* "Read operations are expensive": for every register map, every adapter and
\* every finite set of registers no allowed requests that serve them all are
\* fewer than those of the list (_create_read_ranges).
THEOREM WholeListIsFewest ==
  ASSUME NEW S \in SUBSET Int, IsFiniteSet(S)
  PROVE  NeedsNoMore(S)
<1> DEFINE T == {R \in SUBSET S : ~NeedsNoMore(R)}
<1>0. \A R \in T : R \subseteq S
  OBVIOUS
<1>1. SUFFICES ASSUME T # {} PROVE FALSE
  OBVIOUS
<1>2. PICK R \in T : \A Q \in T : Q \subseteq R => Q = R
  <2> HIDE DEF T
  <2> QED  BY <1>0, <1>1, SmallestSubset
<1>3. R \in SUBSET S /\ R \in SUBSET Int /\ IsFiniteSet(R) /\ ~NeedsNoMore(R)
  BY <1>2, FS_Subset
<1>4. PICK requests : Serves(R, requests) /\ ~(Len(CreateReadRanges(R)) <= Cardinality(requests))
  BY <1>3 DEF NeedsNoMore
<1>5. Cardinality(requests) \in Nat
  BY <1>4, FS_CardinalityType DEF Serves
<1>6. R # {}
  <2>1. R = {} => CreateReadRanges(R) = <<>>
    BY <1>3, WholeListUnfolds
  <2> QED  BY <1>4, <1>5, <2>1
<1> DEFINE rest == R \ FirstReadOf(R)
           others == CreateReadRanges(rest)
<1>7. NeedsNoMore(rest) /\ rest \subseteq R /\ rest \in SUBSET Int /\ IsFiniteSet(rest)
  <2>1. rest # R /\ rest \subseteq R /\ rest \in SUBSET S
    BY <1>3, <1>6, FirstReadServes
  <2>2. NeedsNoMore(rest)
    BY <1>2, <2>1
  <2> QED  BY <1>3, <2>1, <2>2, FS_Subset
<1>8. PICK request \in requests : Covers(request, Min(R))
  <2>1. Min(R) \in R
    BY <1>3, <1>6, FiniteSetHasEnds, MinIsFirst
  <2> QED  BY <1>4, <2>1 DEF Serves
<1>9. \A a \in rest : ~Covers(request, a)
  <2>1. Allowed(R, request)
    BY <1>4 DEF Serves
  <2> QED  BY <1>3, <1>6, <1>8, <2>1, FirstReadTakesMost
<1>10. others \in Seq(ReadType)
  <2> HIDE DEF rest
  <2> QED  BY <1>7, WholeListIsWellListed DEF WellListed
<1> HIDE DEF rest
<1>11. Serves(rest, requests \ {request})
  <2>1. IsFiniteSet(requests \ {request})
    BY <1>4, FS_Subset DEF Serves
  <2>2. \A q \in requests : Allowed(rest, q)
    BY <1>4, <1>7 DEF Serves, Allowed
  <2>3. \A a \in rest : \E q \in requests \ {request} : Covers(q, a)
    BY <1>4, <1>7, <1>9 DEF Serves
  <2> QED  BY <2>1, <2>2, <2>3 DEF Serves
<1>12. Len(others) <= Cardinality(requests \ {request})
  BY <1>7, <1>11 DEF NeedsNoMore
<1>13. Cardinality(requests \ {request}) = Cardinality(requests) - 1
  BY <1>4, <1>8, FS_RemoveElement DEF Serves
<1>14. Len(CreateReadRanges(R)) = Len(others) + 1
  <2>1. CreateReadRanges(R) = <<FirstRequest(R)>> \o others
    BY <1>3, <1>6, WholeListUnfolds DEF rest
  <2>2. FirstRequest(R) \in ReadType
    BY <1>3, <1>6, FirstRequestServes
  <2> HIDE DEF others
  <2> QED  BY <1>10, <2>1, <2>2
<1>15. Len(others) \in Nat
  <2> HIDE DEF others
  <2> QED  BY <1>10
<1> QED  BY <1>4, <1>5, <1>12, <1>13, <1>14, <1>15

-------------------------------------------------------------------------------
(***************************************************************************)
(* Which neighbouring registers are read together.                         *)
(***************************************************************************)

\* A read that begins at one of these is full between start and the last of
\* the count registers there.
Cuts(start, count) == start - MaxRead + 1 .. start - MaxRead + count - 1

Together(list, start, count) ==
  \E i \in DOMAIN list : \A w \in Span(start, count) : Covers(list[i], w)

\* The first read takes all of them or none.
LEMMA FirstReadTakesAll ==
  ASSUME NEW S \in SUBSET Int, IsFiniteSet(S), S \cap Invalid = {},
         NEW start \in Int, NEW count \in Nat, Span(start, count) \subseteq S,
         Span(start, count) \cap Individual = {},
         S \cap Cuts(start, count) = {},
         start \in FirstReadOf(S)
  PROVE  Span(start, count) \subseteq FirstReadOf(S)
<1> DEFINE first == Min(S)
           barred == {a \in S \ {first} : Barred(first, a)}
<1>1. FirstReadOf(S) = {a \in S : \A r \in barred : a < r}
  BY DEF FirstReadOf, Barred
<1>2. start \in S /\ S # {}
  BY <1>1
<1>3. first \in S /\ first \in Int /\ \A a \in S : first <= a
  BY <1>2, FiniteSetHasEnds, MinIsFirst
<1> HIDE DEF first
<1>4. SUFFICES ASSUME NEW w \in Span(start, count), NEW r \in barred, ~(w < r)
               PROVE  FALSE
  BY <1>1
<1>5. MaxRead \in Nat \ {0}
  BY ReadRangesAssumption
<1>6. /\ w \in Int /\ r \in Int /\ start < r /\ r <= w /\ w <= start + count - 1
      /\ first <= start /\ r \in S /\ r # first /\ Barred(first, r)
  BY <1>1, <1>3, <1>4 DEF Span
<1>7. r \in Span(start, count) /\ start \in Span(start, count)
  BY <1>6 DEF Span
<1>8. start = first \/ (start # first /\ ~Barred(first, start))
  <2>1. start \in barred => start < start
    BY <1>1
  <2> QED  BY <1>2, <2>1
<1>9. ~is_individual_read(first) /\ ~is_individual_read(r)
  <2>1. ~is_individual_read(start) /\ ~is_individual_read(r)
    BY <1>7 DEF is_individual_read
  <2> QED  BY <1>8, <2>1 DEF Barred
<1>10. r < first + MaxRead
  <2>1. start < first + MaxRead
    BY <1>3, <1>5, <1>6, <1>8 DEF Barred
  <2>2. first \notin start - MaxRead + 1 .. start - MaxRead + count - 1
    BY <1>3 DEF Cuts
  <2>3. start + count - 1 < first + MaxRead
    BY <1>3, <1>5, <2>1, <2>2
  <2> QED  BY <1>3, <1>5, <1>6, <2>3
<1>11. ~overlaps_invalid_range(first, r - 1)
  <2>1. SUFFICES ASSUME NEW x \in Invalid, first <= x, x <= r - 1
                 PROVE  FALSE
    BY DEF overlaps_invalid_range
  <2>2. x \in Int /\ x \notin S
    BY ReadRangesAssumption
  <2>3. x < start
    <3>1. ~(start <= x)
      <4>1. start <= x => x \in Span(start, count)
        BY <1>6, <2>1, <2>2 DEF Span
      <4> QED  BY <2>2, <4>1
    <3> QED  BY <2>2, <3>1
  <2>4. start # first /\ CanExtend([start |-> first, size |-> 1], start)
    BY <1>3, <1>8, <2>1, <2>2, <2>3 DEF Barred
  <2>5. start # first + 1
    BY <1>3, <2>1, <2>2, <2>3
  <2>6. ~overlaps_invalid_range(first, start - 1)
    BY <2>4, <2>5 DEF CanExtend
  <2> QED  BY <2>1, <2>2, <2>3, <2>6 DEF overlaps_invalid_range
<1>12. CanExtend([start |-> first, size |-> 1], r)
  BY <1>3, <1>5, <1>6, <1>10, <1>11 DEF CanExtend
<1> QED  BY <1>3, <1>5, <1>6, <1>9, <1>10, <1>12 DEF Barred

\* Neighbouring registers, none of them individual, are read in one request
\* unless some wanted register lies just so far before them that a read which
\* begins there is full in their midst: no other register matters.  This is what
\* keeps the words of a value together, which _create_read_ranges knows nothing
\* of.
THEOREM WordsAreReadTogether ==
  ASSUME NEW S \in SUBSET Int, IsFiniteSet(S), S \cap Invalid = {},
         NEW start \in Int, NEW count \in Nat \ {0}, Span(start, count) \subseteq S,
         Span(start, count) \cap Individual = {},
         S \cap Cuts(start, count) = {}
  PROVE  Together(CreateReadRanges(S), start, count)
<1> DEFINE W == Span(start, count)
           T == {R \in SUBSET S : W \subseteq R /\ ~Together(CreateReadRanges(R), start, count)}
<1>0. \A R \in T : R \subseteq S
  OBVIOUS
<1>1. SUFFICES ASSUME T # {} PROVE FALSE
  OBVIOUS
<1>2. PICK R \in T : \A Q \in T : Q \subseteq R => Q = R
  <2> HIDE DEF T
  <2> QED  BY <1>0, <1>1, SmallestSubset
<1>3. /\ R \in SUBSET S /\ R \in SUBSET Int /\ IsFiniteSet(R)
      /\ R \cap Invalid = {} /\ R \cap Cuts(start, count) = {}
      /\ W \subseteq R /\ ~Together(CreateReadRanges(R), start, count)
  BY <1>2, FS_Subset
<1>4. start \in W /\ \A w \in W : w \in Int /\ start <= w
  BY DEF Span
<1> DEFINE rest == R \ FirstReadOf(R)
           others == CreateReadRanges(rest)
           all == <<FirstRequest(R)>> \o others
<1>5. R # {} /\ FirstReadOf(R) \subseteq R /\ rest # R /\ rest \in SUBSET Int /\ IsFiniteSet(rest)
  BY <1>3, <1>4, FirstReadServes, FS_Subset
<1>6. CreateReadRanges(R) = all
  BY <1>3, <1>5, WholeListUnfolds
<1>7. others \in Seq(ReadType)
  <2> HIDE DEF rest
  <2> QED  BY <1>5, WholeListIsWellListed DEF WellListed
<1>8. /\ FirstRequest(R) \in ReadType
      /\ \A a \in FirstReadOf(R) : Covers(FirstRequest(R), a)
  BY <1>3, <1>5, FirstRequestServes
<1>9. /\ 1 \in DOMAIN all /\ all[1] = FirstRequest(R)
      /\ \A i \in DOMAIN others : i + 1 \in DOMAIN all /\ all[i + 1] = others[i]
  <2> HIDE DEF others
  <2> QED  BY <1>7, <1>8
<1>10. CASE start \in FirstReadOf(R)
  <2>1. W \subseteq FirstReadOf(R)
    BY <1>3, <1>10, FirstReadTakesAll
  <2>2. \A w \in W : Covers(all[1], w)
    BY <1>8, <1>9, <2>1
  <2> HIDE DEF all, W
  <2> QED  BY <1>3, <1>6, <1>9, <2>2 DEF Together, W
<1>11. CASE start \notin FirstReadOf(R)
  <2>1. W \subseteq rest
    <3>1. \A a \in FirstReadOf(R) : a <= Max(FirstReadOf(R))
      BY <1>3, <1>5, FirstReadEnds
    <3>2. Max(FirstReadOf(R)) < start /\ Max(FirstReadOf(R)) \in Int
      BY <1>3, <1>4, <1>5, <1>11, FirstReadEnds
    <3>3. \A w \in W : w \notin FirstReadOf(R)
      BY <1>4, <3>1, <3>2
    <3> QED  BY <1>3, <3>3
  <2>2. Together(others, start, count)
    BY <1>2, <1>3, <1>5, <2>1
  <2>3. PICK i \in DOMAIN others : \A w \in Span(start, count) : Covers(others[i], w)
    BY <2>2 DEF Together
  <2> HIDE DEF all, others
  <2>4. Together(all, start, count)
    BY <1>9, <2>3 DEF Together
  <2> QED  BY <1>3, <1>6, <2>4
<1> QED  BY <1>10, <1>11

-------------------------------------------------------------------------------
(***************************************************************************)
(* The poll sees the requests as the sets of registers that they return.   *)
(***************************************************************************)

SpansOf(list) == [i \in DOMAIN list |-> Span(list[i].start, list[i].count)]

\* With the registers of an inverter, those left out that are invalid, as
\* Address, and the spans of the list as ReadPlan, what the model of the poll
\* assumes of its plan holds: ReadPlanAssumption, ReadPlanCovers, ReadPlanIsFinite.
THEOREM ListIsReadPlan ==
  ASSUME NEW low \in Int, NEW high \in Int, NEW S \in SUBSET ((low .. high) \ Invalid)
  PROVE  LET plan == SpansOf(CreateReadRanges(S))
         IN  /\ plan \in Seq(SUBSET ((low .. high) \ Invalid))
             /\ \A a \in S : \E i \in DOMAIN plan : a \in plan[i]
             /\ \A i \in DOMAIN plan : IsFiniteSet(plan[i])
<1> DEFINE list == CreateReadRanges(S)
           plan == SpansOf(list)
           Address == (low .. high) \ Invalid
<1>1. /\ S \in SUBSET Int /\ IsFiniteSet(S) /\ S \cap Invalid = {}
      /\ \A a \in S : low <= a /\ a <= high
  <2>1. S \subseteq low .. high /\ S \cap Invalid = {}
    OBVIOUS
  <2>2. IsFiniteSet(S)
    BY <2>1, FS_Interval, FS_Subset
  <2>3. \A a \in S : a \in Int /\ low <= a /\ a <= high
    BY <2>1
  <2> QED  BY <2>1, <2>2, <2>3
<1>2. LegalList(S, list)
  BY <1>1, WholeListIsLegal
<1> HIDE DEF list
<1>3. list \in Seq(ReadType)
  BY <1>2 DEF LegalList
<1>4. ASSUME NEW i \in DOMAIN list
      PROVE  plan[i] \in SUBSET Address
  <2>1. /\ list[i].start \in S /\ list[i].start + list[i].count - 1 \in S
        /\ \A x \in Invalid : ~Covers(list[i], x)
    BY <1>2 DEF LegalList, GoodRequest
  <2>2. plan[i] = Span(list[i].start, list[i].count)
    BY DEF SpansOf
  <2>3. list[i].start \in Int /\ list[i].count \in Int
    <3>1. list[i] \in ReadType
      BY <1>3
    <3> QED  BY <3>1 DEF ReadType
  <2>4. ASSUME NEW x \in Span(list[i].start, list[i].count)
        PROVE  x \in low .. high
    <3>1. x \in Int /\ list[i].start <= x /\ x <= list[i].start + list[i].count - 1
      BY <2>3 DEF Span
    <3>2. low <= list[i].start /\ list[i].start + list[i].count - 1 <= high
      BY <1>1, <2>1
    <3> QED  BY <2>3, <3>1, <3>2
  <2> QED  BY <2>1, <2>2, <2>4 DEF Covers
<1>5. plan \in Seq(SUBSET Address)
  <2>1. Len(list) \in Nat /\ DOMAIN list = 1 .. Len(list)
    BY <1>3
  <2>2. plan \in [1 .. Len(list) -> SUBSET Address]
    BY <1>4, <2>1 DEF SpansOf
  <2> HIDE DEF plan, Address
  <2> QED  BY <2>1, <2>2, SeqDef
<1>6. \A a \in S : \E i \in DOMAIN plan : a \in plan[i]
  BY <1>2 DEF LegalList, Covers, SpansOf
<1>7. \A i \in DOMAIN plan : IsFiniteSet(plan[i])
  <2>1. DOMAIN plan = DOMAIN list /\ IsFiniteSet(low .. high)
    BY FS_Interval DEF SpansOf
  <2>2. \A i \in DOMAIN plan : plan[i] \subseteq low .. high
    BY <1>4, <2>1
  <2> HIDE DEF plan
  <2> QED  BY <2>1, <2>2, FS_Subset
<1> QED  BY <1>5, <1>6, <1>7 DEF list
===============================================================================
