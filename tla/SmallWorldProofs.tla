-------------------------- MODULE SmallWorldProofs --------------------------
(***************************************************************************)
(* Greedy routing in the small world, for every number of ranks and every  *)
(* graph the draws can give: the next hop is the neighbour closest to the  *)
(* destination, and closer to it than the rank itself.                     *)
(***************************************************************************)
EXTENDS SmallWorld, FiniteSetTheorems, WellFoundedInduction, TLAPS

\* A set of natural numbers has a minimum.
LEMMA MinOfNaturals ==
  ASSUME NEW S \in SUBSET Nat, S # {}
  PROVE  Min(S) \in S /\ \A y \in S : Min(S) <= y
<1>1. PICK x \in S : \A y \in S : ~ (<<y, x>> \in OpToRel(<, Nat))
  BY NatLessThanWellFounded, WFMin
<1>2. ASSUME NEW y \in S PROVE x <= y
  <2>1. ~ (<<y, x>> \in OpToRel(<, Nat))
    BY <1>1
  <2>2. ~ (y < x)
    BY <2>1 DEF OpToRel
  <2>. QED BY <2>2
<1>. QED BY <1>1, <1>2 DEF Min

\* A bounded set of natural numbers has a maximum.
LEMMA MaxOfRanks ==
  ASSUME NEW n \in Nat, NEW S \in SUBSET (0 .. n), S # {}
  PROVE  Max(S) \in S /\ \A y \in S : Max(S) >= y
<1>. DEFINE T == {n - y : y \in S}
<1>1. T \in SUBSET Nat /\ T # {}
  OBVIOUS
<1>2. Min(T) \in T /\ \A z \in T : Min(T) <= z
  BY <1>1, MinOfNaturals
<1>3. PICK x \in S : Min(T) = n - x
  BY <1>2
<1>4. ASSUME NEW y \in S PROVE x >= y
  <2>1. n - x <= n - y
    BY <1>2, <1>3
  <2>. QED BY <2>1
<1>. QED BY <1>3, <1>4 DEF Max

\* The two ends of an edge of the ring, without modulo
LEMMA RingEnds ==
  ASSUME NEW r \in Rank
  PROVE  /\ (r + 1) % NbRanks = IF r = NbRanks - 1 THEN 0 ELSE r + 1
         /\ (r + NbRanks - 1) % NbRanks = IF r = 0 THEN NbRanks - 1 ELSE r - 1
  BY RankAssumption DEF Rank

\* The distance is symmetric and a natural number.
LEMMA DistanceFacts ==
  ASSUME NEW x \in Rank, NEW y \in Rank
  PROVE  Distance(x, y) \in Nat /\ Distance(x, y) = Distance(y, x)
  BY RankAssumption DEF Distance, Least, Abs, Rank

\* From any other rank, one of the two neighbours on the ring is closer to d.
LEMMA RingIsCloser ==
  ASSUME NEW r \in Rank, NEW d \in Rank, r # d, NEW N, RingIn(N, r)
  PROVE  \E m \in N \cap Rank : Distance(m, d) < Distance(r, d)
<1>. DEFINE up   == IF r = NbRanks - 1 THEN 0 ELSE r + 1
            down == IF r = 0 THEN NbRanks - 1 ELSE r - 1
<1>1. up \in N \cap Rank /\ down \in N \cap Rank
  BY RingEnds, RankAssumption DEF RingIn, Rank
<1>2. Distance(up, d) < Distance(r, d) \/ Distance(down, d) < Distance(r, d)
  BY RankAssumption DEF Distance, Least, Abs, Rank
<1>. QED BY <1>1, <1>2

-----------------------------------------------------------------------------
\* The candidates are neighbours, and none of the others is closer to d than
\* all of them.
LEMMA CandidatesSuffice ==
  ASSUME NEW src \in Rank, NEW d \in Rank,
         neighbors[src] \in SUBSET Rank, neighbors[src] # {}
  PROVE  /\ Candidates(src, d) \in [1 .. 4 -> neighbors[src]]
         /\ \A m \in neighbors[src] : \E k \in 1 .. 4 :
              Distance(d, Candidates(src, d)[k]) <= Distance(d, m)
<1>. DEFINE N    == neighbors[src]
            low  == Min(N)
            high == Max(N)
<1>1. N \in SUBSET Nat /\ N \in SUBSET (0 .. NbRanks - 1) /\ NbRanks - 1 \in Nat
  BY RankAssumption DEF Rank
<1>2. low \in N /\ \A y \in N : low <= y
  BY <1>1, MinOfNaturals
<1>3. high \in N /\ \A y \in N : high >= y
  BY <1>1, MaxOfRanks
<1>4. CASE ~ \E m \in N : m >= d
  <2>1. Candidates(src, d) = <<high, high, low, high>>
    BY <1>4 DEF Candidates
  <2>2. ASSUME NEW m \in N
        PROVE  Distance(d, high) <= Distance(d, m) \/ Distance(d, low) <= Distance(d, m)
    <3>1. low <= m /\ m <= high /\ high < d
      BY <1>1, <1>2, <1>3, <1>4 DEF Rank
    <3>. QED BY <3>1, <1>1, <1>2, <1>3, RankAssumption DEF Distance, Least, Abs, Rank
  <2>. QED BY <2>1, <2>2, <1>2, <1>3
<1>5. CASE \E m \in N : m >= d
  <2>. DEFINE upper == LowerBound(src, d)
              lower == IF upper = low THEN upper ELSE Max({m \in N : m < upper})
  <2>1. upper \in N /\ upper >= d /\ \A y \in N : y >= d => upper <= y
    <3>1. {m \in N : m >= d} \in SUBSET Nat /\ {m \in N : m >= d} # {}
      BY <1>1, <1>5
    <3>2. upper = Min({m \in N : m >= d})
      BY <1>5 DEF LowerBound
    <3>. QED BY <3>1, <3>2, MinOfNaturals
  <2>2. lower \in N /\ (upper # low => lower < upper /\ \A y \in N : y < upper => y <= lower)
    <3>1. CASE upper = low
      BY <3>1, <1>2
    <3>2. CASE upper # low
      <4>1. low \in {m \in N : m < upper}
        BY <3>2, <1>1, <1>2, <2>1
      <4>2. {m \in N : m < upper} \in SUBSET (0 .. NbRanks - 1)
        BY <1>1
      <4>. HIDE DEF upper
      <4>3. /\ Max({m \in N : m < upper}) \in {m \in N : m < upper}
            /\ \A y \in {m \in N : m < upper} : Max({m \in N : m < upper}) >= y
        BY <4>1, <4>2, <1>1, MaxOfRanks
      <4>. QED BY <3>2, <4>3, <1>1
    <3>. QED BY <3>1, <3>2
  <2>3. Candidates(src, d) = <<upper, lower, low, high>>
    BY <1>5 DEF Candidates
  <2>. HIDE DEF upper, lower
  <2>4. ASSUME NEW m \in N
        PROVE  \/ Distance(d, upper) <= Distance(d, m)
               \/ Distance(d, lower) <= Distance(d, m)
               \/ Distance(d, low) <= Distance(d, m)
               \/ Distance(d, high) <= Distance(d, m)
    <3>1. low <= m /\ m <= high
      BY <1>2, <1>3
    <3>2. CASE m >= d
      <4>1. d <= upper /\ upper <= m
        BY <3>2, <2>1
      <4>. QED BY <3>1, <4>1, <1>1, <1>2, <1>3, <2>1, RankAssumption
               DEF Distance, Least, Abs, Rank
    <3>3. CASE m < d
      <4>1. upper # low
        BY <3>1, <3>3, <2>1, <1>1, <1>2 DEF Rank
      <4>2. m <= lower /\ lower < d
        <5>1. lower \in N /\ lower < upper /\ \A y \in N : y < upper => y <= lower
          BY <4>1, <2>2
        <5>2. m < upper
          BY <3>3, <2>1, <1>1 DEF Rank
        <5>3. ~ (lower >= d)
          BY <5>1, <2>1, <1>1 DEF Rank
        <5>. QED BY <5>1, <5>2, <5>3, <1>1 DEF Rank
      <4>3. low \in Rank /\ lower \in Rank /\ m \in Rank
        BY <1>2, <2>2
      <4>. QED BY <3>1, <4>2, <4>3, RankAssumption DEF Distance, Least, Abs, Rank
    <3>. QED BY <3>2, <3>3, <1>1 DEF Rank
  <2>. QED BY <2>1, <2>2, <2>3, <2>4, <1>2, <1>3
<1>. QED BY <1>4, <1>5

\* The next hop is a rank; it is the destination or a neighbour, and no
\* neighbour is closer to the destination.
LEMMA NextHopIsNearest ==
  ASSUME NEW src \in Rank, NEW d \in Rank,
         neighbors[src] \in SUBSET Rank, neighbors[src] # {}
  PROVE  /\ NextHop(src, d) \in Rank
         /\ LowerBound(src, d) # d => NextHop(src, d) \in neighbors[src]
         /\ \A m \in neighbors[src] : Distance(NextHop(src, d), d) <= Distance(m, d)
<1>1. CASE LowerBound(src, d) = d
  <2>1. NextHop(src, d) = d
    BY <1>1 DEF NextHop
  <2>2. Distance(d, d) = 0
    BY RankAssumption DEF Distance, Least, Abs, Rank
  <2>3. \A m \in neighbors[src] : 0 <= Distance(m, d)
    BY DistanceFacts
  <2>. QED BY <1>1, <2>1, <2>2, <2>3
<1>2. CASE LowerBound(src, d) # d
  <2>. DEFINE c     == Candidates(src, d)
              D(k)  == Distance(d, c[k])
              close == {k \in DOMAIN c : \A l \in DOMAIN c : Distance(d, c[k]) <= Distance(d, c[l])}
  <2>1. /\ c \in [1 .. 4 -> neighbors[src]]
        /\ \A m \in neighbors[src] : \E k \in 1 .. 4 : D(k) <= Distance(d, m)
    BY CandidatesSuffice
  <2>2. \A k \in 1 .. 4 : c[k] \in Rank
    BY <2>1
  <2>. HIDE DEF c
  <2>3. \A k \in 1 .. 4 : D(k) \in Nat
    BY <2>2, DistanceFacts
  <2>4. \E k \in 1 .. 4 : \A l \in 1 .. 4 : D(k) <= D(l)
    <3>. HIDE DEF D
    <3>1. D(1) \in Nat /\ D(2) \in Nat /\ D(3) \in Nat /\ D(4) \in Nat
      BY <2>3
    <3>2. \A l \in 1 .. 4 : l = 1 \/ l = 2 \/ l = 3 \/ l = 4
      OBVIOUS
    <3>3. ASSUME NEW k \in 1 .. 4, D(k) <= D(1), D(k) <= D(2), D(k) <= D(3), D(k) <= D(4)
          PROVE  \A l \in 1 .. 4 : D(k) <= D(l)
      BY <3>2, <3>3
    <3>4. \E k \in {1, 2, 3, 4} : D(k) <= D(1) /\ D(k) <= D(2) /\ D(k) <= D(3) /\ D(k) <= D(4)
      BY <3>1
    <3>. QED BY <3>3, <3>4
  <2>5. close \in SUBSET Nat /\ close # {}
    BY <2>1, <2>4
  <2>6. Min(close) \in close
    BY <2>5, MinOfNaturals
  <2>7. NextHop(src, d) = c[Min(close)]
    BY <1>2 DEF NextHop, c
  <2>8. Min(close) \in 1 .. 4 /\ \A l \in 1 .. 4 : D(Min(close)) <= D(l)
    BY <2>1, <2>6
  <2>. HIDE DEF close
  <2>9. NextHop(src, d) \in neighbors[src]
    BY <2>1, <2>7, <2>8
  <2>10. ASSUME NEW m \in neighbors[src] PROVE Distance(NextHop(src, d), d) <= Distance(m, d)
    <3>1. PICK k \in 1 .. 4 : D(k) <= Distance(d, m)
      BY <2>1
    <3>2. D(Min(close)) <= D(k) /\ D(k) \in Nat /\ D(Min(close)) \in Nat
      BY <2>3, <2>8
    <3>3. Distance(d, m) \in Nat /\ Distance(d, m) = Distance(m, d)
      BY DistanceFacts
    <3>4. D(Min(close)) = Distance(NextHop(src, d), d)
      BY <2>7, <2>9, DistanceFacts
    <3>. HIDE DEF D
    <3>. QED BY <3>1, <3>2, <3>3, <3>4
  <2>. QED BY <2>9, <2>10
<1>. QED BY <1>1, <1>2

-----------------------------------------------------------------------------
(* The graph *)

\* Drawn is a rank, although the sum may wrap.
LEMMA DrawnIsRank ==
  ASSUME a \in Rank, NEW distance \in 1 .. NbRanks, NEW sign \in {-1, 1}
  PROVE  Drawn(distance, sign) \in Rank
<1>1. \A x \in Int : x % NbRanks \in Rank
  BY RankAssumption DEF Rank
<1>2. Wrap \in Int
  <2>1. \A x \in Int : Square(x) \in Int
    BY <1>1 DEF Square, Rank
  <2>. QED BY <2>1 DEF Wrap
<1>3. (Wrap + NbRanks + a - distance) % NbRanks \in Rank /\ (a + distance) % NbRanks \in Rank
  BY <1>1, <1>2, RankAssumption DEF Rank
<1>4. a >= distance => a - distance \in Rank
  BY RankAssumption DEF Rank
<1>. QED BY <1>3, <1>4 DEF Drawn

\* Routing begins when the graph is built.
BuiltFirst == at # dest => a = NbRanks

GraphInv == TypeOK /\ RingKept /\ NoOneWayEdge /\ BuiltFirst

\* The graph's invariant is inductive.
LEMMA GraphInit == Init => GraphInv
<1>. SUFFICES ASSUME Init PROVE GraphInv
  OBVIOUS
<1>1. TypeOK
  BY RankAssumption, ReachAssumption DEF Init, TypeOK, LocalNeighbors, Rank
<1>2. NoOneWayEdge
  BY DEF Init, NoOneWayEdge, LocalNeighbors
<1>3. ASSUME NEW r \in Rank PROVE RingIn(neighbors[r], r)
  <2>. DEFINE up   == (r + 1) % NbRanks
              down == (r + NbRanks - 1) % NbRanks
  <2>1. up \in Rank /\ down \in Rank
    BY RingEnds, RankAssumption DEF Rank
  <2>2. r = (down + 1) % NbRanks
    BY <2>1, RingEnds, RankAssumption DEF Rank
  <2>3. 1 \in 1 .. LocalReach
    BY ReachAssumption, RankAssumption
  <2>. HIDE DEF up, down
  <2>4. up \in LocalNeighbors[r]
    BY <2>1, <2>3 DEF LocalNeighbors, up
  <2>5. down \in LocalNeighbors[r]
    BY <2>1, <2>2, <2>3 DEF LocalNeighbors
  <2>. QED BY <2>4, <2>5 DEF Init, RingIn, up, down
<1>4. BuiltFirst
  BY DEF Init, BuiltFirst
<1>. QED BY <1>1, <1>2, <1>3, <1>4 DEF GraphInv, RingKept

LEMMA GraphNext == GraphInv /\ [Next]_vars => GraphInv'
<1>. SUFFICES ASSUME GraphInv, [Next]_vars PROVE GraphInv'
  OBVIOUS
<1>. USE DEF GraphInv
<1>1. ASSUME NEW distance \in 1 .. NbRanks, NEW sign \in {-1, 1},
             AddRandomNeighbor(distance, sign)
      PROVE  GraphInv'
  <2>. DEFINE b == Drawn(distance, sign)
  <2>1. a \in Rank
    BY <1>1, RankAssumption DEF AddRandomNeighbor, TypeOK, Rank
  <2>2. b \in Rank
    BY <2>1, DrawnIsRank
  <2>3. neighbors' = [r \in Rank |-> neighbors[r] \cup (IF r = a THEN {b} ELSE {})
                                                  \cup (IF r = b THEN {a} ELSE {})]
    BY <1>1 DEF AddRandomNeighbor, Link
  <2>. HIDE DEF b
  <2>4. neighbors' \in [Rank -> SUBSET Rank] /\ \A r \in Rank : neighbors[r] \subseteq neighbors'[r]
    BY <2>1, <2>2, <2>3 DEF TypeOK
  <2>5. i' \in 0 .. Degree /\ a' = a /\ at' = at /\ dest' = dest
    BY <1>1, ReachAssumption DEF AddRandomNeighbor, TypeOK
  <2>6. TypeOK'
    BY <2>4, <2>5 DEF TypeOK
  <2>7. RingKept'
    BY <2>4 DEF RingKept, RingIn
  <2>8. NoOneWayEdge'
    BY <2>1, <2>2, <2>3 DEF NoOneWayEdge
  <2>9. BuiltFirst'
    BY <2>5 DEF BuiltFirst
  <2>. QED BY <2>6, <2>7, <2>8, <2>9
<1>2. CASE NextRank
  BY <1>2, RankAssumption, ReachAssumption DEF NextRank, TypeOK, RingKept, NoOneWayEdge, BuiltFirst, Rank
<1>3. ASSUME NEW src \in Rank, NEW d \in Rank, Send(src, d) PROVE GraphInv'
  BY <1>3 DEF Send, TypeOK, RingKept, NoOneWayEdge, BuiltFirst
<1>4. CASE Hop
  <2>1. neighbors[at] \in SUBSET Rank /\ neighbors[at] # {}
    BY DEF TypeOK, RingKept, RingIn
  <2>2. at' \in Rank
    BY <1>4, <2>1, NextHopIsNearest DEF Hop, TypeOK
  <2>. QED BY <1>4, <2>2 DEF Hop, TypeOK, RingKept, NoOneWayEdge, BuiltFirst
<1>5. CASE UNCHANGED vars
  BY <1>5 DEF vars, TypeOK, RingKept, NoOneWayEdge, BuiltFirst
<1>. QED BY <1>1, <1>2, <1>3, <1>4, <1>5 DEF Next

\* The variables keep their types: neighbours are ranks, whatever is drawn.
THEOREM TypeCorrect == Spec => []TypeOK
<1>1. GraphInv => TypeOK
  BY DEF GraphInv
<1>. QED BY <1>1, GraphInit, GraphNext, PTL DEF Spec

\* No edge of the graph has one direction only.
THEOREM EdgesHaveTwoEnds == Spec => []NoOneWayEdge
<1>1. GraphInv => NoOneWayEdge
  BY DEF GraphInv
<1>. QED BY <1>1, GraphInit, GraphNext, PTL DEF Spec

\* The four candidates of get_closest_neighbor suffice: no neighbour is closer
\* to the destination than the next hop.
THEOREM NearestIsFound == Spec => []HopIsNearest
<1>1. GraphInv => HopIsNearest
  <2>. SUFFICES ASSUME GraphInv PROVE HopIsNearest
    OBVIOUS
  <2>1. at \in Rank /\ dest \in Rank /\ neighbors[at] \in SUBSET Rank /\ neighbors[at] # {}
    BY DEF GraphInv, TypeOK, RingKept, RingIn
  <2>. QED BY <2>1, NextHopIsNearest DEF HopIsNearest
<1>. QED BY <1>1, GraphInit, GraphNext, PTL DEF Spec

\* What is read at end() is mistaken for the destination only if the rank is
\* its own neighbour: the neighbours of another rank are fewer.
LEMMA EndIsNotTaken ==
  ASSUME NEW src \in Rank, NEW d \in Rank, src # d, neighbors[src] \in SUBSET Rank,
         RingIn(neighbors[src], src), src \notin neighbors[src], LowerBound(src, d) = d
  PROVE  d \in neighbors[src]
<1>. DEFINE N == neighbors[src]
<1>1. CASE \E m \in N : m >= d
  <2>1. {m \in N : m >= d} \in SUBSET Nat /\ {m \in N : m >= d} # {}
    BY <1>1, RankAssumption DEF Rank
  <2>2. Min({m \in N : m >= d}) = d
    BY <1>1 DEF LowerBound
  <2>. QED BY <2>1, <2>2, MinOfNaturals
<1>2. CASE ~ \E m \in N : m >= d
  <2>1. Cardinality(N) = d
    BY <1>2 DEF LowerBound
  <2>2. src < d
    <3>1. CASE src > d
      <4>1. src - 1 \in N
        BY <3>1, RingEnds, RankAssumption DEF RingIn, Rank
      <4>. QED BY <3>1, <4>1, <1>2, RankAssumption DEF Rank
    <3>. QED BY <3>1, RankAssumption DEF Rank
  <2>3. d \in Nat /\ src \in 0 .. d - 1
    BY <2>2, RankAssumption DEF Rank
  <2>4. IsFiniteSet(0 .. d - 1) /\ Cardinality(0 .. d - 1) = d
    <3>1. 0 \in Int /\ d - 1 \in Int /\ ~ (0 > d - 1) /\ (d - 1) - 0 + 1 = d
      BY <2>3
    <3>2. /\ IsFiniteSet(0 .. d - 1)
          /\ Cardinality(0 .. d - 1) = IF 0 > d - 1 THEN 0 ELSE (d - 1) - 0 + 1
      BY <3>1, FS_Interval
    <3>. QED BY <3>1, <3>2
  <2>5. /\ IsFiniteSet((0 .. d - 1) \ {src})
        /\ Cardinality((0 .. d - 1) \ {src}) = d - 1
    <3>. DEFINE S == 0 .. d - 1
    <3>1. src \in S /\ IsFiniteSet(S) /\ Cardinality(S) = d
      BY <2>3, <2>4
    <3>. HIDE DEF S
    <3>2. IsFiniteSet(S \ {src}) /\ Cardinality(S \ {src}) = Cardinality(S) - 1
      BY <3>1, FS_RemoveElement
    <3>. QED BY <3>1, <3>2 DEF S
  <2>6. N \in SUBSET ((0 .. d - 1) \ {src})
    BY <1>2, RankAssumption DEF Rank
  <2>7. Cardinality(N) <= d - 1
    BY <2>5, <2>6, FS_Subset
  <2>. QED BY <2>1, <2>3, <2>7
<1>. QED BY <1>1, <1>2

\* The next hop of a rank that is not its own neighbour is a neighbour.
LEMMA HopIsNeighbor ==
  ASSUME NEW src \in Rank, NEW d \in Rank, src # d, neighbors[src] \in SUBSET Rank,
         RingIn(neighbors[src], src), src \notin neighbors[src]
  PROVE  NextHop(src, d) \in neighbors[src]
<1>1. CASE LowerBound(src, d) # d
  BY <1>1, NextHopIsNearest DEF RingIn
<1>2. CASE LowerBound(src, d) = d
  <2>1. d \in neighbors[src]
    BY <1>2, EndIsNotTaken
  <2>. QED BY <1>2, <2>1 DEF NextHop
<1>. QED BY <1>1, <1>2

\* Results are pushed to registered ranks: the next hop of a rank that is not
\* its own neighbour is one of its neighbours in every state.
THEOREM HopsAreRegistered == Spec => []HopIsRegistered
<1>1. GraphInv => HopIsRegistered
  <2>. SUFFICES ASSUME GraphInv, at # dest, at \notin neighbors[at]
                PROVE  NextHop(at, dest) \in neighbors[at]
    BY DEF HopIsRegistered
  <2>1. /\ at \in Rank /\ dest \in Rank /\ neighbors[at] \in SUBSET Rank
        /\ RingIn(neighbors[at], at)
    BY DEF GraphInv, TypeOK, RingKept
  <2>. QED BY <2>1, HopIsNeighbor
<1>. QED BY <1>1, GraphInit, GraphNext, PTL DEF Spec

\* Every hop comes closer to the destination.
THEOREM RoutesShorten == Spec => HopIsCloser
<1>1. GraphInv /\ [Next]_vars => [at # dest => Distance(at', dest) < Distance(at, dest)]_vars
  <2>. SUFFICES ASSUME GraphInv, Next, at # dest
                PROVE  Distance(at', dest) < Distance(at, dest) \/ UNCHANGED vars
    OBVIOUS
  <2>1. at \in Rank /\ dest \in Rank /\ neighbors[at] \in SUBSET Rank /\ neighbors[at] # {}
    BY DEF GraphInv, TypeOK, RingKept, RingIn
  <2>2. CASE Hop
    <3>1. at' = NextHop(at, dest)
      BY <2>2 DEF Hop
    <3>2. PICK m \in neighbors[at] : Distance(m, dest) < Distance(at, dest)
      BY <2>1, RingIsCloser DEF GraphInv, RingKept
    <3>3. NextHop(at, dest) \in Rank /\ Distance(NextHop(at, dest), dest) <= Distance(m, dest)
      BY <2>1, NextHopIsNearest
    <3>4. /\ Distance(NextHop(at, dest), dest) \in Nat /\ Distance(m, dest) \in Nat
          /\ Distance(at, dest) \in Nat
      BY <2>1, <3>3, DistanceFacts
    <3>. QED BY <3>1, <3>2, <3>3, <3>4
  <2>3. a = NbRanks
    BY DEF GraphInv, BuiltFirst
  <2>4. ~ NextRank /\ \A distance \in 1 .. NbRanks, sign \in {-1, 1} :
                         ~ AddRandomNeighbor(distance, sign)
    BY <2>3, RankAssumption DEF NextRank, AddRandomNeighbor
  <2>5. \A src, d \in Rank : ~ Send(src, d)
    BY DEF Send
  <2>. QED BY <2>2, <2>4, <2>5 DEF Next
<1>. QED BY <1>1, GraphInit, GraphNext, PTL DEF Spec, HopIsCloser
=============================================================================
