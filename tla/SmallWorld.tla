----------------------------- MODULE SmallWorld -----------------------------
(***************************************************************************)
(* The small world of ranks that DVS builds: a ring, and for every rank    *)
(* some random edges whose length has density 1/x.  Every rank builds the  *)
(* same graph from the same seed, one edge at a time; here the draws are   *)
(* arbitrary.  Results then travel greedily: every rank passes them to its *)
(* neighbour that is closest to their owner on the ring.                   *)
(***************************************************************************)
EXTENDS Integers, FiniteSets, FiniteSetsExt

CONSTANTS
  NbRanks,    \* nb_rank
  Degree,     \* degree: the edges each rank adds
  LocalReach  \* local_reach: how far the ring's own edges reach

ASSUME RankAssumption  == NbRanks \in Nat /\ NbRanks > 2
ASSUME ReachAssumption == Degree \in Nat /\ LocalReach \in 1 .. NbRanks - 1

Rank == 0 .. NbRanks - 1

VARIABLES
  neighbors, \* neighbors[r]: the set of r's neighbours
  a,         \* the rank that is adding edges, NbRanks when the graph is built
  i,         \* how many it has added
  at, dest   \* where a batch of results is, and where it goes

vars == <<neighbors, a, i, at, dest>>

-----------------------------------------------------------------------------
(* The graph *)

\* both ends of every edge of the ring
LocalNeighbors ==
  [r \in Rank |-> {s \in Rank : \E j \in 1 .. LocalReach :
                     s = (r + j) % NbRanks \/ r = (s + j) % NbRanks}]

Square(x) == (x * x) % NbRanks

\* 2^64 modulo the number of ranks
Wrap == Square(Square(Square(256)))

\* a + distance * sign in uint64_t: below 0 the sum wraps at 2^64, of which
\* the number of ranks need not be a divisor.
Drawn(distance, sign) ==
  IF sign = 1 THEN (a + distance) % NbRanks
  ELSE IF a >= distance THEN a - distance
  ELSE (Wrap + NbRanks + a - distance) % NbRanks

\* mutant: the other end does not learn of the edge
LinkOneWay(b) == neighbors' = [neighbors EXCEPT ![a] = @ \cup {b}]

Link(b) == neighbors' = [r \in Rank |->
             neighbors[r] \cup (IF r = a THEN {b} ELSE {}) \cup (IF r = b THEN {a} ELSE {})]

\* mutant: one edge too many
AddOneMore(distance, sign) ==
  LET b == Drawn(distance, sign) IN
  /\ a < NbRanks /\ i <= Degree /\ Cardinality(neighbors[a]) < NbRanks - 1
  /\ Link(b)
  /\ i' = IF a = b \/ a \in neighbors[b] THEN i ELSE i + 1
  /\ UNCHANGED <<a, at, dest>>

\* One draw.  Only an edge that is new to the other end counts.
AddRandomNeighbor(distance, sign) ==
  LET b == Drawn(distance, sign) IN
  /\ a < NbRanks /\ i < Degree /\ Cardinality(neighbors[a]) < NbRanks - 1
  /\ Link(b)
  /\ i' = IF a = b \/ a \in neighbors[b] THEN i ELSE i + 1
  /\ UNCHANGED <<a, at, dest>>

NextRank ==
  /\ a < NbRanks /\ ~ (i < Degree /\ Cardinality(neighbors[a]) < NbRanks - 1)
  /\ a' = a + 1 /\ i' = 0
  /\ UNCHANGED <<neighbors, at, dest>>

-----------------------------------------------------------------------------
(* Routing *)

Abs(x) == IF x < 0 THEN - x ELSE x

Least(x, y) == IF x <= y THEN x ELSE y

Distance(x, y) == Least(Abs(x - y), NbRanks - Abs(x - y))

\* What lower_bound points to.  Above all neighbours this is end(): the code
\* reads it all the same, and libstdc++ has the number of elements there.
LowerBound(src, d) ==
  IF \E m \in neighbors[src] : m >= d
  THEN Min({m \in neighbors[src] : m >= d})
  ELSE Cardinality(neighbors[src])

\* mutant: the neighbours on the other side of 0 are not considered
CandidatesOnLine(src, d) ==
  LET N == neighbors[src] IN
  IF \E m \in N : m >= d
  THEN <<LowerBound(src, d),
         IF LowerBound(src, d) = Min(N) THEN Min(N) ELSE Max({m \in N : m < d})>>
  ELSE <<Max(N), Max(N)>>

\* mutant: one step back in the ranks instead of the neighbours
CandidatesByRank(src, d) ==
  LET N == neighbors[src] upper == LowerBound(src, d) IN
  IF \E m \in N : m >= d
  THEN <<upper, IF upper = Min(N) THEN upper ELSE upper - 1, Min(N), Max(N)>>
  ELSE <<Max(N), Max(N), Min(N), Max(N)>>

\* the neighbours around d, and the lowest and the highest one
Candidates(src, d) ==
  LET N == neighbors[src] upper == LowerBound(src, d) IN
  IF \E m \in N : m >= d
  THEN <<upper, IF upper = Min(N) THEN upper ELSE Max({m \in N : m < upper}), Min(N), Max(N)>>
  ELSE <<Max(N), Max(N), Min(N), Max(N)>>

\* the first of the candidates that are closest
NextHop(src, d) ==
  LET c == Candidates(src, d)
      close == {k \in DOMAIN c : \A l \in DOMAIN c : Distance(d, c[k]) <= Distance(d, c[l])} IN
  IF LowerBound(src, d) = d THEN d ELSE c[Min(close)]

\* results of d's tasks leave rank src
Send(src, d) ==
  /\ a = NbRanks /\ at = dest
  /\ src # d
  /\ at' = src /\ dest' = d
  /\ UNCHANGED <<neighbors, a, i>>

Hop ==
  /\ at # dest
  /\ at' = NextHop(at, dest)
  /\ UNCHANGED <<neighbors, a, i, dest>>

-----------------------------------------------------------------------------
Init ==
  /\ neighbors = LocalNeighbors
  /\ a = 0 /\ i = 0
  /\ at = 0 /\ dest = 0

Next ==
  \/ \E distance \in 1 .. NbRanks, sign \in {-1, 1} : AddRandomNeighbor(distance, sign)
  \/ NextRank
  \/ \E src, d \in Rank : Send(src, d)
  \/ Hop

Spec == Init /\ [][Next]_vars

-----------------------------------------------------------------------------
(* Properties *)

\* The variables have their types.
TypeOK ==
  /\ neighbors \in [Rank -> SUBSET Rank]
  /\ a \in 0 .. NbRanks
  /\ i \in 0 .. Degree
  /\ at \in Rank /\ dest \in Rank

\* check_graph: no edge has one direction only.  A rank that may push to
\* another one has then been registered by it, too.
NoOneWayEdge == \A r, s \in Rank : s \in neighbors[r] => r \in neighbors[s]

\* The two closest ranks on the ring stay neighbours: what routing relies on.
RingIn(N, r) == {(r + 1) % NbRanks, (r + NbRanks - 1) % NbRanks} \subseteq N
RingKept == \A r \in Rank : RingIn(neighbors[r], r)

\* Looking at the neighbours around the destination, the lowest and the
\* highest is enough: no neighbour is closer than the one that is chosen.
HopIsNearest ==
  at # dest => \A m \in neighbors[at] : Distance(NextHop(at, dest), dest) <= Distance(m, dest)

\* Results are pushed to registered ranks only, as the flush asserts.  The
\* condition is needed: a rank that is its own neighbour can have as many
\* neighbours as the number of a destination above them all, and what is read
\* at end() is then taken for a neighbour.
HopIsRegistered ==
  at # dest /\ at \notin neighbors[at] => NextHop(at, dest) \in neighbors[at]

\* Every hop comes closer to the owner, so results do not circulate.
HopIsCloser == [][at # dest => Distance(at', dest) < Distance(at, dest)]_vars
=============================================================================
