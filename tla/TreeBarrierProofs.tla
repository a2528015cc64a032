-------------------------- MODULE TreeBarrierProofs --------------------------
(***************************************************************************)
(* Proofs about InfixTree and TreeBarrier, for every number of ranks: the  *)
(* trees that the ranks compute fit together, and with them, through any   *)
(* number of barriers, timeouts and retries, no notification is lost or    *)
(* mistaken, and nobody leaves a barrier that somebody has not entered.    *)
(***************************************************************************)
EXTENDS TreeBarrier, WellFoundedInduction, TLAPS

-----------------------------------------------------------------------------
(* Recursion on natural numbers *)

\* A set of natural numbers has a least element.
LEMMA LeastNatural ==
  ASSUME NEW S \in SUBSET Nat, S # {}
  PROVE  \E n \in S : \A m \in S : n <= m
<1>1. PICK c \in S : \A d \in S : ~ (<<d, c>> \in OpToRel(<, Nat))
  BY NatLessThanWellFounded, WFMin
<1>2. ASSUME NEW d \in S PROVE c <= d
  <2>1. ~ (<<d, c>> \in OpToRel(<, Nat))
    BY <1>1
  <2>2. ~ (d < c)
    BY <2>1 DEF OpToRel
  <2>. QED BY <2>2
<1>. QED BY <1>2

\* Induction along a measure.
LEMMA AlongMeasure ==
  ASSUME NEW D, NEW measure \in [D -> Nat], NEW S,
         \A x \in D : (\A y \in D : measure[y] < measure[x] => y \in S) => x \in S
  PROVE  D \subseteq S
<1>. DEFINE Bad == {n \in Nat : \E x \in D : measure[x] = n /\ x \notin S}
<1>. SUFFICES ASSUME Bad # {} PROVE FALSE
  OBVIOUS
<1>1. PICK b \in Bad : \A m \in Bad : b <= m
  <2>. HIDE DEF Bad
  <2>1. Bad \in SUBSET Nat
    BY DEF Bad
  <2>. QED BY <2>1, LeastNatural
<1>2. PICK x \in D : measure[x] = b /\ x \notin S
  OBVIOUS
<1>3. ASSUME NEW y \in D, measure[y] < measure[x]
      PROVE  y \in S
  <2>1. measure[y] \in Nat /\ ~ (b <= measure[y])
    BY <1>2, <1>3
  <2>. QED BY <1>1, <2>1
<1>. QED BY <1>2, <1>3

\* What R makes of a function at x depends on its values where the measure is smaller.
Recursive(D, V, measure, R) ==
  /\ V # {} /\ measure \in [D -> Nat] /\ R \in [D -> [[D -> V] -> V]]
  /\ \A x \in D : \A f, g \in [D -> V] :
        (\A y \in D : measure[y] < measure[x] => f[y] = g[y]) => R[x][f] = R[x][g]

\* A definition by such a recursion has a solution.
LEMMA Recursion ==
  ASSUME NEW D, NEW V, NEW measure, NEW R, Recursive(D, V, measure, R)
  PROVE  \E f \in [D -> V] : f = [x \in D |-> R[x][f]]
<1>. USE DEF Recursive
<1>. DEFINE Solves(f, n) == \A x \in D : measure[x] < n => f[x] = R[x][f]
<1>1. \A n \in Nat : \E f \in [D -> V] : Solves(f, n)
  <2>. DEFINE Bad == {n \in Nat : ~ \E f \in [D -> V] : Solves(f, n)}
  <2>. SUFFICES ASSUME Bad # {} PROVE FALSE
    OBVIOUS
  <2>1. PICK b \in Bad : \A m \in Bad : b <= m
    <3>. HIDE DEF Bad
    <3>1. Bad \in SUBSET Nat
      BY DEF Bad
    <3>. QED BY <3>1, LeastNatural
  <2>2. b # 0
    <3>1. PICK v \in V : TRUE
      OBVIOUS
    <3>2. [x \in D |-> v] \in [D -> V] /\ Solves([x \in D |-> v], 0)
      OBVIOUS
    <3>. QED BY <3>2
  <2>3. PICK g \in [D -> V] : Solves(g, b - 1)
    <3>1. b - 1 \in Nat /\ ~ (b <= b - 1)
      BY <2>2
    <3>. QED BY <2>1, <3>1
  <2>. DEFINE f == [x \in D |-> R[x][g]]
  <2>4. f \in [D -> V]
    OBVIOUS
  <2>5. ASSUME NEW x \in D, measure[x] < b
        PROVE  f[x] = R[x][f]
    <3>1. ASSUME NEW y \in D, measure[y] < measure[x]
          PROVE  g[y] = f[y]
      <4>1. measure[y] < b - 1
        BY <2>5, <3>1
      <4>. QED BY <2>3, <4>1
    <3>. HIDE DEF f
    <3>2. R[x][g] = R[x][f]
      BY <2>4, <3>1
    <3>. QED BY <3>2 DEF f
  <2>. QED BY <2>4, <2>5
<1>2. ASSUME NEW f \in [D -> V], NEW g \in [D -> V], NEW n \in Nat, Solves(f, n), Solves(g, n),
             NEW x \in D, measure[x] < n
      PROVE  f[x] = g[x]
  <2>. DEFINE Bad == {m \in Nat : \E y \in D : measure[y] = m /\ m < n /\ f[y] # g[y]}
  <2>. SUFFICES ASSUME Bad # {} PROVE FALSE
    BY <1>2
  <2>1. PICK b \in Bad : \A m \in Bad : b <= m
    <3>. HIDE DEF Bad
    <3>1. Bad \in SUBSET Nat
      BY DEF Bad
    <3>. QED BY <3>1, LeastNatural
  <2>2. PICK y \in D : measure[y] = b /\ b < n /\ f[y] # g[y]
    OBVIOUS
  <2>3. ASSUME NEW z \in D, measure[z] < measure[y]
        PROVE  f[z] = g[z]
    <3>1. measure[z] \in Nat /\ measure[z] < n /\ ~ (b <= measure[z])
      BY <2>2, <2>3
    <3>. QED BY <2>1, <3>1
  <2>4. R[y][f] = R[y][g]
    BY <2>3
  <2>. QED BY <1>2, <2>2, <2>4
<1>. DEFINE G == [n \in Nat |-> CHOOSE f \in [D -> V] : Solves(f, n)]
<1>. DEFINE F == [x \in D |-> G[measure[x] + 1][x]]
<1>3. \A n \in Nat : G[n] \in [D -> V] /\ Solves(G[n], n)
  BY <1>1
<1>4. F \in [D -> V]
  <2>. HIDE DEF G
  <2>. QED BY <1>3
<1>5. ASSUME NEW x \in D
      PROVE  F[x] = R[x][F]
  <2>. DEFINE n == measure[x] + 1
  <2>1. n \in Nat /\ measure[x] < n
    OBVIOUS
  <2>2. G[n] \in [D -> V] /\ Solves(G[n], n)
    BY <1>3, <2>1
  <2>3. F[x] = R[x][G[n]]
    <3>. HIDE DEF G
    <3>. QED BY <2>1, <2>2
  <2>4. ASSUME NEW y \in D, measure[y] < measure[x]
        PROVE  G[n][y] = F[y]
    <3>. DEFINE k == measure[y] + 1
    <3>1. k \in Nat /\ measure[y] < k /\ k < n
      BY <2>4
    <3>2. G[k] \in [D -> V] /\ Solves(G[k], k)
      BY <1>3, <3>1
    <3>3. Solves(G[n], k)
      <4>. HIDE DEF G
      <4>. QED BY <2>1, <2>2, <3>1
    <3>4. G[n][y] = G[k][y]
      <4>. HIDE DEF G, Solves, n, k
      <4>. QED BY <1>2, <2>2, <3>1, <3>2, <3>3
    <3>. QED BY <3>4
  <2>5. R[x][G[n]] = R[x][F]
    <3>. HIDE DEF F, G, n
    <3>. QED BY <1>4, <2>2, <2>4
  <2>. QED BY <2>3, <2>5
<1>. HIDE DEF F
<1>6. F = [x \in D |-> R[x][F]]
  <2>1. F = [x \in D |-> F[x]]
    BY <1>4
  <2>. QED BY <1>5, <2>1
<1>. QED BY <1>4, <1>6

-----------------------------------------------------------------------------
(* Powers and logarithms *)

\* POW2 and Log2 by their recursion
LEMMA POW2Recursion ==
  /\ POW2 \in [Nat -> Nat]
  /\ \A x \in Nat : POW2[x] = IF x = 0 THEN 1 ELSE 2 * POW2[x - 1]
<1>. DEFINE D == Nat
            M == [x \in D |-> x]
            R == [x \in D |-> [f \in [D -> D] |-> IF x = 0 THEN 1 ELSE 2 * f[x - 1]]]
<1>1. M \in [D -> Nat]
  OBVIOUS
<1>2. R \in [D -> [[D -> D] -> D]]
  <2>1. ASSUME NEW x \in Nat, NEW f \in [Nat -> Nat]
        PROVE  (IF x = 0 THEN 1 ELSE 2 * f[x - 1]) \in Nat
    <3>1. x # 0 => x - 1 \in Nat
      OBVIOUS
    <3>2. x # 0 => f[x - 1] \in Nat
      BY <3>1
    <3>. QED BY <3>2
  <2>. QED BY <2>1
<1>3. ASSUME NEW x \in D, NEW f \in [D -> D], NEW g \in [D -> D],
             \A y \in D : M[y] < M[x] => f[y] = g[y]
      PROVE  R[x][f] = R[x][g]
  <2>1. x # 0 => x - 1 \in Nat /\ M[x - 1] < M[x]
    OBVIOUS
  <2>2. x # 0 => f[x - 1] = g[x - 1]
    BY <1>3, <2>1
  <2>. QED BY <2>2
<1>4. \E f \in [D -> D] : f = [x \in D |-> R[x][f]]
  <2>1. D # {}
    OBVIOUS
  <2>. HIDE DEF M, R, D
  <2>2. \A x \in D : \A f, g \in [D -> D] :
          (\A y \in D : M[y] < M[x] => f[y] = g[y]) => R[x][f] = R[x][g]
    BY <1>3
  <2>3. Recursive(D, D, M, R)
    BY <1>1, <1>2, <2>1, <2>2 DEF Recursive
  <2>. QED BY <2>3, Recursion
<1>5. PICK f \in [Nat -> Nat] : f = [x \in Nat |-> IF x = 0 THEN 1 ELSE 2 * f[x - 1]]
  BY <1>4
<1>6. POW2 = [x \in Nat |-> IF x = 0 THEN 1 ELSE 2 * POW2[x - 1]]
  BY <1>5 DEF POW2
<1>7. D \subseteq {x \in Nat : POW2[x] \in Nat}
  <2>. DEFINE S == {x \in Nat : POW2[x] \in Nat}
  <2>1. ASSUME NEW x \in D, \A y \in D : M[y] < M[x] => y \in S
        PROVE  x \in S
    <3>1. x # 0 => x - 1 \in Nat /\ M[x - 1] < M[x]
      OBVIOUS
    <3>2. x # 0 => POW2[x - 1] \in Nat
      BY <2>1, <3>1
    <3>3. POW2[x] = IF x = 0 THEN 1 ELSE 2 * POW2[x - 1]
      BY <1>6
    <3>. QED BY <3>2, <3>3
  <2>. HIDE DEF D, M, S
  <2>2. D \subseteq S
    BY <1>1, <2>1, AlongMeasure
  <2>. QED BY <2>2 DEF S
<1>. QED BY <1>6, <1>7

LEMMA Log2Recursion ==
  /\ Log2 \in [Nat -> Nat]
  /\ \A n \in Nat : Log2[n] = IF n < 2 THEN 0 ELSE 1 + Log2[n \div 2]
<1>. DEFINE D == Nat
            M == [n \in D |-> n]
            R == [n \in D |-> [f \in [D -> D] |-> IF n < 2 THEN 0 ELSE 1 + f[n \div 2]]]
<1>1. M \in [D -> Nat]
  OBVIOUS
<1>h. ASSUME NEW n \in Nat, ~ (n < 2)
      PROVE  n \div 2 \in Nat /\ n \div 2 < n
  BY <1>h
<1>2. R \in [D -> [[D -> D] -> D]]
  <2>1. ASSUME NEW n \in Nat, NEW f \in [Nat -> Nat]
        PROVE  (IF n < 2 THEN 0 ELSE 1 + f[n \div 2]) \in Nat
    <3>1. ~ (n < 2) => f[n \div 2] \in Nat
      BY <1>h
    <3>. QED BY <3>1
  <2>. QED BY <2>1
<1>3. ASSUME NEW n \in D, NEW f \in [D -> D], NEW g \in [D -> D],
             \A y \in D : M[y] < M[n] => f[y] = g[y]
      PROVE  R[n][f] = R[n][g]
  <2>1. ~ (n < 2) => n \div 2 \in Nat /\ M[n \div 2] < M[n]
    BY <1>h
  <2>2. ~ (n < 2) => f[n \div 2] = g[n \div 2]
    BY <1>3, <2>1
  <2>. QED BY <2>2
<1>4. \E f \in [D -> D] : f = [n \in D |-> R[n][f]]
  <2>1. D # {}
    OBVIOUS
  <2>. HIDE DEF M, R, D
  <2>2. Recursive(D, D, M, R)
    BY <1>1, <1>2, <1>3, <2>1 DEF Recursive
  <2>. QED BY <2>2, Recursion
<1>5. PICK f \in [Nat -> Nat] : f = [n \in Nat |-> IF n < 2 THEN 0 ELSE 1 + f[n \div 2]]
  BY <1>4
<1>6. Log2 = [n \in Nat |-> IF n < 2 THEN 0 ELSE 1 + Log2[n \div 2]]
  BY <1>5 DEF Log2
<1>7. D \subseteq {n \in Nat : Log2[n] \in Nat}
  <2>. DEFINE S == {n \in Nat : Log2[n] \in Nat}
  <2>1. ASSUME NEW n \in D, \A y \in D : M[y] < M[n] => y \in S
        PROVE  n \in S
    <3>1. ~ (n < 2) => n \div 2 \in Nat /\ M[n \div 2] < M[n]
      BY <1>h
    <3>2. ~ (n < 2) => Log2[n \div 2] \in Nat
      BY <2>1, <3>1
    <3>3. Log2[n] = IF n < 2 THEN 0 ELSE 1 + Log2[n \div 2]
      BY <1>6
    <3>. QED BY <3>2, <3>3
  <2>. HIDE DEF D, M, S
  <2>2. D \subseteq S
    BY <1>1, <2>1, AlongMeasure
  <2>. QED BY <2>2 DEF S
<1>. QED BY <1>6, <1>7

\* Powers of two are positive and double.
LEMMA POW2Facts ==
  /\ POW2[0] = 1
  /\ \A k \in Nat : POW2[k] \in Nat /\ POW2[k] >= 1 /\ POW2[k + 1] = 2 * POW2[k]
<1>1. POW2[0] = 1
  BY POW2Recursion
<1>2. ASSUME NEW k \in Nat
      PROVE  POW2[k] \in Nat /\ POW2[k + 1] = 2 * POW2[k]
  <2>1. k + 1 \in Nat /\ k + 1 # 0 /\ (k + 1) - 1 = k
    OBVIOUS
  <2>2. POW2[k + 1] = 2 * POW2[(k + 1) - 1]
    BY <2>1, POW2Recursion
  <2>. QED BY <2>1, <2>2, POW2Recursion
<1>. DEFINE D == Nat
            M == [n \in D |-> n]
            S == {k \in Nat : POW2[k] >= 1}
<1>3. ASSUME NEW k \in D, \A y \in D : M[y] < M[k] => y \in S
      PROVE  k \in S
  <2>1. CASE k = 0
    BY <1>1, <2>1
  <2>2. CASE k # 0
    <3>1. k - 1 \in D /\ M[k - 1] < M[k] /\ k = (k - 1) + 1
      BY <2>2
    <3>2. POW2[k - 1] >= 1
      BY <1>3, <3>1
    <3>3. POW2[k] = 2 * POW2[k - 1] /\ POW2[k - 1] \in Nat
      BY <1>2, <3>1
    <3>. QED BY <3>2, <3>3
  <2>. QED BY <2>1, <2>2
<1>4. D \subseteq S
  <2>1. M \in [D -> Nat]
    OBVIOUS
  <2>. HIDE DEF D, M, S
  <2>. QED BY <1>3, <2>1, AlongMeasure
<1>. QED BY <1>1, <1>2, <1>4

\* Powers of two grow.
LEMMA POW2Monotone ==
  ASSUME NEW a \in Nat, NEW b \in Nat, a <= b
  PROVE  POW2[a] <= POW2[b]
<1>. DEFINE D == Nat
            M == [n \in D |-> n]
            S == {k \in Nat : a <= k => POW2[a] <= POW2[k]}
<1>1. ASSUME NEW k \in D, \A y \in D : M[y] < M[k] => y \in S
      PROVE  k \in S
  <2>1. CASE ~ (a < k)
    <3>1. a <= k => a = k
      BY <2>1
    <3>. QED BY <3>1, POW2Facts
  <2>2. CASE a < k
    <3>1. k - 1 \in D /\ M[k - 1] < M[k] /\ k = (k - 1) + 1 /\ a <= k - 1
      BY <2>2
    <3>2. POW2[a] <= POW2[k - 1]
      BY <1>1, <3>1
    <3>3. POW2[k] = 2 * POW2[k - 1] /\ POW2[k - 1] \in Nat /\ POW2[a] \in Nat
      BY POW2Facts, <3>1
    <3>. QED BY <3>2, <3>3
  <2>. QED BY <2>1, <2>2
<1>2. D \subseteq S
  <2>1. M \in [D -> Nat]
    OBVIOUS
  <2>. HIDE DEF D, M, S
  <2>. QED BY <1>1, <2>1, AlongMeasure
<1>. QED BY <1>2

\* Log2 rounds down.
LEMMA Log2Bounds ==
  ASSUME NEW n \in Nat \ {0}
  PROVE  Log2[n] \in Nat /\ POW2[Log2[n]] <= n /\ n < 2 * POW2[Log2[n]]
<1>. DEFINE D == Nat
            M == [k \in D |-> k]
            S == {k \in Nat : k # 0 => POW2[Log2[k]] <= k /\ k < 2 * POW2[Log2[k]]}
<1>1. ASSUME NEW k \in D, \A y \in D : M[y] < M[k] => y \in S
      PROVE  k \in S
  <2>1. CASE k = 0
    BY <2>1
  <2>2. CASE k = 1
    BY <2>2, Log2Recursion, POW2Facts
  <2>3. CASE k >= 2
    <3>. DEFINE h == k \div 2
    <3>1. h \in D /\ M[h] < M[k] /\ h # 0 /\ (k = 2 * h \/ k = 2 * h + 1)
      BY <2>3
    <3>2. h \in S
      BY <1>1, <3>1
    <3>3. POW2[Log2[h]] <= h /\ h < 2 * POW2[Log2[h]]
      BY <3>1, <3>2
    <3>4. Log2[k] = Log2[h] + 1 /\ Log2[h] \in Nat
      BY <2>3, <3>1, Log2Recursion
    <3>5. POW2[Log2[k]] = 2 * POW2[Log2[h]] /\ POW2[Log2[h]] \in Nat
      BY <3>4, POW2Facts
    <3>. HIDE DEF h
    <3>6. POW2[Log2[k]] <= k /\ k < 2 * POW2[Log2[k]]
      BY <3>1, <3>3, <3>5
    <3>. QED BY <3>6
  <2>. QED BY <2>1, <2>2, <2>3
<1>2. D \subseteq S
  <2>1. M \in [D -> Nat]
    OBVIOUS
  <2>. HIDE DEF D, M, S
  <2>. QED BY <1>1, <2>1, AlongMeasure
<1>3. n \in S
  BY <1>2
<1>. QED BY <1>3, Log2Recursion

\* And fewer ranks than a power of two have a smaller logarithm.
LEMMA Log2Least ==
  ASSUME NEW n \in Nat \ {0}, NEW k \in Nat, n < POW2[k + 1]
  PROVE  Log2[n] <= k
<1>1. Log2[n] \in Nat /\ POW2[Log2[n]] <= n
  BY Log2Bounds
<1>2. SUFFICES ASSUME k + 1 <= Log2[n] PROVE FALSE
  BY <1>1
<1>3. POW2[k + 1] <= POW2[Log2[n]]
  BY <1>1, <1>2, POW2Monotone
<1>4. POW2[k + 1] \in Nat /\ POW2[Log2[n]] \in Nat
  BY <1>1, POW2Facts
<1>. QED BY <1>1, <1>3, <1>4

-----------------------------------------------------------------------------
(* get_tree_neighbors by its recursion *)

\* The root of three levels or more has ranks on both sides, and fewer levels.
LEMMA RootSplits ==
  ASSUME NEW size \in Nat, size > 3, NEW rank0 \in Int
  PROVE  \E l \in 1 .. size - 2 : \E r \in 1 .. size - 2 :
            /\ RootOf(size, rank0) = rank0 + l /\ size = l + r + 1
            /\ Log2[l] + 1 <= Log2[size] /\ Log2[r] + 1 <= Log2[size]
<1>. DEFINE k == Log2[size] - 1
            p == POW2[k]
<1>1. Log2[size] \in Nat /\ POW2[Log2[size]] <= size /\ size < 2 * POW2[Log2[size]]
  BY Log2Bounds
<1>2. POW2[1] = 2 /\ POW2[0] = 1
  <2>1. POW2[0 + 1] = 2 * POW2[0]
    BY POW2Facts
  <2>. QED BY <2>1, POW2Facts
<1>3. k \in Nat /\ k >= 1
  <2>1. SUFFICES ASSUME Log2[size] \in {0, 1} PROVE FALSE
    BY <1>1
  <2>. QED BY <1>1, <1>2, <2>1
<1>4. Log2[size] = k + 1
  BY <1>1
<1>5. p \in Nat /\ p >= 2 /\ POW2[k + 1] = 2 * p
  BY <1>2, <1>3, POW2Facts, POW2Monotone
<1>6. 2 * p <= size /\ size < 4 * p
  <2>1. POW2[Log2[size]] = 2 * p
    BY <1>4, <1>5
  <2>. HIDE DEF k, p
  <2>. QED BY <1>1, <1>5, <2>1
<1>7. RootOf(size, rank0) = rank0 + p - 1 + Least(p, size - (2 * p - 1))
  <2>1. (Log2[size] + 1) - 2 = k /\ (Log2[size] + 1) - 1 = k + 1
    BY <1>1
  <2>. QED BY <1>5, <2>1 DEF RootOf
<1>. DEFINE l == IF size >= 3 * p - 1 THEN 2 * p - 1 ELSE size - p
            r == IF size >= 3 * p - 1 THEN size - 2 * p ELSE p - 1
<1>8. /\ l \in 1 .. size - 2 /\ r \in 1 .. size - 2 /\ size = l + r + 1
      /\ RootOf(size, rank0) = rank0 + l /\ l < 2 * p /\ r < 2 * p
  <2>. HIDE DEF k, p
  <2>. QED BY <1>5, <1>6, <1>7 DEF Least
<1>9. Log2[l] <= k /\ Log2[r] <= k
  <2>. HIDE DEF l, r, p
  <2>. QED BY <1>3, <1>5, <1>8, Log2Least DEF p
<1>10. Log2[l] \in Nat /\ Log2[r] \in Nat
  <2>. HIDE DEF l, r, p
  <2>. QED BY <1>8, Log2Recursion
<1>11. Log2[l] + 1 <= Log2[size] /\ Log2[r] + 1 <= Log2[size]
  <2>. HIDE DEF l, r, p
  <2>. QED BY <1>4, <1>9, <1>10, <1>3 
<1>. QED
  <2>. HIDE DEF l, r, p, k
  <2>. QED BY <1>8, <1>11

Nodes == [rank : Int, parent : Int, left_child : Int, right_child : Int]

\* What the operators of InfixTree return are nodes and ranks.
LEMMA SmallType ==
  ASSUME NEW rank \in Int, NEW size \in Nat, NEW rank0 \in Int
  PROVE  Small(rank, size, rank0) \in Nodes
  BY NoRankAssumption DEF Small, Node, Nodes

LEMMA RootType ==
  ASSUME NEW size \in Nat \ {0}, NEW rank0 \in Int
  PROVE  get_rank_of_root(size, rank0) \in Int
<1>1. CASE size = 1
  BY <1>1 DEF get_rank_of_root
<1>2. CASE size \in {2, 3}
  <2>1. 2 \div 2 = 1 /\ 3 \div 2 = 1 /\ 2 \in Nat /\ 3 \in Nat /\ 1 \in Nat
    OBVIOUS
  <2>2. Log2[1] = 0 /\ Log2[2] = 1 + Log2[1] /\ Log2[3] = 1 + Log2[1]
    BY <2>1, Log2Recursion
  <2>3. POW2[0 + 1] = 2 * POW2[0] /\ POW2[0] = 1
    BY POW2Facts
  <2>. QED BY <1>2, <2>2, <2>3 DEF get_rank_of_root, RootOf, Least
<1>3. CASE size > 3
  BY <1>3, RootSplits DEF get_rank_of_root
<1>. QED BY <1>1, <1>2, <1>3

Places == Int \X Nat \X Int
SubtreeSize == [at \in Places |-> at[2]]

\* One turn of the recursion: what get_tree_neighbors makes of itself
Turn(g, at) ==
    LET rank == at[1] size == at[2] rank0 == at[3] root == RootOf(size, rank0)
    IN IF size <= 3 THEN Small(rank, size, rank0)
       ELSE IF rank = root THEN Inner(size, rank0, root)
       ELSE IF rank < root THEN Linked(g[<<rank, root - rank0, rank0>>], root)
       ELSE Linked(g[<<rank, size - (root - rank0) - 1, root + 1>>], root)

\* Both subtrees are smaller, and neither is empty.
LEMMA SubtreesSmaller ==
  ASSUME NEW rank \in Int, NEW size \in Nat, size > 3, NEW rank0 \in Int
  PROVE  LET root == RootOf(size, rank0) IN
         /\ root \in Int
         /\ <<rank, root - rank0, rank0>> \in Places /\ root - rank0 < size /\ root - rank0 # 0
         /\ <<rank, size - (root - rank0) - 1, root + 1>> \in Places
         /\ size - (root - rank0) - 1 < size /\ size - (root - rank0) - 1 # 0
         /\ SubtreeSize[<<rank, root - rank0, rank0>>] < size
         /\ SubtreeSize[<<rank, size - (root - rank0) - 1, root + 1>>] < size
<1>1. PICK l \in 1 .. size - 2 : \E r \in 1 .. size - 2 :
        /\ RootOf(size, rank0) = rank0 + l /\ size = l + r + 1
        /\ Log2[l] + 1 <= Log2[size] /\ Log2[r] + 1 <= Log2[size]
  BY RootSplits
<1>2. PICK r \in 1 .. size - 2 : RootOf(size, rank0) = rank0 + l /\ size = l + r + 1
  BY <1>1
<1>3. /\ RootOf(size, rank0) - rank0 = l
      /\ size - (RootOf(size, rank0) - rank0) - 1 = r
      /\ RootOf(size, rank0) \in Int
  BY <1>2
<1>4. \A s \in Nat, z \in Int : <<rank, s, z>> \in Places /\ SubtreeSize[<<rank, s, z>>] = s
  BY DEF Places, SubtreeSize
<1>. QED BY <1>2, <1>3, <1>4

LEMMA TurnType ==
  ASSUME NEW g \in [Places -> Nodes], NEW at \in Places
  PROVE  Turn(g, at) \in Nodes
<1>. DEFINE rank == at[1] size == at[2] rank0 == at[3] root == RootOf(size, rank0)
<1>0. rank \in Int /\ size \in Nat /\ rank0 \in Int
  BY DEF Places
<1>. HIDE DEF rank, size, rank0
<1>1. CASE size <= 3
  BY <1>0, <1>1, SmallType DEF Turn, rank, size, rank0
<1>2. CASE size > 3
  <2>1. /\ root \in Int /\ root - rank0 \in Nat \ {0} /\ size - (root - rank0) - 1 \in Nat \ {0}
        /\ <<rank, root - rank0, rank0>> \in Places
        /\ <<rank, size - (root - rank0) - 1, root + 1>> \in Places
    BY <1>0, <1>2, SubtreesSmaller DEF Places
  <2>. HIDE DEF root
  <2>2. Inner(size, rank0, root) \in Nodes
    <3>1. root + 1 \in Int
      BY <2>1
    <3>2. /\ get_rank_of_root(root - rank0, rank0) \in Int
          /\ get_rank_of_root(size - (root - rank0) - 1, root + 1) \in Int
      BY <1>0, <2>1, <3>1, RootType
    <3>. QED BY <2>1, <3>2, NoRankAssumption DEF Inner, Node, Nodes
  <2>3. \A node \in Nodes : Linked(node, root) \in Nodes
    BY <2>1 DEF Linked, Nodes
  <2>4. /\ g[<<rank, root - rank0, rank0>>] \in Nodes
        /\ g[<<rank, size - (root - rank0) - 1, root + 1>>] \in Nodes
    BY <2>1
  <2>5. Turn(g, at) \in {Inner(size, rank0, root), Linked(g[<<rank, root - rank0, rank0>>], root),
                         Linked(g[<<rank, size - (root - rank0) - 1, root + 1>>], root)}
    BY <1>0, <1>2 DEF Turn, rank, size, rank0, root
  <2>. QED BY <2>2, <2>3, <2>4, <2>5
<1>. QED BY <1>0, <1>1, <1>2

\* get_tree_neighbors is what its recursion says.
LEMMA TreeRecursion ==
  /\ get_tree_neighbors \in [Places -> Nodes]
  /\ \A at \in Places : get_tree_neighbors[at] = Turn(get_tree_neighbors, at)
<1>. DEFINE R == [at \in Places |-> [g \in [Places -> Nodes] |-> Turn(g, at)]]
<1>1. SubtreeSize \in [Places -> Nat]
  BY DEF Places, SubtreeSize
<1>2. R \in [Places -> [[Places -> Nodes] -> Nodes]]
  BY TurnType
<1>3. ASSUME NEW at \in Places, NEW f, NEW g,
             \A y \in Places : SubtreeSize[y] < SubtreeSize[at] => f[y] = g[y]
      PROVE  Turn(f, at) = Turn(g, at)
  <2>. DEFINE rank == at[1] size == at[2] rank0 == at[3] root == RootOf(size, rank0)
  <2>0. rank \in Int /\ size \in Nat /\ rank0 \in Int /\ SubtreeSize[at] = size
    BY DEF Places, SubtreeSize
  <2>. HIDE DEF rank, size, rank0
  <2>1. CASE size <= 3
    BY <2>1 DEF Turn, rank, size, rank0
  <2>2. CASE size > 3
    <3>1. /\ f[<<rank, root - rank0, rank0>>] = g[<<rank, root - rank0, rank0>>]
          /\ f[<<rank, size - (root - rank0) - 1, root + 1>>]
               = g[<<rank, size - (root - rank0) - 1, root + 1>>]
      BY <1>3, <2>0, <2>2, SubtreesSmaller
    <3>. QED BY <3>1 DEF Turn, rank, size, rank0, root
  <2>. QED BY <2>0, <2>1, <2>2
<1>4. \E f \in [Places -> Nodes] : f = [at \in Places |-> R[at][f]]
  <2>1. Nodes # {}
    <3>1. Node(0, 0, 0, 0) \in Nodes
      BY DEF Node, Nodes
    <3>. QED BY <3>1
  <2>2. \A at \in Places : \A f, g \in [Places -> Nodes] :
           (\A y \in Places : SubtreeSize[y] < SubtreeSize[at] => f[y] = g[y]) => R[at][f] = R[at][g]
    <3>. SUFFICES ASSUME NEW at \in Places, NEW f \in [Places -> Nodes], NEW g \in [Places -> Nodes],
                         \A y \in Places : SubtreeSize[y] < SubtreeSize[at] => f[y] = g[y]
                  PROVE  Turn(f, at) = Turn(g, at)
      OBVIOUS
    <3>. QED BY <1>3
  <2>. HIDE DEF R
  <2>3. Recursive(Places, Nodes, SubtreeSize, R)
    BY <1>1, <1>2, <2>1, <2>2 DEF Recursive
  <2>. QED BY <2>3, Recursion
<1>5. PICK f \in [Places -> Nodes] : f = [at \in Places |-> Turn(f, at)]
  BY <1>4
<1>6. get_tree_neighbors = [at \in Places |-> Turn(get_tree_neighbors, at)]
  BY <1>5 DEF get_tree_neighbors, Turn, Places
<1>7. \A at \in Places : get_tree_neighbors[at] = Turn(get_tree_neighbors, at)
  BY <1>6
<1>. DEFINE S == {at \in Places : f[at] = get_tree_neighbors[at]}
<1>8. ASSUME NEW at \in Places,
             \A y \in Places : SubtreeSize[y] < SubtreeSize[at] => y \in S
      PROVE  at \in S
  <2>1. \A y \in Places : SubtreeSize[y] < SubtreeSize[at] => f[y] = get_tree_neighbors[y]
    BY <1>8
  <2>2. Turn(f, at) = Turn(get_tree_neighbors, at)
    BY <1>3, <2>1
  <2>. QED BY <1>5, <1>7, <2>2
<1>9. Places \subseteq S
  <2>. HIDE DEF S
  <2>. QED BY <1>1, <1>8, AlongMeasure
<1>10. get_tree_neighbors = f
  BY <1>5, <1>6, <1>9
<1>. QED BY <1>7, <1>10

-----------------------------------------------------------------------------
(* Every subtree is a tree *)

Ranks(size, rank0) == rank0 .. rank0 + size - 1
NodeAt(r, size, rank0) == get_tree_neighbors[<<r, size, rank0>>]

\* What r knows of its neighbours in the subtree they know of r.
LinkOK(r, size, rank0) ==
    LET me == NodeAt(r, size, rank0) up == NodeAt(me.parent, size, rank0) IN
    /\ me.rank = r
    /\ IF r = get_rank_of_root(size, rank0) THEN me.parent = NoRank
       ELSE /\ me.parent \in Ranks(size, rank0)
            /\ r = IF r < me.parent THEN up.left_child ELSE up.right_child
    /\ me.left_child # NoRank =>
         /\ me.left_child \in Ranks(size, rank0) /\ me.left_child < r
         /\ NodeAt(me.left_child, size, rank0).parent = r
    /\ me.right_child # NoRank =>
         /\ me.right_child \in Ranks(size, rank0) /\ r < me.right_child
         /\ NodeAt(me.right_child, size, rank0).parent = r

\* The levels of the ranks: d of the root is 0
Levels(d, size, rank0) ==
    \A r \in Ranks(size, rank0) :
        /\ d[r] <= Log2[size]
        /\ IF r = get_rank_of_root(size, rank0) THEN d[r] = 0
           ELSE d[r] = d[NodeAt(r, size, rank0).parent] + 1

Subtree(size, rank0) ==
    /\ get_rank_of_root(size, rank0) \in Ranks(size, rank0)
    /\ \A r \in Ranks(size, rank0) : LinkOK(r, size, rank0)
    /\ \E d \in [Ranks(size, rank0) -> Nat] : Levels(d, size, rank0)

\* The same by rank, size and first rank
LEMMA NodeIs ==
  ASSUME NEW r \in Int, NEW size \in Nat, NEW rank0 \in Int
  PROVE  /\ NodeAt(r, size, rank0) \in Nodes
         /\ NodeAt(r, size, rank0) =
              LET root == RootOf(size, rank0)
              IN IF size <= 3 THEN Small(r, size, rank0)
                 ELSE IF r = root THEN Inner(size, rank0, root)
                 ELSE IF r < root THEN Linked(NodeAt(r, root - rank0, rank0), root)
                 ELSE Linked(NodeAt(r, size - (root - rank0) - 1, root + 1), root)
<1>. DEFINE at == <<r, size, rank0>>
<1>1. at \in Places /\ at[1] = r /\ at[2] = size /\ at[3] = rank0
  BY DEF Places
<1>2. get_tree_neighbors[at] = Turn(get_tree_neighbors, at) /\ get_tree_neighbors[at] \in Nodes
  <2>. HIDE DEF at
  <2>. QED BY <1>1, TreeRecursion
<1>3. NodeAt(r, size, rank0) = get_tree_neighbors[at]
  BY DEF NodeAt
<1>4. Turn(get_tree_neighbors, at) =
        LET root == RootOf(size, rank0)
        IN IF size <= 3 THEN Small(r, size, rank0)
           ELSE IF r = root THEN Inner(size, rank0, root)
           ELSE IF r < root THEN Linked(NodeAt(r, root - rank0, rank0), root)
           ELSE Linked(NodeAt(r, size - (root - rank0) - 1, root + 1), root)
  <2>. HIDE DEF at
  <2>. QED BY <1>1 DEF Turn, NodeAt
<1>. QED BY <1>2, <1>3, <1>4

\* Trees of one and two levels
LEMMA SmallRoots ==
  /\ Log2[1] = 0 /\ Log2[2] = 1 /\ Log2[3] = 1
  /\ \A rank0 \in Int : /\ get_rank_of_root(1, rank0) = rank0
                        /\ get_rank_of_root(2, rank0) = rank0 + 1
                        /\ get_rank_of_root(3, rank0) = rank0 + 1
<1>1. 2 \div 2 = 1 /\ 3 \div 2 = 1 /\ 2 \in Nat /\ 3 \in Nat /\ 1 \in Nat
  OBVIOUS
<1>2. Log2[1] = 0 /\ Log2[2] = 1 + Log2[1] /\ Log2[3] = 1 + Log2[1]
  BY <1>1, Log2Recursion
<1>3. POW2[0 + 1] = 2 * POW2[0] /\ POW2[0] = 1
  BY POW2Facts
<1>. QED BY <1>2, <1>3 DEF get_rank_of_root, RootOf, Least

LEMMA SmallTrees ==
  ASSUME NEW size \in 1 .. 3, NEW rank0 \in Int, NoRank \notin Ranks(size, rank0)
  PROVE  Subtree(size, rank0)
<1>. DEFINE root == get_rank_of_root(size, rank0)
<1>1. /\ root = IF size = 1 THEN rank0 ELSE rank0 + 1
      /\ Log2[size] = IF size = 1 THEN 0 ELSE 1
  BY SmallRoots
<1>2. \A r \in Int : NodeAt(r, size, rank0) = Small(r, size, rank0)
  BY NodeIs
<1>3. root \in Ranks(size, rank0)
  BY <1>1 DEF Ranks
<1>4. ASSUME NEW r \in Ranks(size, rank0)
      PROVE  LinkOK(r, size, rank0)
  <2>1. r \in Int /\ r \in {rank0, rank0 + 1, rank0 + 2}
    BY DEF Ranks
  <2>2. CASE size = 1
    BY <1>1, <1>2, <2>1, <2>2 DEF LinkOK, Small, Node, Ranks
  <2>3. CASE size = 2
    BY <1>1, <1>2, <2>1, <2>3 DEF LinkOK, Small, Node, Ranks
  <2>4. CASE size = 3
    BY <1>1, <1>2, <2>1, <2>4 DEF LinkOK, Small, Node, Ranks
  <2>. QED BY <2>2, <2>3, <2>4
<1>5. \E d \in [Ranks(size, rank0) -> Nat] : Levels(d, size, rank0)
  <2>. DEFINE d == [r \in Ranks(size, rank0) |-> IF r = root THEN 0 ELSE 1]
  <2>1. ASSUME NEW r \in Ranks(size, rank0), r # root
        PROVE  NodeAt(r, size, rank0).parent = root
    BY <1>1, <1>2, <2>1 DEF Ranks, Small, Node
  <2>2. Levels(d, size, rank0)
    <3>. SUFFICES ASSUME NEW r \in Ranks(size, rank0)
                  PROVE  /\ d[r] <= Log2[size]
                         /\ IF r = root THEN d[r] = 0 ELSE d[r] = d[NodeAt(r, size, rank0).parent] + 1
      BY DEF Levels
    <3>1. d[root] = 0
      BY <1>3
    <3>2. size = 1 => r = root
      BY <1>1 DEF Ranks
    <3>. QED BY <1>1, <1>3, <2>1, <3>1, <3>2
  <2>. QED BY <2>2
<1>. QED BY <1>3, <1>4, <1>5 DEF Subtree

\* The tree of s ranks from z is, below root, a part of the tree of `size' ranks from rank0.
Hangs(s, z, root, size, rank0) ==
    /\ size \in Nat /\ rank0 \in Int /\ s \in Nat \ {0} /\ z \in Int /\ root \in Int
    /\ Ranks(s, z) \subseteq Ranks(size, rank0) /\ root \in Ranks(size, rank0) \ Ranks(s, z)
    /\ NoRank \notin Ranks(size, rank0) /\ root = get_rank_of_root(size, rank0)
    /\ Subtree(s, z)
    /\ \A r \in Ranks(s, z) : NodeAt(r, size, rank0) = Linked(NodeAt(r, s, z), root)
    /\ LET c == get_rank_of_root(s, z) IN
       c = IF c < root THEN NodeAt(root, size, rank0).left_child
                       ELSE NodeAt(root, size, rank0).right_child

\* Its links are links of the whole tree.
LEMMA Under ==
  ASSUME NEW size, NEW rank0, NEW s, NEW z, NEW root, Hangs(s, z, root, size, rank0),
         NEW r \in Ranks(s, z)
  PROVE  /\ LinkOK(r, size, rank0)
         /\ NodeAt(r, size, rank0).parent =
              IF r = get_rank_of_root(s, z) THEN root ELSE NodeAt(r, s, z).parent
<1>. USE DEF Hangs
<1>. DEFINE c == get_rank_of_root(s, z)
<1>1. \A x \in Ranks(s, z) : /\ x \in Int /\ x \in Ranks(size, rank0) /\ x # NoRank /\ x # root
                             /\ NodeAt(x, s, z) \in Nodes
  <2>1. \A x \in Ranks(s, z) : x \in Int
    BY DEF Ranks
  <2>. QED BY <2>1, NodeIs
<1>2. c \in Ranks(s, z) /\ \A x \in Ranks(s, z) : LinkOK(x, s, z)
  BY DEF Subtree
<1>3. ASSUME NEW x \in Ranks(s, z)
      PROVE  /\ NodeAt(x, size, rank0).rank = NodeAt(x, s, z).rank
             /\ NodeAt(x, size, rank0).left_child = NodeAt(x, s, z).left_child
             /\ NodeAt(x, size, rank0).right_child = NodeAt(x, s, z).right_child
             /\ NodeAt(x, size, rank0).parent = IF x = c THEN root ELSE NodeAt(x, s, z).parent
  <2>1. NodeAt(x, s, z).parent = NoRank <=> x = c
    <3>1. LinkOK(x, s, z)
      BY <1>2
    <3>. QED BY <1>1, <3>1 DEF LinkOK
  <2>2. NodeAt(x, size, rank0) = Linked(NodeAt(x, s, z), root)
    OBVIOUS
  <2>. QED BY <1>1, <2>1, <2>2 DEF Linked, Nodes
<1>4. LinkOK(r, s, z)
  BY <1>2
<1>. DEFINE me == NodeAt(r, size, rank0) sub == NodeAt(r, s, z)
<1>5. me.rank = r
  BY <1>3, <1>4 DEF LinkOK
<1>6. /\ r # root
      /\ me.parent \in Ranks(size, rank0)
      /\ r = IF r < me.parent THEN NodeAt(me.parent, size, rank0).left_child
             ELSE NodeAt(me.parent, size, rank0).right_child
  <2>1. CASE r = c
    BY <1>1, <1>3, <2>1
  <2>2. CASE r # c
    <3>1. /\ sub.parent \in Ranks(s, z)
          /\ r = IF r < sub.parent THEN NodeAt(sub.parent, s, z).left_child
                 ELSE NodeAt(sub.parent, s, z).right_child
      BY <1>4, <2>2 DEF LinkOK
    <3>2. me.parent = sub.parent
      BY <1>3, <2>2
    <3>3. /\ NodeAt(sub.parent, size, rank0).left_child = NodeAt(sub.parent, s, z).left_child
          /\ NodeAt(sub.parent, size, rank0).right_child = NodeAt(sub.parent, s, z).right_child
      BY <1>3, <3>1
    <3>. HIDE DEF me, sub
    <3>. QED BY <1>1, <3>1, <3>2, <3>3
  <2>. QED BY <2>1, <2>2
<1>7. ASSUME NEW x \in Ranks(s, z), NodeAt(x, s, z).parent = r
      PROVE  NodeAt(x, size, rank0).parent = r
  <2>1. x # c
    <3>1. LinkOK(c, s, z)
      BY <1>2
    <3>. QED BY <1>1, <1>7, <3>1 DEF LinkOK
  <2>. QED BY <1>3, <1>7, <2>1
<1>8. me.left_child # NoRank =>
        /\ me.left_child \in Ranks(size, rank0) /\ me.left_child < r
        /\ NodeAt(me.left_child, size, rank0).parent = r
  <2>1. me.left_child = sub.left_child
    BY <1>3
  <2>2. sub.left_child # NoRank =>
          /\ sub.left_child \in Ranks(s, z) /\ sub.left_child < r
          /\ NodeAt(sub.left_child, s, z).parent = r
    BY <1>4 DEF LinkOK
  <2>. QED BY <1>1, <1>7, <2>1, <2>2
<1>9. me.right_child # NoRank =>
        /\ me.right_child \in Ranks(size, rank0) /\ r < me.right_child
        /\ NodeAt(me.right_child, size, rank0).parent = r
  <2>1. me.right_child = sub.right_child
    BY <1>3
  <2>2. sub.right_child # NoRank =>
          /\ sub.right_child \in Ranks(s, z) /\ r < sub.right_child
          /\ NodeAt(sub.right_child, s, z).parent = r
    BY <1>4 DEF LinkOK
  <2>. QED BY <1>1, <1>7, <2>1, <2>2
<1>10. LinkOK(r, size, rank0)
  <2>. HIDE DEF me
  <2>1. LET m == me IN LinkOK(r, size, rank0)
    BY <1>5, <1>6, <1>8, <1>9 DEF LinkOK, me
  <2>. QED BY <2>1
<1>. QED BY <1>3, <1>10

\* Two subtrees and the rank between them
LEMMA Grown ==
  ASSUME NEW size \in Nat, size > 3, NEW rank0 \in Int, NoRank \notin Ranks(size, rank0),
         NEW l \in 1 .. size - 2, NEW m \in 1 .. size - 2, size = l + m + 1,
         Log2[l] + 1 <= Log2[size], Log2[m] + 1 <= Log2[size],
         RootOf(size, rank0) = rank0 + l,
         Subtree(l, rank0), Subtree(m, rank0 + l + 1)
  PROVE  Subtree(size, rank0)
<1>. DEFINE root == rank0 + l
            low  == Ranks(l, rank0)
            high == Ranks(m, root + 1)
            all  == Ranks(size, rank0)
            cl   == get_rank_of_root(l, rank0)
            ch   == get_rank_of_root(m, root + 1)
<1>1. /\ all = low \cup high \cup {root} /\ root \notin low /\ root \notin high
      /\ \A r \in low : r \in Int /\ r < root
      /\ \A r \in high : r \in Int /\ r > root
      /\ \A r \in low : r \notin high
  BY DEF Ranks
<1>2. get_rank_of_root(size, rank0) = root
  BY DEF get_rank_of_root
<1>3. cl \in low /\ ch \in high
  BY DEF Subtree
<1>4. NodeAt(root, size, rank0) = Node(root, NoRank, cl, ch)
  <2>1. root \in Int /\ root - rank0 = l /\ size - (root - rank0) - 1 = m
    OBVIOUS
  <2>2. NodeAt(root, size, rank0) = Inner(size, rank0, root)
    BY <2>1, NodeIs
  <2>. QED BY <2>1, <2>2 DEF Inner
<1>5. ASSUME NEW r \in low
      PROVE  NodeAt(r, size, rank0) = Linked(NodeAt(r, l, rank0), root)
  <2>1. r \in Int /\ r < root /\ ~ (r = root) /\ root - rank0 = l
    BY <1>1
  <2>2. NodeAt(r, size, rank0) = Linked(NodeAt(r, root - rank0, rank0), root)
    <3>1. RootOf(size, rank0) = root /\ ~ (size <= 3)
      OBVIOUS
    <3>. HIDE DEF low, root
    <3>. QED BY <2>1, <3>1, NodeIs
  <2>. QED BY <2>1, <2>2
<1>6. ASSUME NEW r \in high
      PROVE  NodeAt(r, size, rank0) = Linked(NodeAt(r, m, root + 1), root)
  <2>1. r \in Int /\ ~ (r < root) /\ ~ (r = root) /\ size - (root - rank0) - 1 = m
    BY <1>1
  <2>2. NodeAt(r, size, rank0) =
          Linked(NodeAt(r, size - (root - rank0) - 1, root + 1), root)
    <3>1. RootOf(size, rank0) = root /\ ~ (size <= 3)
      OBVIOUS
    <3>. HIDE DEF high, root
    <3>. QED BY <2>1, <3>1, NodeIs
  <2>. QED BY <2>1, <2>2
<1>7. Subtree(l, rank0) /\ Subtree(m, root + 1)
  OBVIOUS
<1>8. /\ l \in Nat \ {0} /\ m \in Nat \ {0} /\ root \in Int /\ root + 1 \in Int
  OBVIOUS
<1>9. ASSUME NEW r \in low
      PROVE  /\ LinkOK(r, size, rank0)
             /\ NodeAt(r, size, rank0).parent = IF r = cl THEN root ELSE NodeAt(r, l, rank0).parent
  <2>1. cl = IF cl < root THEN NodeAt(root, size, rank0).left_child
                          ELSE NodeAt(root, size, rank0).right_child
    BY <1>1, <1>3, <1>4 DEF Node
  <2>2. low \subseteq all /\ root \in all \ low
    BY <1>1
  <2>3. Hangs(l, rank0, root, size, rank0)
    <3>. HIDE DEF root
    <3>. QED BY <1>2, <1>5, <1>7, <1>8, <2>1, <2>2 DEF Hangs
  <2>. HIDE DEF root
  <2>. QED BY <2>3, Under
<1>10. ASSUME NEW r \in high
      PROVE  /\ LinkOK(r, size, rank0)
             /\ NodeAt(r, size, rank0).parent = IF r = ch THEN root ELSE NodeAt(r, m, root + 1).parent
  <2>1. ch = IF ch < root THEN NodeAt(root, size, rank0).left_child
                          ELSE NodeAt(root, size, rank0).right_child
    BY <1>1, <1>3, <1>4 DEF Node
  <2>2. high \subseteq all /\ root \in all \ high
    BY <1>1
  <2>. HIDE DEF root
  <2>3. /\ Ranks(m, root + 1) \subseteq Ranks(size, rank0)
        /\ root \in Ranks(size, rank0) \ Ranks(m, root + 1)
    BY <2>2
  <2>4. \A x \in Ranks(m, root + 1) :
           NodeAt(x, size, rank0) = Linked(NodeAt(x, m, root + 1), root)
    BY <1>6
  <2>5. LET c == get_rank_of_root(m, root + 1) IN
        c = IF c < root THEN NodeAt(root, size, rank0).left_child
                        ELSE NodeAt(root, size, rank0).right_child
    BY <2>1
  <2>6. Hangs(m, root + 1, root, size, rank0)
    <3>. HIDE DEF high, all, ch
    <3>. QED BY <1>2, <1>7, <1>8, <2>3, <2>4, <2>5 DEF Hangs, all
  <2>. QED BY <2>6, Under
<1>11. LinkOK(root, size, rank0)
  <2>1. NodeAt(cl, size, rank0).parent = root /\ NodeAt(ch, size, rank0).parent = root
    BY <1>3, <1>9, <1>10
  <2>. HIDE DEF root, cl, ch, low, high, all
  <2>. QED BY <1>1, <1>2, <1>3, <1>4, <2>1 DEF LinkOK, Node, all
<1>12. \E d \in [all -> Nat] : Levels(d, size, rank0)
  <2>1. PICK dl \in [low -> Nat] : Levels(dl, l, rank0)
    BY DEF Subtree
  <2>2. PICK dh \in [high -> Nat] : Levels(dh, m, root + 1)
    BY DEF Subtree
  <2>. DEFINE d == [r \in all |-> IF r = root THEN 0 ELSE IF r \in low THEN dl[r] + 1 ELSE dh[r] + 1]
  <2>. HIDE DEF root, low, high, all, cl, ch
  <2>3. d \in [all -> Nat]
    BY <1>1, <2>1, <2>2
  <2>4. d[root] = 0 /\ (\A r \in low : d[r] = dl[r] + 1) /\ (\A r \in high : d[r] = dh[r] + 1)
    BY <1>1
  <2>5. Log2[size] \in Nat /\ Log2[l] \in Nat /\ Log2[m] \in Nat
    BY <1>8, Log2Recursion
  <2>. HIDE DEF d
  <2>6. ASSUME NEW r \in low
        PROVE  d[r] <= Log2[size] /\ d[r] = d[NodeAt(r, size, rank0).parent] + 1
    <3>1. /\ dl[r] <= Log2[l] /\ dl[r] \in Nat
          /\ IF r = cl THEN dl[r] = 0 ELSE dl[r] = dl[NodeAt(r, l, rank0).parent] + 1
      BY <2>1 DEF Levels, low, cl
    <3>2. r # cl => NodeAt(r, l, rank0).parent \in low
      BY <1>7 DEF Subtree, LinkOK, low, cl
    <3>3. d[r] <= Log2[size]
      BY <2>4, <2>5, <3>1
    <3>. QED BY <1>9, <2>4, <3>1, <3>2, <3>3
  <2>7. ASSUME NEW r \in high
        PROVE  d[r] <= Log2[size] /\ d[r] = d[NodeAt(r, size, rank0).parent] + 1
    <3>1. /\ dh[r] <= Log2[m] /\ dh[r] \in Nat
          /\ IF r = ch THEN dh[r] = 0 ELSE dh[r] = dh[NodeAt(r, m, root + 1).parent] + 1
      BY <2>2 DEF Levels, high, ch
    <3>2. r # ch => NodeAt(r, m, root + 1).parent \in high
      BY <1>7 DEF Subtree, LinkOK, high, ch
    <3>3. d[r] <= Log2[size]
      BY <2>4, <2>5, <3>1
    <3>. QED BY <1>10, <2>4, <3>1, <3>2, <3>3
  <2>8. Levels(d, size, rank0)
    <3>1. ASSUME NEW r \in all
          PROVE  /\ d[r] <= Log2[size]
                 /\ IF r = root THEN d[r] = 0 ELSE d[r] = d[NodeAt(r, size, rank0).parent] + 1
      BY <1>1, <2>4, <2>5, <2>6, <2>7
    <3>. QED BY <1>2, <3>1 DEF Levels, all
  <2>. QED BY <2>3, <2>8
<1>13. \A r \in all : LinkOK(r, size, rank0)
  BY <1>1, <1>9, <1>10, <1>11
<1>. QED BY <1>1, <1>2, <1>12, <1>13 DEF Subtree

\* Every group of ranks is numbered as a tree.
LEMMA SubtreesAreTrees ==
  ASSUME NEW size \in Nat \ {0}, NEW rank0 \in Int, NoRank \notin Ranks(size, rank0)
  PROVE  Subtree(size, rank0)
<1>. DEFINE D == Nat
            M == [n \in D |-> n]
            S == {n \in Nat : \A z \in Int : n # 0 /\ NoRank \notin Ranks(n, z) => Subtree(n, z)}
<1>1. ASSUME NEW n \in D, \A y \in D : M[y] < M[n] => y \in S
      PROVE  n \in S
  <2>. SUFFICES ASSUME NEW z \in Int, n # 0, NoRank \notin Ranks(n, z)
                PROVE  Subtree(n, z)
    OBVIOUS
  <2>1. CASE n \in 1 .. 3
    BY <2>1, SmallTrees
  <2>2. CASE n > 3
    <3>1. PICK l \in 1 .. n - 2 : \E m \in 1 .. n - 2 :
            /\ RootOf(n, z) = z + l /\ n = l + m + 1
            /\ Log2[l] + 1 <= Log2[n] /\ Log2[m] + 1 <= Log2[n]
      BY <2>2, RootSplits
    <3>2. PICK m \in 1 .. n - 2 :
            /\ RootOf(n, z) = z + l /\ n = l + m + 1
            /\ Log2[l] + 1 <= Log2[n] /\ Log2[m] + 1 <= Log2[n]
      BY <3>1
    <3>3. l \in S /\ m \in S
      <4>1. l \in D /\ M[l] < M[n] /\ m \in D /\ M[m] < M[n]
        BY <2>2
      <4>. QED BY <1>1, <4>1
    <3>4. NoRank \notin Ranks(l, z) /\ NoRank \notin Ranks(m, z + l + 1)
      BY <3>2 DEF Ranks
    <3>5. Subtree(l, z) /\ Subtree(m, z + l + 1)
      BY <3>3, <3>4
    <3>. HIDE DEF S, D, M
    <3>. QED BY <2>2, <3>2, <3>5, Grown DEF D
  <2>. QED BY <2>1, <2>2
<1>2. D \subseteq S
  <2>1. M \in [D -> Nat]
    OBVIOUS
  <2>. HIDE DEF D, M, S
  <2>. QED BY <1>1, <2>1, AlongMeasure
<1>. QED BY <1>2

-----------------------------------------------------------------------------
(* What InfixTree promises of the whole tree *)

\* The tree of a whole group is a subtree that starts at rank 0.
LEMMA NodesOfTree ==
  ASSUME NEW size \in 1 .. MaxSize
  PROVE  /\ \A r : NodeOf(r, size) = NodeAt(r, size, 0)
         /\ Ranks(size, 0) = 0 .. size - 1
         /\ NoRank \notin 0 .. size - 1
         /\ Subtree(size, 0)
<1>1. Ranks(size, 0) = 0 .. size - 1 /\ NoRank \notin 0 .. size - 1
  BY NoRankAssumption DEF Ranks
<1>. QED BY <1>1, NoRankAssumption, SubtreesAreTrees DEF NodeOf, NodeAt

\* The links of every tree agree.
LEMMA MutualLinks == LinksAreMutual
<1>. SUFFICES ASSUME NEW size \in 1 .. MaxSize, NEW r \in 0 .. size - 1
              PROVE  LET me == NodeOf(r, size) up == NodeOf(me.parent, size) IN
                     /\ IF r = get_rank_of_root(size, 0) THEN me.parent = NoRank
                        ELSE /\ me.parent \in 0 .. size - 1
                             /\ r = IF is_left_child(me) THEN up.left_child ELSE up.right_child
                     /\ \A c \in {me.left_child, me.right_child} \ {NoRank} :
                          c \in 0 .. size - 1 /\ NodeOf(c, size).parent = r
  BY DEF LinksAreMutual
<1>1. LinkOK(r, size, 0)
  BY NodesOfTree DEF Subtree
<1>. QED BY <1>1, NodesOfTree DEF LinkOK, is_left_child

Climbs == Nat \X Int \X Nat
Steps == [at \in Climbs |-> at[3]]
Climb(g, at) ==
    LET r == at[2] n == at[3] p == NodeOf(r, at[1]).parent
    IN IF n = 0 \/ p = NoRank THEN r ELSE g[<<at[1], p, n - 1>>]

\* Above is what its recursion says.
LEMMA AboveRecursion ==
  \A at \in Climbs : Above[at] = Climb(Above, at)
<1>. DEFINE R == [at \in Climbs |-> [g \in [Climbs -> Int] |-> Climb(g, at)]]
<1>1. Steps \in [Climbs -> Nat]
  BY DEF Climbs, Steps
<1>2. ASSUME NEW at \in Climbs
      PROVE  /\ at[1] \in Nat /\ at[2] \in Int /\ at[3] \in Nat /\ Steps[at] = at[3]
             /\ NodeOf(at[2], at[1]).parent \in Int
             /\ at[3] # 0 =>
                  LET next == <<at[1], NodeOf(at[2], at[1]).parent, at[3] - 1>> IN
                  next \in Climbs /\ Steps[next] < Steps[at]
  <2>1. at[1] \in Nat /\ at[2] \in Int /\ at[3] \in Nat /\ Steps[at] = at[3]
    BY DEF Climbs, Steps
  <2>2. NodeOf(at[2], at[1]).parent \in Int
    <3>1. <<at[2], at[1], 0>> \in Places
      BY <2>1 DEF Places
    <3>2. NodeOf(at[2], at[1]) \in Nodes
      BY <3>1, TreeRecursion DEF NodeOf
    <3>. QED BY <3>2 DEF Nodes
  <2>3. ASSUME NEW p \in Int, at[3] # 0
        PROVE  <<at[1], p, at[3] - 1>> \in Climbs /\ Steps[<<at[1], p, at[3] - 1>>] < Steps[at]
    <3>1. at[3] - 1 \in Nat
      BY <2>1, <2>3
    <3>2. <<at[1], p, at[3] - 1>> \in Climbs
      BY <2>1, <3>1 DEF Climbs
    <3>3. Steps[<<at[1], p, at[3] - 1>>] = at[3] - 1
      BY <3>2 DEF Steps
    <3>. QED BY <2>1, <3>2, <3>3
  <2>. QED BY <2>1, <2>2, <2>3
<1>3. R \in [Climbs -> [[Climbs -> Int] -> Int]]
  <2>1. ASSUME NEW at \in Climbs, NEW g \in [Climbs -> Int]
        PROVE  Climb(g, at) \in Int
    BY <1>2 DEF Climb
  <2>. QED BY <2>1
<1>4. ASSUME NEW at \in Climbs, NEW f, NEW g,
             \A y \in Climbs : Steps[y] < Steps[at] => f[y] = g[y]
      PROVE  Climb(f, at) = Climb(g, at)
  BY <1>2, <1>4 DEF Climb
<1>5. \E f \in [Climbs -> Int] : f = [at \in Climbs |-> R[at][f]]
  <2>1. \A at \in Climbs : \A f, g \in [Climbs -> Int] :
           (\A y \in Climbs : Steps[y] < Steps[at] => f[y] = g[y]) => R[at][f] = R[at][g]
    <3>. SUFFICES ASSUME NEW at \in Climbs, NEW f \in [Climbs -> Int], NEW g \in [Climbs -> Int],
                         \A y \in Climbs : Steps[y] < Steps[at] => f[y] = g[y]
                  PROVE  Climb(f, at) = Climb(g, at)
      OBVIOUS
    <3>. QED BY <1>4
  <2>2. Int # {}
    OBVIOUS
  <2>. HIDE DEF R
  <2>3. Recursive(Climbs, Int, Steps, R)
    BY <1>1, <1>3, <2>1, <2>2 DEF Recursive
  <2>. QED BY <2>3, Recursion
<1>6. PICK f : f = [at \in Climbs |-> Climb(f, at)]
  BY <1>5
<1>7. Above = [at \in Climbs |-> Climb(Above, at)]
  BY <1>6 DEF Above, Climb, Climbs
<1>. QED BY <1>7

\* Who climbs once per level is at the root.
LEMMA RanksReached == EveryRankIsReached
<1>. SUFFICES ASSUME NEW size \in 1 .. MaxSize, NEW r \in 0 .. size - 1
              PROVE  Above[<<size, r, Log2[size]>>] = get_rank_of_root(size, 0)
  BY DEF EveryRankIsReached
<1>. DEFINE root == get_rank_of_root(size, 0)
            index == 0 .. size - 1
<1>1. PICK d \in [index -> Nat] : Levels(d, size, 0)
  BY NodesOfTree DEF Subtree
<1>2. ASSUME NEW x \in index
      PROVE  /\ d[x] <= Log2[size]
             /\ x = root => d[x] = 0
             /\ x = root <=> NodeOf(x, size).parent = NoRank
             /\ x # root => /\ NodeOf(x, size).parent \in index
                            /\ d[x] = d[NodeOf(x, size).parent] + 1
  <2>1. LinkOK(x, size, 0)
    BY NodesOfTree DEF Subtree
  <2>. QED BY <1>1, <2>1, NodesOfTree DEF LinkOK, Levels
<1>. DEFINE D == Nat
            M == [n \in D |-> n]
            S == {n \in Nat : \A x \in index : d[x] <= n => Above[<<size, x, n>>] = root}
<1>3. ASSUME NEW n \in D, \A y \in D : M[y] < M[n] => y \in S
      PROVE  n \in S
  <2>. SUFFICES ASSUME NEW x \in index, d[x] <= n
                PROVE  Above[<<size, x, n>>] = root
    OBVIOUS
  <2>. DEFINE p == NodeOf(x, size).parent
  <2>1. Above[<<size, x, n>>] =
          IF n = 0 \/ p = NoRank THEN x ELSE Above[<<size, p, n - 1>>]
    <3>1. <<size, x, n>> \in Climbs
      BY NoRankAssumption DEF Climbs
    <3>. QED BY <3>1, AboveRecursion DEF Climb
  <2>2. CASE x = root
    BY <1>2, <2>1, <2>2
  <2>3. CASE x # root
    <3>1. p \in index /\ d[x] = d[p] + 1 /\ d[p] \in Nat /\ p # NoRank
      BY <1>2, <2>3
    <3>2. n # 0 /\ d[p] <= n - 1 /\ n - 1 \in D /\ M[n - 1] < M[n]
      <4>. HIDE DEF p
      <4>. QED BY <3>1
    <3>3. Above[<<size, p, n - 1>>] = root
      BY <1>3, <3>1, <3>2
    <3>. QED BY <2>1, <3>1, <3>2, <3>3
  <2>. QED BY <2>2, <2>3
<1>4. D \subseteq S
  <2>1. M \in [D -> Nat]
    OBVIOUS
  <2>. HIDE DEF D, M, S
  <2>. QED BY <1>3, <2>1, AlongMeasure
<1>5. Log2[size] \in Nat
  BY Log2Recursion
<1>. QED BY <1>2, <1>4, <1>5

LEMMA TreesRight == TreesAreRight
  BY MutualLinks, RanksReached DEF TreesAreRight

-----------------------------------------------------------------------------
(* The invariant of the barrier *)

Bit(b) == IF b THEN 1 ELSE 0

\* How many notifications of each kind rank i has sent and used up, all barriers together.
InBarrier(i) == i \in barrier_is_in_progress
UpSent(i)    == passed[i] + Bit(InBarrier(i) /\ i \in right_child_ok /\ pc[i] /= "up")
LeftUsed(i)  == passed[i] + Bit(InBarrier(i) /\ i \in left_child_ok)
RightUsed(i) == passed[i] + Bit(InBarrier(i) /\ i \in right_child_ok)
DownUsed(i)  == passed[i] + Bit(pc[i] = "down")

\* Where each rank is, and what its flags say of that.
ProgressInv ==
    \A i \in Index :
        /\ entered[i] = passed[i] + Bit(InBarrier(i))
        /\ pc[i] /= "out" => InBarrier(i)
        /\ InBarrier(i) /\ i \in right_child_ok => i \in left_child_ok
        /\ pc[i] = "handshake" => i \notin left_child_ok
        /\ pc[i] \in {"handshake", "left", "right"} => i \notin right_child_ok
        /\ pc[i] = "right" => i \in left_child_ok
        /\ pc[i] \in {"up", "parent", "down"} => i \in right_child_ok

Sent(i, id) == IF id = FromParent THEN passed[Parent[i]] ELSE UpSent(Sender(i, id))
Used(i, id) == IF id = FromParent THEN DownUsed(i)
               ELSE IF id = FromLeft THEN LeftUsed(i) ELSE RightUsed(i)

\* What has been sent and not used up is on its way, or set: one notification at most.
Link(i, id) ==
    LET from == Sender(i, id) IN
    IF from = NoRank THEN wire[i][id] = <<>> /\ notification[i][id] = 0
    ELSE /\ wire[i][id] \in {<<>>, <<RanksInGroup[from] + 1>>}
         /\ notification[i][id] \in {0, RanksInGroup[from] + 1}
         /\ Bit(wire[i][id] /= <<>>) + Bit(notification[i][id] /= 0) = Sent(i, id) - Used(i, id)

LinkInv ==
    /\ wire \in [Index -> [0 .. 2 -> Seq(Nat)]]
    /\ \A i \in Index : \A id \in 0 .. 2 : Link(i, id)

BarrierInv == TypeOK /\ ProgressInv /\ LinkInv

-----------------------------------------------------------------------------
(* The tree of the barrier *)

LEMMA BarrierTree ==
  /\ Subtree(N, 0) /\ Ranks(N, 0) = Index
  /\ \A i \in Index : /\ Parent[i] = NodeAt(i, N, 0).parent
                      /\ Left[i] = NodeAt(i, N, 0).left_child
                      /\ Right[i] = NodeAt(i, N, 0).right_child
                      /\ IsLeftChild(i) <=> i < Parent[i]
  <1>1. Ranks(N, 0) = Index /\ N \in Nat \ {0} /\ NoRank \notin Index
    BY BarrierAssumption DEF Ranks, Index
  <1>2. Subtree(N, 0)
    BY <1>1, SubtreesAreTrees
  <1>3. ASSUME NEW i \in Index
        PROVE  /\ Parent[i] = NodeAt(i, N, 0).parent
               /\ Left[i] = NodeAt(i, N, 0).left_child
               /\ Right[i] = NodeAt(i, N, 0).right_child
               /\ IsLeftChild(i) <=> i < Parent[i]
    <2>1. neighbors[i] = NodeAt(i, N, 0)
      BY DEF neighbors, NodeOf, NodeAt
    <2>2. NodeAt(i, N, 0).rank = i
      BY <1>1, <1>2 DEF Subtree, LinkOK
    <2>3. Parent[i] = neighbors[i].parent
      BY DEF Parent
    <2>. QED BY <2>1, <2>2, <2>3 DEF Left, Right, IsLeftChild, is_left_child
  <1>. QED BY <1>1, <1>2, <1>3

LEMMA Tree ==
  ASSUME NEW i \in Index
  PROVE  /\ Parent[i] \in Index \cup {NoRank} /\ Left[i] \in Index \cup {NoRank}
         /\ Right[i] \in Index \cup {NoRank}
         /\ i \in Int /\ NoRank \notin Index
         /\ RanksInGroup[i] \in Nat
  <1>1. RanksInGroup \in [Index -> Nat] /\ NoRank \notin Index /\ i \in Int
    BY BarrierAssumption DEF Index
  <1>2. LinkOK(i, N, 0)
    BY BarrierTree DEF Subtree
  <1>3. QED
    BY <1>1, <1>2, BarrierTree DEF LinkOK

\* A parent's child knows its parent, left children come before and right ones after it.
LEMMA TreeLinks ==
  ASSUME NEW i \in Index
  PROVE  /\ Left[i] /= NoRank => Left[i] < i /\ Parent[Left[i]] = i
         /\ Right[i] /= NoRank => i < Right[i] /\ Parent[Right[i]] = i
         /\ Parent[i] /= NoRank => i = IF IsLeftChild(i) THEN Left[Parent[i]] ELSE Right[Parent[i]]
  <1>1. LinkOK(i, N, 0) /\ NoRank \notin Index
    BY BarrierTree, Tree DEF Subtree
  <1>2. /\ Parent[i] = NodeAt(i, N, 0).parent /\ (IsLeftChild(i) <=> i < Parent[i])
        /\ Left[i] = NodeAt(i, N, 0).left_child /\ Right[i] = NodeAt(i, N, 0).right_child
    BY BarrierTree
  <1>3. \A j \in Index : /\ Parent[j] = NodeAt(j, N, 0).parent
                         /\ Left[j] = NodeAt(j, N, 0).left_child
                         /\ Right[j] = NodeAt(j, N, 0).right_child
    BY BarrierTree
  <1>4. Parent[i] /= NoRank => Parent[i] \in Index
    BY Tree
  <1>5. Ranks(N, 0) = Index
    BY BarrierTree
  <1>6. QED
    BY <1>1, <1>2, <1>3, <1>4, <1>5 DEF LinkOK

\* Who starts at the root and goes to all children reaches every rank.
LEMMA TreeSpans ==
  \E root \in Index :
    /\ Parent[root] = NoRank
    /\ \A S \in SUBSET Index :
        root \in S /\ (\A i \in S : {Left[i], Right[i]} \ {NoRank} \subseteq S) => S = Index
  <1> DEFINE root == get_rank_of_root(N, 0)
  <1>1. Ranks(N, 0) = Index /\ root \in Index /\ NoRank \notin Index
    BY BarrierTree, Tree DEF Subtree
  <1>2. PICK d \in [Index -> Nat] : Levels(d, N, 0)
    BY <1>1, BarrierTree DEF Subtree
  <1>3. ASSUME NEW i \in Index
        PROVE  /\ i = root <=> Parent[i] = NoRank
               /\ i /= root => /\ Parent[i] \in Index /\ d[Parent[i]] < d[i]
                               /\ i \in {Left[Parent[i]], Right[Parent[i]]} \ {NoRank}
    <2>1. LinkOK(i, N, 0) /\ Parent[i] = NodeAt(i, N, 0).parent
      BY BarrierTree DEF Subtree
    <2>2. i = root <=> Parent[i] = NoRank
      BY <1>1, <2>1 DEF LinkOK
    <2>3. i /= root => Parent[i] \in Index /\ d[i] = d[Parent[i]] + 1
      BY <1>1, <1>2, <2>1 DEF LinkOK, Levels
    <2>4. i /= root => i \in {Left[Parent[i]], Right[Parent[i]]} \ {NoRank}
      BY <1>1, <2>2, TreeLinks
    <2>5. i /= root => d[Parent[i]] < d[i]
      BY <2>3
    <2>6. QED
      BY <2>2, <2>3, <2>4, <2>5
  <1> HIDE DEF root
  <1>4. ASSUME NEW S \in SUBSET Index, root \in S,
               \A i \in S : {Left[i], Right[i]} \ {NoRank} \subseteq S
        PROVE  S = Index
    <2>1. ASSUME NEW i \in Index, \A j \in Index : d[j] < d[i] => j \in S
          PROVE  i \in S
      BY <1>3, <1>4, <2>1
    <2>2. Index \subseteq S
      BY <2>1, AlongMeasure
    <2>3. QED
      BY <2>2
  <1>5. QED
    BY <1>1, <1>3, <1>4

\* The notification that i sends up is the one its parent waits for from i.
LEMMA UpLink ==
  ASSUME NEW i \in Index, Parent[i] /= NoRank
  PROVE  Sender(Parent[i], IF IsLeftChild(i) THEN FromLeft ELSE FromRight) = i
  BY TreeLinks DEF Sender, FromLeft, FromRight, FromParent

\* A rank gets each kind of notification from one rank, which sends it along one link.
LEMMA OneSender ==
  ASSUME NEW j \in Index, NEW id \in 0 .. 2, Sender(j, id) /= NoRank
  PROVE  /\ Sender(j, id) \in Index
         /\ id = FromParent =>
              (j = IF IsLeftChild(j) THEN Left[Sender(j, id)] ELSE Right[Sender(j, id)])
         /\ id /= FromParent => /\ j = Parent[Sender(j, id)]
                                /\ id = IF IsLeftChild(Sender(j, id)) THEN FromLeft ELSE FromRight
  <1>1. Sender(j, id) \in Index
    BY Tree DEF Sender
  <1>2. CASE id = FromParent
    BY <1>1, <1>2, TreeLinks DEF Sender
  <1>3. CASE id = FromLeft
    BY <1>1, <1>3, TreeLinks, Tree, BarrierTree DEF Sender, FromParent, FromLeft
  <1>4. CASE id = FromRight
    <2>1. Sender(j, id) = Right[j]
      BY <1>4 DEF Sender, FromParent, FromLeft, FromRight
    <2>2. j < Right[j] /\ Parent[Right[j]] = j
      BY <2>1, TreeLinks
    <2>3. ~ (Right[j] < j)
      BY <1>1, <2>1, <2>2 DEF Index
    <2>4. QED
      BY <1>1, <1>4, <2>1, <2>2, <2>3, BarrierTree DEF FromParent, FromRight
  <1>5. QED
    BY <1>1, <1>2, <1>3, <1>4 DEF FromParent, FromLeft, FromRight

-----------------------------------------------------------------------------
(* What the counts imply: at most one notification is pending on a link *)

LEMMA CountTypes ==
  ASSUME TypeOK, NEW i \in Index
  PROVE  /\ passed[i] \in Nat /\ entered[i] \in Nat
         /\ UpSent(i) \in {passed[i], passed[i] + 1} /\ LeftUsed(i) \in {passed[i], passed[i] + 1}
         /\ RightUsed(i) \in {passed[i], passed[i] + 1} /\ DownUsed(i) \in {passed[i], passed[i] + 1}
  <1>1. passed[i] \in Nat /\ entered[i] \in Nat
    BY BarrierAssumption DEF TypeOK
  <1>2. \A b \in BOOLEAN : Bit(b) \in {0, 1}
    BY DEF Bit
  <1>3. QED
    BY <1>1, <1>2 DEF UpSent, LeftUsed, RightUsed, DownUsed, Bit

LEMMA NothingUsedEarly ==
  ASSUME BarrierInv, NEW j \in Index, NEW id \in 0 .. 2, Sender(j, id) /= NoRank
  PROVE  Used(j, id) <= Sent(j, id) /\ Used(j, id) \in Int /\ Sent(j, id) \in Int
  <1>1. Sender(j, id) \in Index
    BY OneSender
  <1>2. Link(j, id) /\ TypeOK
    BY DEF BarrierInv, LinkInv
  <1>3. Used(j, id) \in Int /\ Sent(j, id) \in Int
    BY <1>1, <1>2, CountTypes DEF Used, Sent, Sender
  <1>4. Sent(j, id) - Used(j, id) >= 0
    BY <1>2 DEF Link, Bit
  <1>5. QED
    BY <1>3, <1>4

LEMMA OneAtMost ==
  ASSUME BarrierInv, NEW j \in Index, NEW id \in 0 .. 2, Sender(j, id) /= NoRank
  PROVE  /\ Sent(j, id) - Used(j, id) \in {0, 1}
         /\ id /= FromParent /\ Used(j, id) = passed[j] + 1 => Sent(j, id) = Used(j, id)
  <1> DEFINE s == Sender(j, id)
  <1>1. s \in Index /\ TypeOK
    BY OneSender DEF BarrierInv
  <1>2. Used(j, id) <= Sent(j, id) /\ Used(j, id) \in Int /\ Sent(j, id) \in Int
    BY NothingUsedEarly
  <1>3. CASE id = FromParent
    <2>1. \E u \in {FromLeft, FromRight} : Sender(s, u) = j
      BY <1>3, UpLink, OneSender, Tree DEF Sender
    <2>2. PICK u \in {FromLeft, FromRight} : Sender(s, u) = j
      BY <2>1
    <2>3. Used(s, u) <= Sent(s, u)
      BY <1>1, <2>2, Tree, NothingUsedEarly DEF FromLeft, FromRight
    <2>4. Sent(s, u) = UpSent(j) /\ Used(s, u) \in {LeftUsed(s), RightUsed(s)}
      BY <2>2 DEF Sent, Used, FromLeft, FromRight, FromParent
    <2>5. Sent(j, id) = passed[s] /\ Used(j, id) = DownUsed(j)
      BY <1>3 DEF Sent, Used, Sender
    <2>6. passed[s] <= DownUsed(j) + 1
      BY <1>1, <2>3, <2>4, CountTypes
    <2>7. QED
      BY <1>1, <1>2, <1>3, <2>5, <2>6, CountTypes
  <1>4. CASE id /= FromParent
    <2>1. Sender(s, FromParent) = j
      BY <1>4, OneSender DEF Sender
    <2>2. Used(s, FromParent) <= Sent(s, FromParent)
      BY <1>1, <2>1, Tree, NothingUsedEarly DEF FromParent
    <2>3. DownUsed(s) <= passed[j]
      BY <2>1, <2>2 DEF Sent, Used, Sender
    <2>4. Sent(j, id) = UpSent(s) /\ Used(j, id) \in {LeftUsed(j), RightUsed(j)}
      BY <1>4 DEF Sent, Used
    <2>5. UpSent(s) <= passed[j] + 1
      BY <1>1, <2>3, CountTypes
    <2>6. Used(j, id) \in {passed[j], passed[j] + 1}
      BY <1>1, <2>4, CountTypes
    <2>7. QED
      BY <1>1, <1>2, <2>4, <2>5, <2>6, CountTypes
  <1>5. QED
    BY <1>3, <1>4

-----------------------------------------------------------------------------
(* Types and progress *)

LEMMA BarrierTypeInit == Init => TypeOK
  BY BarrierAssumption DEF Init, TypeOK

LEMMA NotifyType ==
  ASSUME NEW w \in [Index -> [0 .. 2 -> Seq(Nat)]], NEW i \in Index,
         NEW to \in Index \cup {NoRank}, NEW id \in 0 .. 2
  PROVE  Notify(w, i, to, id) \in [Index -> [0 .. 2 -> Seq(Nat)]]
  <1>1. RanksInGroup[i] + 1 \in Nat
    BY Tree
  <1>2. CASE to = NoRank
    BY <1>2 DEF Notify
  <1>3. CASE to /= NoRank
    <2>1. to \in Index /\ w[to] \in [0 .. 2 -> Seq(Nat)] /\ w[to][id] \in Seq(Nat)
      BY <1>3
    <2>2. Append(w[to][id], RanksInGroup[i] + 1) \in Seq(Nat)
      BY <1>1, <2>1
    <2>3. QED
      BY <1>3, <2>1, <2>2 DEF Notify
  <1>4. QED
    BY <1>2, <1>3

LEMMA ProgressInit == Init => ProgressInv
  BY DEF Init, ProgressInv, InBarrier, Bit

\* What the next rank of a step may have changed of the others: nothing but what is on its way.
LEMMA StepTypes ==
  ASSUME BarrierInv, NEW i \in Index,
         Step(i) \/ HandshakeSend(i) \/ HandshakeReceive(i) \/ Timeout(i)
  PROVE  TypeOK' /\ wire' \in [Index -> [0 .. 2 -> Seq(Nat)]]
  <1>t. TypeOK /\ ProgressInv /\ wire \in [Index -> [0 .. 2 -> Seq(Nat)]]
    BY DEF BarrierInv, LinkInv
  <1>0. entered[i] \in 0 .. MaxBarriers /\ passed[i] \in 0 .. MaxBarriers
    BY <1>t DEF TypeOK
  <1> USE DEF Goto, flags, shake, signals
  <1>1. CASE Enter(i)
    <2>1. ~ InBarrier(i) => entered[i] + 1 \in 0 .. MaxBarriers
      BY <1>0, <1>1, BarrierAssumption DEF Enter, InBarrier
    <2>2. entered' \in [Index -> 0 .. MaxBarriers]
      BY <1>1, <1>t, <2>1 DEF Enter, TypeOK, InBarrier
    <2>3. /\ left_child_ok' \subseteq Index /\ right_child_ok' \subseteq Index
          /\ barrier_is_in_progress' \subseteq Index
      BY <1>1, <1>t DEF Enter, TypeOK
    <2>4. pc' \in [Index -> {"out", "handshake", "left", "right", "up", "parent", "down"}]
      BY <1>1, <1>t DEF Enter, TypeOK
    <2>5. UNCHANGED <<timeouts, handshake_ok, msg_sent, msg_recieved, passive, wire, notification,
                      passed>>
      BY <1>1 DEF Enter
    <2>6. QED
      BY <1>t, <2>2, <2>3, <2>4, <2>5 DEF TypeOK
  <1>2. CASE HandshakeSend(i)
    <2>1. Neighbors(i) \subseteq Index
      BY Tree DEF Neighbors
    <2>2. msg_sent' \in [Index -> SUBSET Index]
      <3>1. PICK n \in Neighbors(i) : msg_sent' = [msg_sent EXCEPT ![i] = @ \cup {n}]
        BY <1>2 DEF HandshakeSend
      <3>2. msg_sent[i] \cup {n} \in SUBSET Index
        BY <1>t, <2>1 DEF TypeOK
      <3>3. QED
        BY <1>t, <3>1, <3>2 DEF TypeOK
    <2>3. QED
      BY <1>2, <1>t, <2>2 DEF HandshakeSend, TypeOK
  <1>3. CASE HandshakeReceive(i)
    <2>1. Neighbors(i) \subseteq Index
      BY Tree DEF Neighbors
    <2>2. msg_recieved' \in [Index -> SUBSET Index]
      <3>1. PICK m : msg_recieved' = [msg_recieved EXCEPT ![i] = @ \cup ({m[1]} \cap Neighbors(i))]
        BY <1>3 DEF HandshakeReceive
      <3>2. msg_recieved[i] \cup ({m[1]} \cap Neighbors(i)) \in SUBSET Index
        BY <1>t, <2>1 DEF TypeOK
      <3>3. QED
        BY <1>t, <3>1, <3>2 DEF TypeOK
    <2>3. QED
      BY <1>3, <1>t, <2>2 DEF HandshakeReceive, TypeOK
  <1>4. CASE HandshakeDone(i) \/ Timeout(i)
    BY <1>4, <1>t DEF HandshakeDone, Timeout, TypeOK
  <1>5. CASE WaitLeft(i) \/ WaitRight(i) \/ WaitParent(i)
    <2>1. \A id \in {FromParent, FromLeft, FromRight} :
             Reset(i, id) => notification' \in [Index -> [0 .. 2 -> Nat]]
      BY <1>t DEF Reset, TypeOK, FromParent, FromLeft, FromRight
    <2>2. notification' \in [Index -> [0 .. 2 -> Nat]]
      BY <1>5, <1>t, <2>1 DEF WaitLeft, WaitRight, WaitParent, TypeOK
    <2>3. CASE WaitLeft(i)
      BY <2>2, <2>3, <1>t DEF WaitLeft, TypeOK
    <2>4. CASE WaitRight(i)
      BY <2>2, <2>4, <1>t DEF WaitRight, TypeOK
    <2>5. CASE WaitParent(i)
      BY <2>2, <2>5, <1>t DEF WaitParent, TypeOK
    <2>6. QED
      BY <1>5, <2>3, <2>4, <2>5
  <1>6. CASE NotifyUp(i)
    <2>1. Parent[i] \in Index \cup {NoRank} /\ FromLeft \in 0 .. 2 /\ FromRight \in 0 .. 2
      BY Tree DEF FromLeft, FromRight
    <2>2. \A id \in 0 .. 2 : Notify(wire, i, Parent[i], id) \in [Index -> [0 .. 2 -> Seq(Nat)]]
      BY <1>t, <2>1, NotifyType
    <2>3. wire' \in [Index -> [0 .. 2 -> Seq(Nat)]]
      BY <1>6, <2>1, <2>2 DEF NotifyUp
    <2>4. QED
      BY <1>6, <1>t, <2>3 DEF NotifyUp, TypeOK
  <1>7. CASE NotifyDown(i)
    <2>0. /\ Left[i] \in Index \cup {NoRank} /\ Right[i] \in Index \cup {NoRank}
          /\ FromParent \in 0 .. 2
      BY Tree DEF FromParent
    <2>1. Notify(wire, i, Left[i], FromParent) \in [Index -> [0 .. 2 -> Seq(Nat)]]
      BY <1>t, <2>0, NotifyType
    <2>2. wire' \in [Index -> [0 .. 2 -> Seq(Nat)]]
      BY <1>7, <2>0, <2>1, NotifyType DEF NotifyDown
    <2>3. entered[i] = passed[i] + 1
      BY <1>7, <1>t DEF NotifyDown, ProgressInv, Bit
    <2>4. passed[i] + 1 \in 0 .. MaxBarriers
      BY <1>0, <2>3
    <2>5. QED
      BY <1>7, <1>t, <2>2, <2>4 DEF NotifyDown, TypeOK
  <1>8. QED
    BY <1>1, <1>2, <1>3, <1>4, <1>5, <1>6, <1>7 DEF Step

LEMMA StepProgress ==
  ASSUME BarrierInv, NEW i \in Index,
         Step(i) \/ HandshakeSend(i) \/ HandshakeReceive(i) \/ Timeout(i)
  PROVE  ProgressInv'
  <1>t. TypeOK /\ ProgressInv
    BY DEF BarrierInv
  <1>n. passed[i] \in Nat /\ entered[i] \in Nat
    BY <1>t, CountTypes
  <1> USE <1>t DEF Goto, flags, shake, signals, ProgressInv, TypeOK, Bit, InBarrier
  <1>1. CASE Enter(i)
    BY <1>1, <1>n DEF Enter
  <1>2. CASE HandshakeSend(i) \/ HandshakeReceive(i) \/ HandshakeDone(i) \/ Timeout(i)
    BY <1>2 DEF HandshakeSend, HandshakeReceive, HandshakeDone, Timeout
  <1>3. CASE WaitLeft(i)
    BY <1>3 DEF WaitLeft
  <1>4. CASE WaitRight(i)
    BY <1>4 DEF WaitRight
  <1>5. CASE NotifyUp(i) \/ WaitParent(i)
    BY <1>5 DEF NotifyUp, WaitParent
  <1>6. CASE NotifyDown(i)
    BY <1>6, <1>n DEF NotifyDown
  <1>7. QED
    BY <1>1, <1>2, <1>3, <1>4, <1>5, <1>6 DEF Step

-----------------------------------------------------------------------------
(* The links *)

SameCounts(k) ==
    /\ passed'[k] = passed[k]
    /\ UpSent(k)' = UpSent(k) /\ DownUsed(k)' = DownUsed(k)
    /\ LeftUsed(k)' = LeftUsed(k) /\ RightUsed(k)' = RightUsed(k)

\* A step changes only its own rank's counts.
LEMMA OtherCounts ==
  ASSUME TypeOK, NEW i \in Index,
         Step(i) \/ HandshakeSend(i) \/ HandshakeReceive(i) \/ Timeout(i),
         NEW k \in Index, k /= i
  PROVE  SameCounts(k)
  <1> USE DEF Goto, flags, shake, signals, TypeOK
  <1>1. /\ pc'[k] = pc[k] /\ passed'[k] = passed[k]
        /\ k \in barrier_is_in_progress' <=> k \in barrier_is_in_progress
        /\ k \in left_child_ok' <=> k \in left_child_ok
        /\ k \in right_child_ok' <=> k \in right_child_ok
    <2>1. CASE Enter(i)
      BY <2>1 DEF Enter
    <2>2. CASE HandshakeSend(i) \/ HandshakeReceive(i) \/ HandshakeDone(i) \/ Timeout(i)
      BY <2>2 DEF HandshakeSend, HandshakeReceive, HandshakeDone, Timeout
    <2>3. CASE WaitLeft(i) \/ WaitRight(i) \/ NotifyUp(i) \/ WaitParent(i)
      BY <2>3 DEF WaitLeft, WaitRight, NotifyUp, WaitParent
    <2>4. CASE NotifyDown(i)
      BY <2>4 DEF NotifyDown
    <2>5. QED
      BY <2>1, <2>2, <2>3, <2>4 DEF Step
  <1>2. QED
    BY <1>1 DEF SameCounts, UpSent, DownUsed, LeftUsed, RightUsed, InBarrier

LEMMA LinkKept ==
  ASSUME NEW j \in Index, NEW id \in 0 .. 2, Link(j, id),
         wire'[j][id] = wire[j][id], notification'[j][id] = notification[j][id],
         Sender(j, id) /= NoRank => Sent(j, id)' = Sent(j, id) /\ Used(j, id)' = Used(j, id)
  PROVE  Link(j, id)'
  BY DEF Link, Sender

\* The steps that neither send nor use a notification.
LEMMA QuietLinks ==
  ASSUME BarrierInv, NEW i \in Index,
         Enter(i) \/ HandshakeDone(i) \/ HandshakeSend(i) \/ HandshakeReceive(i) \/ Timeout(i)
  PROVE  \A j \in Index : \A id \in 0 .. 2 : Link(j, id)'
  <1>t. TypeOK /\ ProgressInv
    BY DEF BarrierInv
  <1>1. UNCHANGED <<wire, notification>>
    BY DEF Enter, HandshakeDone, HandshakeSend, HandshakeReceive, Timeout, signals
  <1>2. SameCounts(i)
    <2>1. CASE Enter(i)
      BY <1>t, <2>1 DEF Enter, ProgressInv, TypeOK, Goto, flags, SameCounts, UpSent, DownUsed,
                        LeftUsed, RightUsed, InBarrier, Bit
    <2>2. CASE HandshakeDone(i) \/ HandshakeSend(i) \/ HandshakeReceive(i) \/ Timeout(i)
      BY <1>t, <2>2 DEF HandshakeDone, HandshakeSend, HandshakeReceive, Timeout, ProgressInv, TypeOK,
                        Goto, flags, SameCounts, UpSent, DownUsed, LeftUsed, RightUsed, InBarrier
    <2>3. QED
      BY <2>1, <2>2
  <1>3. \A k \in Index : SameCounts(k)
    BY <1>t, <1>2, OtherCounts DEF Step
  <1>4. ASSUME NEW j \in Index, NEW id \in 0 .. 2
        PROVE  Link(j, id)'
    <2>1. Link(j, id)
      BY DEF BarrierInv, LinkInv
    <2>2. Sender(j, id) /= NoRank => Sender(j, id) \in Index /\ Sender(j, id)' = Sender(j, id)
      BY OneSender DEF Sender
    <2>3. Sender(j, id) /= NoRank => Sent(j, id)' = Sent(j, id)
      BY <1>3, <2>2 DEF Sent, SameCounts, Sender
    <2>4. Used(j, id)' = Used(j, id)
      BY <1>3 DEF Used, SameCounts
    <2>5. QED
      BY <1>1, <2>1, <2>3, <2>4, LinkKept
  <1>5. QED
    BY <1>4

\* A notification is used up.
LEMMA LinkUsed ==
  ASSUME BarrierInv, NEW j \in Index, NEW id \in 0 .. 2, Sender(j, id) /= NoRank,
         notification[j][id] /= 0, notification'[j][id] = 0, wire'[j][id] = wire[j][id],
         Sent(j, id)' = Sent(j, id), Used(j, id)' = Used(j, id) + 1
  PROVE  Link(j, id)'
  <1>1. Link(j, id) /\ Sent(j, id) \in Int /\ Used(j, id) \in Int
    BY NothingUsedEarly DEF BarrierInv, LinkInv
  <1>2. Sender(j, id)' = Sender(j, id)
    BY DEF Sender
  <1>3. Bit(wire[j][id] /= <<>>) + 1 = Sent(j, id) - Used(j, id)
    BY <1>1 DEF Link, Bit
  <1>4. Bit(wire[j][id] /= <<>>) = Sent(j, id) - (Used(j, id) + 1)
    BY <1>1, <1>3 DEF Bit
  <1>5. QED
    BY <1>1, <1>2, <1>4 DEF Link, Bit

\* A notification is sent over a link that has none.
LEMMA LinkSent ==
  ASSUME BarrierInv, NEW j \in Index, NEW id \in 0 .. 2, Sender(j, id) /= NoRank,
         wire'[j][id] = Append(wire[j][id], RanksInGroup[Sender(j, id)] + 1),
         notification'[j][id] = notification[j][id],
         Sent(j, id)' = Sent(j, id) + 1, Used(j, id)' = Used(j, id), Sent(j, id) <= Used(j, id)
  PROVE  Link(j, id)'
  <1>1. /\ Link(j, id) /\ Sent(j, id) \in Int /\ Used(j, id) \in Int
        /\ Used(j, id) <= Sent(j, id)
    BY NothingUsedEarly DEF BarrierInv, LinkInv
  <1>2. Sender(j, id)' = Sender(j, id)
    BY DEF Sender
  <1>3. Sent(j, id) - Used(j, id) = 0 /\ Sent(j, id)' - Used(j, id)' = 1
    BY <1>1
  <1>4. wire[j][id] = <<>> /\ notification[j][id] = 0
    BY <1>1, <1>3 DEF Link, Bit
  <1>5. wire'[j][id] = <<RanksInGroup[Sender(j, id)] + 1>>
    BY <1>4
  <1>6. wire'[j][id] /= <<>>
    BY SMTT(30), <1>5
  <1>7. QED
    BY <1>2, <1>3, <1>4, <1>5, <1>6 DEF Link, Bit

LEMMA WaitLinks ==
  ASSUME BarrierInv, NEW i \in Index, WaitLeft(i) \/ WaitRight(i) \/ WaitParent(i)
  PROVE  \A j \in Index : \A id \in 0 .. 2 : Link(j, id)'
  <1>t. TypeOK /\ ProgressInv /\ LinkInv /\ passed[i] \in Nat
    BY CountTypes DEF BarrierInv
  <1>o. \A k \in Index \ {i} : SameCounts(k)
    BY <1>t, OtherCounts DEF Step
  <1>w. wire' = wire /\ passed' = passed
    BY DEF WaitLeft, WaitRight, WaitParent
  <1>k. PICK kind \in 0 .. 2 :
          /\ WaitLeft(i)   => kind = FromLeft   /\ ~ WaitRight(i) /\ ~ WaitParent(i)
          /\ WaitRight(i)  => kind = FromRight  /\ ~ WaitLeft(i)  /\ ~ WaitParent(i)
          /\ WaitParent(i) => kind = FromParent /\ ~ WaitLeft(i)  /\ ~ WaitRight(i)
    <2>1. /\ WaitLeft(i) => ~ WaitRight(i) /\ ~ WaitParent(i)
          /\ WaitRight(i) => ~ WaitParent(i)
      BY DEF WaitLeft, WaitRight, WaitParent
    <2>2. {FromLeft, FromRight, FromParent} \subseteq 0 .. 2
      BY DEF FromLeft, FromRight, FromParent
    <2>3. QED
      BY <2>1, <2>2
  <1>1. UpSent(i)' = UpSent(i)
    BY <1>t DEF WaitLeft, WaitRight, WaitParent, Goto, UpSent, InBarrier, ProgressInv, TypeOK, flags
  <1>2. /\ ~ WaitLeft(i) => LeftUsed(i)' = LeftUsed(i)
        /\ ~ WaitRight(i) => RightUsed(i)' = RightUsed(i)
        /\ ~ WaitParent(i) => DownUsed(i)' = DownUsed(i)
    BY <1>t DEF WaitLeft, WaitRight, WaitParent, Goto, LeftUsed, RightUsed, DownUsed, InBarrier,
                TypeOK, flags
  <1>3. Sender(i, kind) = NoRank => notification' = notification
    <2>1. Sender(i, kind) = NoRank => notification[i][kind] = 0
      BY <1>t, <1>k DEF LinkInv, Link
    <2>2. QED
      BY <2>1, <1>k DEF WaitLeft, WaitRight, WaitParent, Waiting, Sender, WaitsLeft, WaitsRight,
                        FromLeft, FromRight, FromParent
  <1>4. Sender(i, kind) /= NoRank => Reset(i, kind) /\ notification[i][kind] /= 0
    BY <1>k DEF WaitLeft, WaitRight, WaitParent, Waiting, Sender, WaitsLeft, WaitsRight,
                        FromLeft, FromRight, FromParent
  <1>5. Sender(i, kind) /= NoRank => Used(i, kind) = passed[i] /\ Used(i, kind)' = passed[i] + 1
    <2>1. ASSUME Sender(i, kind) /= NoRank
          PROVE  Sent(i, kind) - Used(i, kind) \in {1, 2}
      <3>1. Link(i, kind)
        BY <1>t, <1>k DEF LinkInv
      <3>2. QED
        BY <2>1, <3>1, <1>4 DEF Link, Bit
    <2>2. ASSUME Sender(i, kind) /= NoRank, kind /= FromParent
          PROVE  Used(i, kind) /= passed[i] + 1
      <3>1. Used(i, kind) = passed[i] + 1 => Sent(i, kind) = Used(i, kind)
        BY <1>k, <2>2, OneAtMost
      <3>2. Used(i, kind) \in Int
        BY <1>k, <2>2, NothingUsedEarly
      <3>3. QED
        BY <2>1, <2>2, <3>1, <3>2
    <2>3. CASE WaitLeft(i)
      <3>1. Used(i, kind) = LeftUsed(i) /\ Used(i, kind)' = LeftUsed(i)' /\ kind /= FromParent
        BY <1>k, <2>3 DEF Used, FromLeft, FromParent, FromRight
      <3>2. LeftUsed(i)' = passed[i] + 1
        BY <1>t, <1>w, <2>3 DEF WaitLeft, LeftUsed, InBarrier, ProgressInv, TypeOK, Bit
      <3>3. LeftUsed(i) \in {passed[i], passed[i] + 1}
        BY <1>t, CountTypes
      <3>4. QED
        BY <2>2, <3>1, <3>2, <3>3
    <2>4. CASE WaitRight(i)
      <3>1. Used(i, kind) = RightUsed(i) /\ Used(i, kind)' = RightUsed(i)' /\ kind /= FromParent
        BY <1>k, <2>4 DEF Used, FromLeft, FromParent, FromRight
      <3>2. RightUsed(i)' = passed[i] + 1
        BY <1>t, <1>w, <2>4 DEF WaitRight, RightUsed, InBarrier, ProgressInv, TypeOK, Bit
      <3>3. RightUsed(i) \in {passed[i], passed[i] + 1}
        BY <1>t, CountTypes
      <3>4. QED
        BY <2>2, <3>1, <3>2, <3>3
    <2>5. CASE WaitParent(i)
      <3>1. Used(i, kind) = DownUsed(i) /\ Used(i, kind)' = DownUsed(i)'
        BY <1>k, <2>5 DEF Used, FromLeft, FromParent, FromRight
      <3>2. DownUsed(i) = passed[i] /\ DownUsed(i)' = passed[i] + 1
        BY <1>t, <1>w, <2>5 DEF WaitParent, DownUsed, Goto, TypeOK, Bit
      <3>3. QED
        BY <3>1, <3>2
    <2>6. QED
      BY <2>3, <2>4, <2>5
  <1>6. ASSUME NEW j \in Index, NEW id \in 0 .. 2
        PROVE  Link(j, id)'
    <2>0. Link(j, id) /\ wire'[j][id] = wire[j][id]
      BY <1>t, <1>w DEF LinkInv
    <2>1. Sender(j, id) /= NoRank => Sender(j, id) \in Index /\ Sender(j, id)' = Sender(j, id)
      BY OneSender DEF Sender
    <2>2. Sender(j, id) /= NoRank => Sent(j, id)' = Sent(j, id)
      BY <1>o, <1>w, <1>1, <2>1 DEF Sent, SameCounts, Sender
    <2>3. CASE j = i /\ id = kind
      <3>1. CASE Sender(j, id) = NoRank
        BY <2>0, <2>3, <3>1, <1>3, LinkKept
      <3>2. CASE Sender(j, id) /= NoRank
        <4>1. notification[j][id] /= 0 /\ notification'[j][id] = 0
          BY <1>t, <1>4, <2>3, <3>2 DEF Reset, TypeOK
        <4>2. Used(j, id)' = Used(j, id) + 1
          BY <1>5, <2>3, <3>2
        <4>3. QED
          BY <2>0, <2>2, <3>2, <4>1, <4>2, LinkUsed
      <3>3. QED
        BY <3>1, <3>2
    <2>4. CASE ~ (j = i /\ id = kind)
      <3>1. notification'[j][id] = notification[j][id]
        BY <1>t, <1>3, <1>4, <1>k, <2>4 DEF Reset, TypeOK
      <3>2. CASE j /= i
        <4>1. Used(j, id)' = Used(j, id)
          BY <1>o, <3>2 DEF Used, SameCounts
        <4>2. QED
          BY <2>0, <2>2, <3>1, <4>1, LinkKept
      <3>3. CASE j = i
        <4>1. id /= kind
          BY <2>4, <3>3
        <4>2. Used(j, id)' = Used(j, id)
          BY <1>2, <1>k, <3>3, <4>1 DEF Used, FromLeft, FromRight, FromParent
        <4>3. QED
          BY <2>0, <2>2, <3>1, <4>2, LinkKept
      <3>4. QED
        BY <3>2, <3>3
    <2>5. QED
      BY <2>3, <2>4
  <1>7. QED
    BY <1>6

LEMMA NotifyUpLinks ==
  ASSUME BarrierInv, NEW i \in Index, NotifyUp(i)
  PROVE  \A j \in Index : \A id \in 0 .. 2 : Link(j, id)'
  <1> DEFINE u == IF IsLeftChild(i) THEN FromLeft ELSE FromRight
  <1>t. TypeOK /\ ProgressInv /\ LinkInv /\ passed[i] \in Nat /\ u \in 0 .. 2 /\ u /= FromParent
    BY CountTypes DEF BarrierInv, FromLeft, FromRight, FromParent
  <1>o. \A k \in Index \ {i} : SameCounts(k)
    BY <1>t, OtherCounts DEF Step
  <1>1. /\ UpSent(i) = passed[i] /\ UpSent(i)' = passed[i] + 1 /\ passed' = passed
        /\ LeftUsed(i)' = LeftUsed(i) /\ RightUsed(i)' = RightUsed(i) /\ DownUsed(i)' = DownUsed(i)
    BY <1>t DEF NotifyUp, Goto, UpSent, LeftUsed, RightUsed, DownUsed, InBarrier, ProgressInv,
                TypeOK, flags, Bit
  <1>2. \A j \in Index : \A id \in 0 .. 2 : Used(j, id)' = Used(j, id)
    BY <1>o, <1>1 DEF Used, SameCounts
  <1>3. \A j \in Index : \A id \in 0 .. 2 :
           /\ notification'[j][id] = notification[j][id]
           /\ wire'[j][id] = IF j = Parent[i] /\ id = u
                             THEN Append(wire[j][id], RanksInGroup[i] + 1) ELSE wire[j][id]
    <2>1. notification' = notification /\ wire' = Notify(wire, i, Parent[i], u)
      BY DEF NotifyUp
    <2>2. Parent[i] \in Index \cup {NoRank} /\ wire \in [Index -> [0 .. 2 -> Seq(Nat)]]
      BY <1>t, Tree DEF LinkInv
    <2> HIDE DEF u
    <2>3. \A j \in Index : \A id \in 0 .. 2 :
             Notify(wire, i, Parent[i], u)[j][id] =
               IF j = Parent[i] /\ id = u THEN Append(wire[j][id], RanksInGroup[i] + 1)
                                          ELSE wire[j][id]
      BY <1>t, <2>2, Tree DEF Notify
    <2>4. QED
      BY <2>1, <2>3
  <1>4. ASSUME NEW j \in Index, NEW id \in 0 .. 2
        PROVE  Link(j, id)'
    <2>0. Link(j, id)
      BY <1>t DEF LinkInv
    <2>1. CASE j = Parent[i] /\ id = u
      <3>1. Sender(j, id) = i /\ i /= NoRank /\ Parent[i] /= NoRank
        BY <2>1, UpLink, Tree
      <3>2. Sent(j, id) = passed[i] /\ Sent(j, id)' = passed[i] + 1
        BY <1>t, <1>1, <2>1, <3>1 DEF Sent, Sender
      <3>3. DownUsed(i) <= passed[j]
        <4>1. Used(i, FromParent) <= Sent(i, FromParent)
          BY <3>1, NothingUsedEarly DEF Sender, FromParent
        <4>2. QED
          BY <2>1, <4>1 DEF Used, Sent
      <3>4. passed[i] <= Used(j, id)
        <4>1. Used(j, id) \in {LeftUsed(j), RightUsed(j)}
          BY <1>t, <2>1 DEF Used
        <4>2. QED
          BY <1>t, <3>3, <4>1, CountTypes
      <3>5. /\ wire'[j][id] = Append(wire[j][id], RanksInGroup[Sender(j, id)] + 1)
            /\ notification'[j][id] = notification[j][id]
            /\ Sent(j, id)' = Sent(j, id) + 1 /\ Sent(j, id) <= Used(j, id)
            /\ Used(j, id)' = Used(j, id) /\ Sender(j, id) /= NoRank
        BY <1>2, <1>3, <2>1, <3>1, <3>2, <3>4
      <3>6. QED
        BY <3>5, LinkSent
    <2>2. CASE ~ (j = Parent[i] /\ id = u)
      <3>1. ASSUME Sender(j, id) /= NoRank
            PROVE  Sent(j, id)' = Sent(j, id)
        <4>1. Sender(j, id) \in Index /\ Sender(j, id)' = Sender(j, id)
          BY <3>1, OneSender DEF Sender
        <4>2. CASE id = FromParent
          BY <1>1, <4>2 DEF Sent
        <4>3. CASE id /= FromParent
          <5>1. Sender(j, id) /= i
            BY <2>2, <3>1, <4>3, OneSender
          <5>2. UpSent(Sender(j, id))' = UpSent(Sender(j, id))
            BY <1>o, <4>1, <5>1 DEF SameCounts, Sender
          <5>3. QED
            BY <4>1, <4>3, <5>2 DEF Sent
        <4>4. QED
          BY <4>2, <4>3
      <3>2. QED
        BY <1>2, <1>3, <2>0, <2>2, <3>1, LinkKept
    <2>3. QED
      BY <2>1, <2>2
  <1>5. QED
    BY <1>4

LEMMA NotifyDownLinks ==
  ASSUME BarrierInv, NEW i \in Index, NotifyDown(i)
  PROVE  \A j \in Index : \A id \in 0 .. 2 : Link(j, id)'
  <1>t. /\ TypeOK /\ ProgressInv /\ LinkInv /\ passed[i] \in Nat /\ FromParent \in 0 .. 2
        /\ Left[i] \in Index \cup {NoRank} /\ Right[i] \in Index \cup {NoRank}
    BY CountTypes, Tree DEF BarrierInv, FromParent
  <1>o. \A k \in Index \ {i} : SameCounts(k)
    BY <1>t, OtherCounts DEF Step
  <1>1. /\ LeftUsed(i) = passed[i] + 1 /\ RightUsed(i) = passed[i] + 1
        /\ UpSent(i) = passed[i] + 1 /\ DownUsed(i) = passed[i] + 1
        /\ passed'[i] = passed[i] + 1
        /\ i \notin barrier_is_in_progress' /\ pc'[i] = "out"
    BY <1>t DEF NotifyDown, Goto, UpSent, LeftUsed, RightUsed, DownUsed, InBarrier, ProgressInv,
                TypeOK, Bit
  <1>2. /\ LeftUsed(i)' = LeftUsed(i) /\ RightUsed(i)' = RightUsed(i)
        /\ UpSent(i)' = UpSent(i) /\ DownUsed(i)' = DownUsed(i)
    BY <1>t, <1>1 DEF UpSent, LeftUsed, RightUsed, DownUsed, InBarrier, Bit
  <1>3. \A j \in Index : \A id \in 0 .. 2 : Used(j, id)' = Used(j, id)
    BY <1>o, <1>2 DEF Used, SameCounts
  <1>4. \A j \in Index : \A id \in 0 .. 2 :
           /\ notification'[j][id] = notification[j][id]
           /\ wire'[j][id] = IF j \in {Left[i], Right[i]} /\ id = FromParent
                             THEN Append(wire[j][id], RanksInGroup[i] + 1) ELSE wire[j][id]
    <2> DEFINE w == Notify(wire, i, Left[i], FromParent)
    <2>1. notification' = notification /\ wire' = Notify(w, i, Right[i], FromParent)
      BY DEF NotifyDown
    <2>2. w \in [Index -> [0 .. 2 -> Seq(Nat)]]
      BY <1>t, NotifyType DEF LinkInv
    <2>3. ASSUME NEW j \in Index, NEW id \in 0 .. 2
          PROVE  w[j][id] = IF j = Left[i] /\ id = FromParent
                            THEN Append(wire[j][id], RanksInGroup[i] + 1) ELSE wire[j][id]
      <3>1. wire \in [Index -> [0 .. 2 -> Seq(Nat)]]
        BY <1>t DEF LinkInv
      <3> HIDE DEF w
      <3>2. Notify(wire, i, Left[i], FromParent)[j][id] =
              IF j = Left[i] /\ id = FromParent
              THEN Append(wire[j][id], RanksInGroup[i] + 1) ELSE wire[j][id]
        BY <1>t, <3>1, Tree DEF Notify
      <3>3. QED
        BY <3>2 DEF w
    <2>4. \A j \in Index : ~ (j = Left[i] /\ j = Right[i])
      BY TreeLinks, Tree DEF Index
    <2> HIDE DEF w
    <2>5. ASSUME NEW j \in Index, NEW id \in 0 .. 2
          PROVE  wire'[j][id] = IF j = Right[i] /\ id = FromParent
                                THEN Append(w[j][id], RanksInGroup[i] + 1) ELSE w[j][id]
      <3>1. Notify(w, i, Right[i], FromParent)[j][id] =
              IF j = Right[i] /\ id = FromParent
              THEN Append(w[j][id], RanksInGroup[i] + 1) ELSE w[j][id]
        BY <1>t, <2>2, Tree DEF Notify
      <3>2. QED
        BY <2>1, <3>1
    <2>6. QED
      BY <2>1, <2>3, <2>4, <2>5
  <1>5. ASSUME NEW j \in Index, NEW id \in 0 .. 2
        PROVE  Link(j, id)'
    <2>0. Link(j, id)
      BY <1>t DEF LinkInv
    <2>1. j \in {Left[i], Right[i]} => Parent[j] = i /\ j /= NoRank
      BY TreeLinks, Tree
    <2>2. CASE j \in {Left[i], Right[i]} /\ id = FromParent
      <3>1. Sender(j, id) = i /\ i /= NoRank
        BY <2>1, <2>2, Tree DEF Sender
      <3>2. Sent(j, id) = passed[i] /\ Sent(j, id)' = passed[i] + 1 /\ Used(j, id) = DownUsed(j)
        BY <1>1, <2>1, <2>2 DEF Sent, Used
      <3>3. PICK u \in {FromLeft, FromRight} : Sender(i, u) = j
        BY <2>2 DEF Sender, FromLeft, FromRight, FromParent
      <3>4. Used(i, u) <= Sent(i, u)
        BY <2>1, <2>2, <3>3, NothingUsedEarly DEF FromLeft, FromRight
      <3>5. Sent(i, u) = UpSent(j) /\ Used(i, u) = passed[i] + 1
        BY <1>1, <3>3 DEF Sent, Used, FromLeft, FromRight, FromParent
      <3>6. passed[i] <= DownUsed(j)
        BY <1>t, <3>4, <3>5, CountTypes
      <3>7. /\ wire'[j][id] = Append(wire[j][id], RanksInGroup[Sender(j, id)] + 1)
            /\ notification'[j][id] = notification[j][id]
            /\ Sent(j, id)' = Sent(j, id) + 1 /\ Sent(j, id) <= Used(j, id)
            /\ Used(j, id)' = Used(j, id) /\ Sender(j, id) /= NoRank
        BY <1>3, <1>4, <2>2, <3>1, <3>2, <3>6
      <3>8. QED
        BY <3>7, LinkSent
    <2>3. CASE ~ (j \in {Left[i], Right[i]} /\ id = FromParent)
      <3>1. ASSUME Sender(j, id) /= NoRank
            PROVE  Sent(j, id)' = Sent(j, id)
        <4>1. Sender(j, id) \in Index /\ Sender(j, id)' = Sender(j, id)
          BY <3>1, OneSender DEF Sender
        <4>2. CASE id = FromParent
          <5>1. Sender(j, id) /= i
            BY <2>3, <3>1, <4>2, OneSender
          <5>2. passed'[Sender(j, id)] = passed[Sender(j, id)]
            BY <1>o, <4>1, <5>1 DEF SameCounts
          <5>3. QED
            BY <4>2, <5>2 DEF Sent, Sender
        <4>3. CASE id /= FromParent
          <5>1. UpSent(Sender(j, id))' = UpSent(Sender(j, id))
            BY <1>o, <1>2, <4>1 DEF SameCounts, Sender
          <5>2. QED
            BY <4>1, <4>3, <5>1 DEF Sent
        <4>4. QED
          BY <4>2, <4>3
      <3>2. QED
        BY <1>3, <1>4, <2>0, <2>3, <3>1, LinkKept
    <2>4. QED
      BY <2>2, <2>3
  <1>6. QED
    BY <1>5

LEMMA ArriveKeeps ==
  ASSUME BarrierInv, NEW i \in Index, NEW u \in 0 .. 2, Arrive(i, u)
  PROVE  BarrierInv'
  <1>t. TypeOK /\ ProgressInv /\ LinkInv
    BY DEF BarrierInv
  <1> DEFINE v == RanksInGroup[Sender(i, u)] + 1
  <1>1. /\ wire[i][u] /= <<>> /\ UNCHANGED <<pc, flags, shake, entered, passed>>
        /\ notification' = [notification EXCEPT ![i][u] = Head(wire[i][u])]
        /\ wire' = [wire EXCEPT ![i][u] = Tail(wire[i][u])]
    BY DEF Arrive
  <1>2. Link(i, u)
    BY <1>t DEF LinkInv
  <1>3. Sender(i, u) /= NoRank /\ wire[i][u] = <<v>>
    BY <1>1, <1>2 DEF Link
  <1>4. v \in Nat /\ v /= 0
    BY <1>3, OneSender, Tree
  <1>5. Head(wire[i][u]) = v /\ Tail(wire[i][u]) = <<>>
    BY <1>3, <1>4
  <1>6. Sent(i, u) - Used(i, u) = 1 /\ notification[i][u] = 0
    <2>1. Sent(i, u) - Used(i, u) \in {0, 1}
      BY <1>3, OneAtMost
    <2>2. QED
      BY <1>1, <1>2, <1>3, <2>1 DEF Link, Bit
  <1> HIDE DEF v
  <1>7. /\ notification' = [notification EXCEPT ![i][u] = v]
        /\ wire' = [wire EXCEPT ![i][u] = <<>>]
    BY <1>1, <1>5
  <1>8. TypeOK'
    BY <1>t, <1>1, <1>4, <1>7 DEF TypeOK, flags, shake
  <1>9. ProgressInv'
    BY <1>t, <1>1 DEF ProgressInv, flags, InBarrier
  <1>10. \A j \in Index : \A id \in 0 .. 2 : Sent(j, id)' = Sent(j, id) /\ Used(j, id)' = Used(j, id)
    BY <1>1 DEF Sent, Used, Sender, UpSent, LeftUsed, RightUsed, DownUsed, InBarrier, flags
  <1>11. wire' \in [Index -> [0 .. 2 -> Seq(Nat)]]
    <2>1. <<>> \in Seq(Nat)
      OBVIOUS
    <2>2. QED
      BY <1>t, <1>7, <2>1 DEF LinkInv
  <1>12. ASSUME NEW j \in Index, NEW id \in 0 .. 2
         PROVE  Link(j, id)'
    <2>1. Link(j, id)
      BY <1>t DEF LinkInv
    <2>2. CASE j = i /\ id = u
      <3>1. wire'[j][id] = <<>> /\ notification'[j][id] = v
        BY <1>t, <1>7, <2>2 DEF LinkInv, TypeOK
      <3>2. Sent(j, id)' - Used(j, id)' = 1
        BY <1>6, <1>10, <2>2
      <3>3. Sender(j, id)' = Sender(j, id)
        BY DEF Sender
      <3>4. QED
        BY <1>3, <1>4, <2>2, <3>1, <3>2, <3>3 DEF Link, Bit, v
    <2>3. CASE ~ (j = i /\ id = u)
      <3>1. wire'[j][id] = wire[j][id] /\ notification'[j][id] = notification[j][id]
        BY <1>t, <1>7, <2>3 DEF LinkInv, TypeOK
      <3>2. QED
        BY <1>10, <2>1, <3>1, LinkKept
    <2>4. QED
      BY <2>2, <2>3
  <1>13. QED
    BY <1>8, <1>9, <1>11, <1>12 DEF BarrierInv, LinkInv

LEMMA BarrierInit == Init => BarrierInv
  <1> SUFFICES ASSUME Init PROVE BarrierInv
    OBVIOUS
  <1>1. TypeOK /\ ProgressInv
    BY BarrierTypeInit, ProgressInit
  <1>2. wire \in [Index -> [0 .. 2 -> Seq(Nat)]]
    <2>1. <<>> \in Seq(Nat)
      OBVIOUS
    <2>2. QED
      BY <2>1 DEF Init
  <1>3. \A k \in Index : UpSent(k) = 0 /\ LeftUsed(k) = 0 /\ RightUsed(k) = 0 /\ DownUsed(k) = 0
    BY DEF Init, UpSent, LeftUsed, RightUsed, DownUsed, InBarrier, Bit
  <1>4. ASSUME NEW j \in Index, NEW id \in 0 .. 2
        PROVE  Link(j, id)
    <2>1. wire[j][id] = <<>> /\ notification[j][id] = 0
      BY DEF Init
    <2>2. Sender(j, id) /= NoRank => Sent(j, id) = 0 /\ Used(j, id) = 0
      <3>1. Sender(j, id) /= NoRank => Sender(j, id) \in Index
        BY OneSender
      <3>2. QED
        BY <1>3, <3>1 DEF Sent, Used, Sender, Init
    <2>3. QED
      BY <2>1, <2>2 DEF Link, Bit
  <1>5. QED
    BY <1>1, <1>2, <1>4 DEF BarrierInv, LinkInv

LEMMA BarrierNext == BarrierInv /\ [Next]_vars => BarrierInv'
  <1> SUFFICES ASSUME BarrierInv, [Next]_vars PROVE BarrierInv'
    OBVIOUS
  <1>1. ASSUME NEW i \in Index,
               Step(i) \/ HandshakeSend(i) \/ HandshakeReceive(i) \/ Timeout(i)
        PROVE  BarrierInv'
    <2>1. TypeOK' /\ wire' \in [Index -> [0 .. 2 -> Seq(Nat)]] /\ ProgressInv'
      BY <1>1, StepTypes, StepProgress
    <2>2. \A j \in Index : \A id \in 0 .. 2 : Link(j, id)'
      BY <1>1, QuietLinks, WaitLinks, NotifyUpLinks, NotifyDownLinks DEF Step
    <2>3. QED
      BY <2>1, <2>2 DEF BarrierInv, LinkInv
  <1>2. CASE UNCHANGED vars
    <2>1. TypeOK'
      BY <1>2 DEF vars, flags, shake, signals, BarrierInv, TypeOK
    <2>2. ProgressInv'
      BY <1>2 DEF vars, flags, BarrierInv, ProgressInv, InBarrier
    <2>3. LinkInv'
      BY <1>2 DEF vars, flags, signals, BarrierInv, LinkInv, Link, Sent, Used, Sender, UpSent,
                  LeftUsed, RightUsed, DownUsed, InBarrier
    <2>4. QED
      BY <2>1, <2>2, <2>3 DEF BarrierInv
  <1>3. QED
    BY <1>1, <1>2, ArriveKeeps DEF Next

LEMMA BarrierCorrect == Spec => []BarrierInv
  BY BarrierInit, BarrierNext, PTL DEF Spec

-----------------------------------------------------------------------------
(* The theorems *)

\* In trees of every size the neighbours that two ranks compute for themselves agree, and no rank
\* is further from the root than the levels of the tree.
THEOREM TreesFit == Spec => []TreeIsRight
  <1>1. TreeIsRight
    BY TreesRight DEF TreeIsRight
  <1>2. QED
    BY <1>1, PTL

\* In the tree of any number of ranks, through any number of barriers, timeouts and retries, no notification is sent
\* over one that has not been used, and each carries the rank its receiver asserts.
THEOREM NotificationsSound == Spec => []NotificationsAreSound
  <1>1. BarrierInv => NotificationsAreSound
    <2> SUFFICES ASSUME BarrierInv PROVE NotificationsAreSound
      OBVIOUS
    <2>1. ASSUME NEW i \in Index, NEW id \in 0 .. 2
          PROVE  /\ notification[i][id] /= 0 =>
                      Sender(i, id) /= NoRank /\ notification[i][id] = RanksInGroup[Sender(i, id)] + 1
                 /\ Len(wire[i][id]) + (IF notification[i][id] = 0 THEN 0 ELSE 1) <= 1
      <3>1. Link(i, id)
        BY DEF BarrierInv, LinkInv
      <3>2. Len(wire[i][id]) = Bit(wire[i][id] /= <<>>)
        BY <3>1 DEF Link, Bit
      <3>3. Sender(i, id) /= NoRank => Sent(i, id) - Used(i, id) <= 1
        BY OneAtMost
      <3>4. QED
        BY <3>1, <3>2, <3>3 DEF Link, Bit
    <2>2. ValueAsserts
      BY <2>1 DEF ValueAsserts
    <2>3. NoNotificationLost
      BY <2>1 DEF NoNotificationLost
    <2>4. QED
      BY <2>2, <2>3 DEF NotificationsAreSound, BarrierInv
  <1>2. QED
    BY <1>1, BarrierCorrect, PTL

\* Whoever leaves a barrier has used the notification of its parent, and so on up to the root,
\* which has used those of its children, and so on down to all ranks.
LEMMA AllHaveEntered ==
  ASSUME BarrierInv, NEW i \in Index, pc[i] = "down", NEW j \in Index
  PROVE  entered[j] >= passed[i] + 1
  <1>t. TypeOK /\ ProgressInv
    BY DEF BarrierInv
  <1>1. PICK root \in Index :
          /\ Parent[root] = NoRank
          /\ \A S \in SUBSET Index :
              root \in S /\ (\A k \in S : {Left[k], Right[k]} \ {NoRank} \subseteq S) => S = Index
    BY TreeSpans
  <1>2. ASSUME NEW k \in Index, NEW c \in {Left[k], Right[k]} \ {NoRank}
        PROVE  /\ c \in Index /\ DownUsed(c) <= passed[k]
               /\ LeftUsed(k) <= UpSent(c) \/ RightUsed(k) <= UpSent(c)
    <2>1. c \in Index /\ Parent[c] = k /\ k /= NoRank
      BY TreeLinks, Tree
    <2>2. Used(c, FromParent) <= Sent(c, FromParent)
      BY <2>1, NothingUsedEarly DEF Sender, FromParent
    <2>3. PICK u \in {FromLeft, FromRight} : Sender(k, u) = c
      BY DEF Sender, FromLeft, FromRight, FromParent
    <2>4. Used(k, u) <= Sent(k, u)
      BY <2>1, <2>3, Tree, NothingUsedEarly DEF FromLeft, FromRight
    <2>5. QED
      BY <2>1, <2>2, <2>3, <2>4 DEF Used, Sent, FromLeft, FromRight, FromParent
  <1>3. \A k \in Index : /\ UpSent(k) <= LeftUsed(k) /\ UpSent(k) <= RightUsed(k)
                         /\ DownUsed(k) <= UpSent(k) /\ UpSent(k) <= entered[k]
    BY <1>t, CountTypes DEF ProgressInv, UpSent, LeftUsed, RightUsed, DownUsed, InBarrier, Bit
  <1>4. DownUsed(i) <= DownUsed(root)
    <2> DEFINE S == {k \in Index : DownUsed(k) <= DownUsed(root)}
    <2>1. root \in S
      BY <1>t, CountTypes
    <2>2. ASSUME NEW k \in S, NEW c \in {Left[k], Right[k]} \ {NoRank}
          PROVE  c \in S
      <3>1. c \in Index /\ DownUsed(c) <= passed[k] /\ k \in Index /\ DownUsed(k) <= DownUsed(root)
        BY <1>2
      <3>2. DownUsed(c) <= DownUsed(root)
        BY <1>t, <3>1, CountTypes
      <3>3. QED
        BY <3>1, <3>2
    <2>3. S = Index
      BY <1>1, <2>1, <2>2
    <2>4. QED
      BY <2>3
  <1>5. DownUsed(root) <= UpSent(j)
    <2> DEFINE S == {k \in Index : DownUsed(root) <= UpSent(k)}
    <2>1. root \in S
      BY <1>3
    <2>2. ASSUME NEW k \in S, NEW c \in {Left[k], Right[k]} \ {NoRank}
          PROVE  c \in S
      <3>1. /\ c \in Index /\ k \in Index /\ DownUsed(root) <= UpSent(k)
            /\ LeftUsed(k) <= UpSent(c) \/ RightUsed(k) <= UpSent(c)
        BY <1>2
      <3>2. DownUsed(root) <= UpSent(c)
        BY <1>t, <1>3, <3>1, CountTypes
      <3>3. QED
        BY <3>1, <3>2
    <2>3. S = Index
      BY <1>1, <2>1, <2>2
    <2>4. QED
      BY <2>3
  <1>6. DownUsed(i) = passed[i] + 1
    BY DEF DownUsed, Bit
  <1>7. QED
    BY <1>t, <1>3, <1>4, <1>5, <1>6, CountTypes

\* The barrier of any tree is a barrier: nobody is out of it before everybody has entered.
THEOREM TreeIsABarrier == Spec => ImplementsBarrier
  <1>1. Init => B!Init
    BY DEF Init, B!Init
  <1>2. BarrierInv /\ [Next]_vars => [B!Next]_<<entered, passed>>
    <2> SUFFICES ASSUME BarrierInv, [Next]_vars
                 PROVE  [B!Next]_<<entered, passed>>
      OBVIOUS
    <2>t. TypeOK /\ ProgressInv
      BY DEF BarrierInv
    <2>1. ASSUME NEW i \in Index, Enter(i)
          PROVE  B!Enter(i) \/ UNCHANGED <<entered, passed>>
      <3>1. entered[i] = passed[i] + Bit(InBarrier(i)) /\ passed[i] \in Nat
        BY <2>t, CountTypes DEF ProgressInv
      <3>2. QED
        BY <2>1, <3>1 DEF Enter, B!Enter, InBarrier, Bit
    <2>2. ASSUME NEW i \in Index, NotifyDown(i)
          PROVE  B!Leave(i)
      <3>1. pc[i] = "down" /\ entered[i] = passed[i] + 1 /\ passed[i] \in Nat
        BY <2>t, <2>2, CountTypes DEF NotifyDown, ProgressInv, Bit
      <3>2. \A j \in Index : entered[j] >= entered[i]
        BY <3>1, AllHaveEntered
      <3>3. QED
        BY <2>2, <3>1, <3>2 DEF NotifyDown, B!Leave
    <2>3. ASSUME NEW i \in Index,
                 \/ HandshakeDone(i) \/ WaitLeft(i) \/ WaitRight(i) \/ NotifyUp(i) \/ WaitParent(i)
                 \/ HandshakeSend(i) \/ HandshakeReceive(i) \/ Timeout(i)
                 \/ \E id \in 0 .. 2 : Arrive(i, id)
          PROVE  UNCHANGED <<entered, passed>>
      BY <2>3 DEF HandshakeDone, WaitLeft, WaitRight, NotifyUp, WaitParent, HandshakeSend,
                  HandshakeReceive, Timeout, Arrive
    <2>4. CASE UNCHANGED vars
      BY <2>4 DEF vars
    <2>5. QED
      BY <2>1, <2>2, <2>3, <2>4 DEF Next, Step, B!Next
  <1>3. QED
    BY <1>1, <1>2, BarrierCorrect, PTL DEF Spec, ImplementsBarrier, B!Spec
=============================================================================
