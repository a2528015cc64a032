------------------------------ MODULE InfixTree ------------------------------
(***************************************************************************)
(* infixed_b_tree_neighbors (neighboring_generator.cpp): the binary tree   *)
(* over the ranks of a group that numbers them in order. The barrier       *)
(* signals along it. get_tree_neighbors descends from the root by the      *)
(* sizes of the subtrees; nothing of the tree is ever stored.              *)
(***************************************************************************)
EXTENDS Integers

CONSTANTS
    NoRank, \* (DVS_RANK_TYPE)-1
    MaxSize \* bound: the largest tree that the properties are about

\* No rank of a tree has the number that stands for none.
ASSUME NoRankAssumption == MaxSize \in Nat /\ NoRank \in Nat /\ NoRank \notin 0 .. MaxSize - 1

POW2[x \in Nat] == IF x = 0 THEN 1 ELSE 2 * POW2[x - 1]
Log2[n \in Nat] == IF n < 2 THEN 0 ELSE 1 + Log2[n \div 2]
Least(a, b) == IF a < b THEN a ELSE b

\* mutant: the last level counts for the left subtree alone
MutRootOf(size, rank0) ==
    LET h == Log2[size] + 1
    IN rank0 + POW2[h - 2] - 1 + size - (POW2[h - 1] - 1)
\* The root of the subtree of `size' ranks from rank0, for size >= 2: below it all the full
\* levels of its left subtree and as much of the last level as fits there.
RootOf(size, rank0) ==
    LET h == Log2[size] + 1
    IN rank0 + POW2[h - 2] - 1 + Least(POW2[h - 2], size - (POW2[h - 1] - 1))

get_rank_of_root(size, rank0) == IF size = 1 THEN rank0 ELSE RootOf(size, rank0)

Node(rank, parent, left, right) ==
    [rank |-> rank, parent |-> parent, left_child |-> left, right_child |-> right]
\* The root of a subtree of three levels or more.
Inner(size, rank0, root) ==
    Node(root, NoRank, get_rank_of_root(root - rank0, rank0),
         get_rank_of_root(size - (root - rank0) - 1, root + 1))

\* Trees of one and two levels are given directly.
Small(rank, size, rank0) ==
    IF size = 1 THEN Node(rank, NoRank, NoRank, NoRank)
    ELSE IF rank = rank0 + 1
         THEN Node(rank, NoRank, rank0, IF size = 3 THEN rank + 1 ELSE NoRank)
    ELSE Node(rank, IF rank = rank0 THEN rank + 1 ELSE rank - 1, NoRank, NoRank)

\* A subtree's own root gets the root above it as its parent.
Linked(node, root) == IF node.parent = NoRank THEN [node EXCEPT !.parent = root] ELSE node

\* at: the rank, the size of the subtree and its first rank
get_tree_neighbors[at \in Int \X Nat \X Int] ==
    LET rank == at[1] size == at[2] rank0 == at[3] root == RootOf(size, rank0)
    IN IF size <= 3 THEN Small(rank, size, rank0)
       ELSE IF rank = root THEN Inner(size, rank0, root)
       ELSE IF rank < root THEN Linked(get_tree_neighbors[<<rank, root - rank0, rank0>>], root)
       ELSE Linked(get_tree_neighbors[<<rank, size - (root - rank0) - 1, root + 1>>], root)

NodeOf(rank, size) == get_tree_neighbors[<<rank, size, 0>>]
is_left_child(node) == node.rank < node.parent

-----------------------------------------------------------------------------
\* Every link has its counterpart in every tree: the parent a rank computes for itself, from
\* the size alone, is the rank whose child it is, it takes itself for the child that it is, and
\* only the root has no parent. A barrier in which two ranks disagree waits for a notification
\* under an id that nobody sends.
LinksAreMutual ==
    \A size \in 1 .. MaxSize : \A r \in 0 .. size - 1 :
        LET me == NodeOf(r, size) up == NodeOf(me.parent, size) IN
        /\ IF r = get_rank_of_root(size, 0) THEN me.parent = NoRank
           ELSE /\ me.parent \in 0 .. size - 1
                /\ r = IF is_left_child(me) THEN up.left_child ELSE up.right_child
        /\ \A c \in {me.left_child, me.right_child} \ {NoRank} :
             c \in 0 .. size - 1 /\ NodeOf(c, size).parent = r

\* at: a size, a rank r and a number n. The rank n links above r, or the root
Above[at \in Nat \X Int \X Nat] ==
    LET r == at[2] n == at[3] p == NodeOf(r, at[1]).parent
    IN IF n = 0 \/ p = NoRank THEN r ELSE Above[<<at[1], p, n - 1>>]

\* Every rank is in the tree, and no rank deeper than the levels that `size' ranks need: what
\* the root sends reaches everybody in as many steps.
EveryRankIsReached ==
    \A size \in 1 .. MaxSize : \A r \in 0 .. size - 1 :
        Above[<<size, r, Log2[size]>>] = get_rank_of_root(size, 0)

\* The tree serves as a barrier's: both directions of every link agree, and it spans the ranks.
TreesAreRight == LinksAreMutual /\ EveryRankIsReached
=============================================================================
