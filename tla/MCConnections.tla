--------------------------- MODULE MCConnections ---------------------------
(* TLC instances of Connections. *)
EXTENDS Connections

\* DVS_Context_impl_random registers to everybody; with the tree alone some ranks stay strangers.
AllRanks == [r \in Rank |-> Rank]
TreeOnly == [r \in Rank |-> {}]
=============================================================================
