---------------------------- MODULE MCTreeBarrier ----------------------------
(* TLC instance of TreeBarrier: the tree of four ranks. *)
EXTENDS TreeBarrier

\* ranks_in_group of GASPI_GROUP_ALL
AllRanks == [i \in Index |-> i]
=============================================================================
