------------------------- MODULE MCVictimSelection -------------------------
(* TLC instances of VictimSelection. *)
EXTENDS VictimSelection

\* A ring of eight with a chord from every even rank to the next but three.
Chords ==
    [r \in Rank |-> {(r + 1) % NbRanks, (r + NbRanks - 1) % NbRanks}
                      \cup (IF r % 2 = 0 THEN {(r + 3) % NbRanks} ELSE {(r + NbRanks - 3) % NbRanks})]
=============================================================================
