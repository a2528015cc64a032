------------------------------- MODULE Barrier -------------------------------
(* What a barrier promises: nobody leaves it before everybody has entered it. *)
EXTENDS Naturals

CONSTANTS Members, MaxBarriers

VARIABLES entered, passed \* by member: barriers entered, barriers left

Init == entered = [i \in Members |-> 0] /\ passed = [i \in Members |-> 0]

Enter(i) ==
    /\ entered[i] = passed[i] /\ entered[i] < MaxBarriers
    /\ entered' = [entered EXCEPT ![i] = @ + 1]
    /\ UNCHANGED passed

Leave(i) ==
    /\ passed[i] < entered[i]
    /\ \A j \in Members : entered[j] >= entered[i]
    /\ passed' = [passed EXCEPT ![i] = @ + 1]
    /\ UNCHANGED entered

Next == \E i \in Members : Enter(i) \/ Leave(i)
Spec == Init /\ [][Next]_<<entered, passed>>
=============================================================================
