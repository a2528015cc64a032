------------------------------ MODULE Sessions ------------------------------
(***************************************************************************)
(* What termination detection promises: a rank leaves parallel_work only   *)
(* when every rank has begun the same session and has all of its results.  *)
(***************************************************************************)
EXTENDS Naturals

CONSTANTS NbRanks, MaxSessions

Rank == 0 .. NbRanks - 1

VARIABLES
  session,   \* session[r]: sessions that rank r has begun
  inside,    \* the ranks between set_problem and the end of parallel_work
  complete   \* complete[r]: r has all the results of its last session

vars == <<session, inside, complete>>

Init ==
  /\ session  = [r \in Rank |-> 0]
  /\ inside   = {}
  /\ complete = [r \in Rank |-> TRUE]

\* a problem may have no task, and then no result to wait for
Begin(r, nothing) ==
  /\ r \notin inside /\ session[r] < MaxSessions
  /\ session'  = [session EXCEPT ![r] = @ + 1]
  /\ inside'   = inside \cup {r}
  /\ complete' = [complete EXCEPT ![r] = nothing]

Complete(r) ==
  /\ r \in inside /\ ~ complete[r]
  /\ complete' = [complete EXCEPT ![r] = TRUE]
  /\ UNCHANGED <<session, inside>>

End(r) ==
  /\ r \in inside
  /\ \A s \in Rank : /\ session[s] >= session[r]
                     /\ session[s] = session[r] => complete[s]
  /\ inside' = inside \ {r}
  /\ UNCHANGED <<session, complete>>

Next ==
  \E r \in Rank : \/ \E nothing \in BOOLEAN : Begin(r, nothing)
                  \/ Complete(r)
                  \/ End(r)

Spec == Init /\ [][Next]_vars
=============================================================================
