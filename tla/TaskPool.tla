------------------------------ MODULE TaskPool ------------------------------
(***************************************************************************)
(* What the task half of TITUS_DLB promises, without segments, locks or    *)
(* copies: a task is held by one rank until that rank does it, a theft     *)
(* moves tasks at once, a result goes to the owner of its task once, and   *)
(* parallel_work returns only when every task of the session has its       *)
(* result with its owner.                                                  *)
(***************************************************************************)
EXTENDS Integers

CONSTANTS NbRanks, TaskCounts, Sessions

Rank == 0 .. NbRanks - 1

VARIABLES
  todo,     \* todo[r]: tasks that rank r holds and has not done
  done,     \* tasks done whose result has not reached its owner
  results,  \* results[o]: numbers of o's tasks whose result o has
  nbTask,   \* nbTask[o]: number of tasks of o in this session
  running,  \* running[r]: rank r is inside the session
  session   \* session[r]: sessions that rank r has begun

vars == <<todo, done, results, nbTask, running, session>>

TasksOf(o, n) == {o} \X (0 .. n - 1)

Complete(o) == results[o] = 0 .. nbTask[o] - 1

Init ==
  /\ todo    = [r \in Rank |-> {}]
  /\ done    = {}
  /\ results = [r \in Rank |-> {}]
  /\ nbTask  = [r \in Rank |-> 0]
  /\ running = [r \in Rank |-> FALSE]
  /\ session = [r \in Rank |-> 0]

Begin(r, n) ==
  /\ ~ running[r] /\ session[r] < Sessions
  /\ running' = [running EXCEPT ![r] = TRUE]
  /\ session' = [session EXCEPT ![r] = @ + 1]
  /\ todo'    = [todo EXCEPT ![r] = TasksOf(r, n)]
  /\ nbTask'  = [nbTask EXCEPT ![r] = n]
  /\ results' = [results EXCEPT ![r] = {}]
  /\ UNCHANGED done

Do(r) ==
  /\ running[r]
  /\ \E t \in todo[r] : /\ todo' = [todo EXCEPT ![r] = @ \ {t}]
                        /\ done' = done \cup {t}
  /\ UNCHANGED <<results, nbTask, running, session>>

\* only a rank that has nothing to do steals
Steal(r, v, S) ==
  /\ running[r] /\ todo[r] = {} /\ v # r
  /\ S # {} /\ S \subseteq todo[v]
  /\ todo' = [todo EXCEPT ![v] = @ \ S, ![r] = S]
  /\ UNCHANGED <<done, results, nbTask, running, session>>

Deliver(o, S) ==
  /\ running[o]
  /\ S # {} /\ S \subseteq done
  /\ \A t \in S : t[1] = o
  /\ done'    = done \ S
  /\ results' = [results EXCEPT ![o] = @ \cup {t[2] : t \in S}]
  /\ UNCHANGED <<todo, nbTask, running, session>>

End(r) ==
  /\ running[r]
  /\ \A o \in Rank : session[o] = session[r] => Complete(o)
  /\ running' = [running EXCEPT ![r] = FALSE]
  /\ UNCHANGED <<todo, done, results, nbTask, session>>

Next ==
  \/ \E r \in Rank : \E n \in TaskCounts[r] : Begin(r, n)
  \/ \E r \in Rank : Do(r)
  \/ \E r, v \in Rank : \E S \in SUBSET todo[v] : Steal(r, v, S)
  \/ \E o \in Rank : \E S \in SUBSET done : Deliver(o, S)
  \/ \E r \in Rank : End(r)

Spec == Init /\ [][Next]_vars
=============================================================================
