--------------------------- MODULE WorkRequesting ---------------------------
(***************************************************************************)
(* The two algorithms of a context, WORK_STEALING and WORK_REQUESTING. The *)
(* worker is that of TaskStealing with both. A requesting thief asks by a  *)
(* compare and swap on its victim's task segment and waits until the       *)
(* victim has written tasks to it. The swap is addressed to offset 0 of    *)
(* the segment. There the object that the segment holds has its virtual    *)
(* table pointer: its lock word, which the worker looks at, comes after    *)
(* that.                                                                   *)
(***************************************************************************)
EXTENDS TaskStealing

VARIABLES
  algorithm,  \* the algorithm of the context
  first_word, \* first_word[r]: the first eight bytes of r's task segment
  stolen,     \* stolen[r]: stolen_tasks_count
  misses      \* misses[r]: miss_target_locked_count > 0

requestVars == <<algorithm, first_word, stolen, misses>>

Algorithm == {"WORK_STEALING", "WORK_REQUESTING"}

\* The address of MetadataTask's virtual table: in user space, hence none of the lock words,
\* which are the largest integers, and no rank.
VTABLE == NbRanks

\* mutant: the request is addressed to the lock word
MutRequestWord(v) == state[v]

\* What a request to v compares with TASK_AVAILABLE.
RequestWord(v) == first_word[v]

\* What a request of r to v, answered or not, adds to stolen_tasks_count: m is r's own segment.
Stolen(r, v) == seg[r].nb

\* work_requesting. The word is swapped, and the thief waits for its tasks, only if it was
\* TASK_AVAILABLE; any other value is counted as a segment that somebody has locked.
Request(r, v) ==
  /\ algorithm = "WORK_REQUESTING" /\ v # r
  /\ LET hit == RequestWord(v) = TASK_AVAILABLE IN
     /\ Goto(r, "select", IF hit THEN "wait_for_tasks" ELSE "thief")
     /\ first_word' = IF hit THEN [first_word EXCEPT ![v] = r] ELSE first_word
     /\ misses' = IF hit \/ RequestWord(v) \in {FREE_FOR_COPY, NO_TASK} THEN misses ELSE misses \cup {r}
  /\ stolen' = [stolen EXCEPT ![r] = @ + Stolen(r, v)]
  /\ UNCHANGED <<algorithm, taskVars, tmp, target, resultVars, terminated, session>>

RequestingInit ==
  /\ Init
  /\ algorithm \in Algorithm
  /\ first_word = [r \in Rank |-> VTABLE]
  /\ stolen = [r \in Rank |-> 0]
  /\ misses = {}

\* A thief that has selected a victim steals with one algorithm and requests with the other.
SelectedStep(r) ==
  \/ /\ pc[r] # "select" \/ algorithm = "WORK_STEALING"
     /\ Program(r) /\ UNCHANGED requestVars
  \/ \E v \in Rank : Request(r, v)

RequestingNext ==
  \/ \E r \in Rank : SelectedStep(r)
  \/ (\E r \in Rank : SubmitArrived(r)) /\ UNCHANGED requestVars
  \/ DetectTermination /\ UNCHANGED requestVars
  \/ Stop /\ UNCHANGED requestVars

requestingVars == <<vars, requestVars>>
RequestingSpec == RequestingInit /\ [][RequestingNext]_requestingVars

-----------------------------------------------------------------------------
\* With requests every rank does its own tasks, all of them, and nothing but them: no dequeue,
\* segment or batch of results is ever another rank's, and every lock word is its owner's. The
\* algorithm balances nothing, and what follows from a victim's point of view
\* (detection_request, the transport of results) is never reached.
TasksStayHome ==
  algorithm = "WORK_REQUESTING" =>
    /\ \A r \in Rank : /\ dq[r].owner = r /\ tmp[r].owner \in {r, NoRank}
                       /\ seg[r].nb > 0 => seg[r].owner = r
                       /\ state[r] \in {TASK_AVAILABLE, FREE_FOR_COPY, NO_TASK, r}
    /\ inTransit = {}

\* stolen_tasks_count += m->nb_task also after a miss: the count is right only because a thief
\* never goes out with tasks in its own segment.
OnlyHitsCount == \A r \in Rank : stolen[r] = 0

\* A miss is a miss: no request comes back with tasks, and none leaves the pointer overwritten.
VtableIntact == first_word = [r \in Rank |-> VTABLE]

\* With requests no task ever moves, and nothing is left behind by the attempts.
RequestsMiss == TasksStayHome /\ OnlyHitsCount /\ VtableIntact
=============================================================================
