---------------------------- MODULE TaskStealing ----------------------------
(***************************************************************************)
(* The task half of TITUS_DLB: every rank owns a private dequeue and a     *)
(* shared task segment, works from the tail of its dequeue, publishes the  *)
(* head of it in the segment, and, once out of work, copies the segment of *)
(* another rank with one-sided GASPI operations.  The only synchronisation *)
(* is the lock word `state' of each segment, changed by compare and swap.  *)
(*                                                                         *)
(* Steps are cut where another rank can interleave: every access to a lock *)
(* word is a step, a write of a segment and its publication are two steps, *)
(* the remote read of a segment is two steps (SIZE_FIRST_READ splits it).  *)
(*                                                                         *)
(* A task is <<owner, number>>.  Dequeues and segments hold consecutive    *)
(* tasks of one owner: `end' is the number after the last one according    *)
(* to the metadata, `base' the task the data array really begins with.     *)
(* The transport of results is the set inTransit (module ResultBuffer has  *)
(* its steps), termination detection is the single step DetectTermination  *)
(* (module Termination has the tree).                                      *)
(***************************************************************************)
EXTENDS Integers, FiniteSets

CONSTANTS
  NbRanks,     \* number of ranks of the job
  TaskCounts,  \* TaskCounts[r]: the numbers of tasks rank r may be given
  SegmentMax,  \* tasks that fit in a task segment (nb_task_max)
  TmpMax,      \* results that fit in a tmp segment (nb_result_max)
  Sessions     \* bound: calls of set_problem and parallel_work per rank

Rank == 0 .. NbRanks - 1

ASSUME RankAssumption     == NbRanks \in Nat \ {0}
ASSUME CountsAssumption   == TaskCounts \in [Rank -> SUBSET Nat]
ASSUME CapacityAssumption == /\ SegmentMax \in Nat \ {0}
                             /\ TmpMax \in Nat \ {0}
ASSUME SessionAssumption  == Sessions \in Nat

NB_TASK_MIN == 2

TASK_AVAILABLE == -1
FREE_FOR_COPY  == -2
NO_TASK        == -3
NoRank         == -1    \* (gaspi_atomic_value_t) -1 in a rank field

LockWord == Rank \cup {TASK_AVAILABLE, FREE_FOR_COPY, NO_TASK}

VARIABLES
  pc,         \* pc[r]: the next step of rank r
  state,      \* state[r]: the lock word of r's task segment
  seg,        \* seg[r]: MetadataTask and data of r's task segment
  dq,         \* dq[r]: the private Dequeue of r
  tmp,        \* tmp[r]: MetadataTmp, the results not yet returned
  target,     \* target[r]: the victim of r's current theft
  nbTask,     \* nbTask[r]: nb_usr_results, the results r waits for
  results,    \* results[r]: numbers of the results in r's usr_results
  nbResult,   \* nbResult[r]: nb_result, the count of submitted results
  inTransit,  \* batches of results on their way to their owner
  terminated, \* terminated[r]: r may leave parallel_work
  session     \* session[r]: calls of set_problem made by r

taskVars   == <<state, seg, dq>>
resultVars == <<nbTask, results, nbResult, inTransit>>
vars == <<pc, state, seg, dq, tmp, target, nbTask, results, nbResult,
          inTransit, terminated, session>>

-----------------------------------------------------------------------------
(* Helpers *)

Run(end, nb) == (end - nb) .. (end - 1)

\* The metadata of a task segment with the first of its tasks, and a Dequeue
Segment(owner, nb, end, base) ==
  [owner |-> owner, nb |-> nb, end |-> end, base |-> base]

Dequeue(owner, head, tail, end, base) ==
  [owner |-> owner, head |-> head, tail |-> tail, end |-> end, base |-> base]

TmpResults(owner, last, nb) == [owner |-> owner, last |-> last, nb |-> nb]

NbDequeue(r) == dq[r].tail - dq[r].head

Goto(r, from, to) ==
  /\ pc[r] = from
  /\ pc' = [pc EXCEPT ![r] = to]

\* mutant: the word is written without being compared
BlindSwap(r, comp, new) == state' = [state EXCEPT ![r] = new]

\* gaspi_atomic_compare_swap on the lock word of a segment
CompareAndSwap(r, comp, new) ==
  state' = IF state[r] = comp THEN [state EXCEPT ![r] = new] ELSE state

\* mutant: the numbers of the results begin with 1
SubmitFromOne(r, first, nb) ==
  /\ results'  = [results EXCEPT ![r] = @ \cup Run(first + nb - 1, nb)]
  /\ nbResult' = [nbResult EXCEPT ![r] = @ + nb]

\* submit_results: copy a batch to usr_results and count it
SubmitResults(r, first, nb) ==
  /\ results'  = [results EXCEPT ![r] = @ \cup Run(first + nb, nb)]
  /\ nbResult' = [nbResult EXCEPT ![r] = @ + nb]

\* push_tmp_results: own results are submitted, the others start to travel
PushTmpResults(r) ==
  LET t == tmp[r] first == t.last - t.nb IN
  \/ /\ t.nb = 0
     /\ UNCHANGED <<results, nbResult, inTransit>>
  \/ /\ t.nb # 0 /\ t.owner = r
     /\ SubmitResults(r, first, t.nb)
     /\ UNCHANGED inTransit
  \/ /\ t.nb # 0 /\ t.owner # r
     /\ inTransit' = inTransit \cup
                      {[owner |-> t.owner, first |-> first, nb |-> t.nb]}
     /\ UNCHANGED <<results, nbResult>>

\* mutant: end_task_id is taken for the number of the last task
FreshTmpFromLast(d) == TmpResults(d.owner, d.end - 1, 0)

\* the tmp segment as the worker prepares it for the tasks of the dequeue
FreshTmp(d) == TmpResults(d.owner, d.end, 0)

TmpFull(r) == tmp[r].nb = TmpMax

\* mutant: the number of tasks survives the session
ResetKeepsTasks(m) == m

\* MetadataTask::reset, but for the lock word
ResetSegment(m) == Segment(m.owner, 0, m.end, m.base)

-----------------------------------------------------------------------------
(* Sessions: set_problem, parallel_work, and its return *)

\* set_problem up to its barrier
SetProblem(r, n) ==
  /\ session[r] < Sessions
  /\ Goto(r, "idle", "barrier")
  /\ dq'         = [dq EXCEPT ![r] = Dequeue(r, 0, n, n, 0)]
  /\ tmp'        = [tmp EXCEPT ![r] = TmpResults(r, 0, 0)]
  /\ nbTask'     = [nbTask EXCEPT ![r] = n]
  /\ results'    = [results EXCEPT ![r] = {}]
  /\ nbResult'   = [nbResult EXCEPT ![r] = 0]
  /\ terminated' = [terminated EXCEPT ![r] = FALSE]
  /\ session'    = [session EXCEPT ![r] = @ + 1]
  /\ UNCHANGED <<state, seg, target, inTransit>>

\* the barrier opens when every rank has set its problem; then parallel_work
ParallelWork(r) ==
  /\ \A s \in Rank : session[s] >= session[r]
  /\ Goto(r, "barrier", IF NbDequeue(r) > 0 THEN "begin" ELSE "thief")
  /\ UNCHANGED <<taskVars, tmp, target, resultVars, terminated, session>>

\* mutant: only rank 0, the root of the tree, is asked
DetectAtRoot ==
  /\ nbResult[0] = nbTask[0] /\ \E r \in Rank : ~ terminated[r]
  /\ \A r \in Rank : pc[r] \notin {"idle", "barrier"}
  /\ terminated' = [r \in Rank |-> TRUE]
  /\ UNCHANGED <<pc, taskVars, tmp, target, resultVars, session>>

\* what termination detection promises: every rank has all of its results
DetectTermination ==
  /\ \A r \in Rank : /\ pc[r] \notin {"idle", "barrier"}
                     /\ nbResult[r] = nbTask[r]
                     /\ ~ terminated[r]
  /\ terminated' = [r \in Rank |-> TRUE]
  /\ UNCHANGED <<pc, taskVars, tmp, target, resultVars, session>>

\* load_balancing answers FINISHED: context->reset(), parallel_work returns
Finish(r) ==
  /\ nbResult[r] = nbTask[r] /\ terminated[r]
  /\ Goto(r, "thief", "idle")
  /\ state' = [state EXCEPT ![r] = NO_TASK]
  /\ seg'   = [seg EXCEPT ![r] = ResetSegment(@)]
  /\ nbResult' = [nbResult EXCEPT ![r] = 0]
  /\ UNCHANGED <<dq, tmp, target, nbTask, results, inTransit, terminated, session>>

-----------------------------------------------------------------------------
(* The worker: work_on_my_dequeue *)

\* with enough tasks the (empty) segment is opened for the first refill
WorkBegin(r) ==
  /\ Goto(r, "begin", IF seg[r].nb > 0 THEN "begin_move" ELSE "init")
  /\ IF NbDequeue(r) > NB_TASK_MIN
     THEN CompareAndSwap(r, NO_TASK, FREE_FOR_COPY)
     ELSE UNCHANGED state
  /\ UNCHANGED <<seg, dq, tmp, target, resultVars, terminated, session>>

\* move_task_from_my_segment_to_my_dequeue, a.k.a. self-theft: the copy
SelfTheft(nb) == IF nb < NB_TASK_MIN THEN nb ELSE nb \div 2

MoveSegmentToDequeue(r, from, to) ==
  LET m == seg[r] taken == SelfTheft(m.nb) left == m.nb - taken IN
  /\ Goto(r, from, to)
  /\ dq'  = [dq EXCEPT ![r] = Dequeue(m.owner, 0, taken, m.end, m.base + left)]
  /\ seg' = [seg EXCEPT ![r] = Segment(m.owner, left,
               IF left = 0 THEN 0 ELSE m.end - taken, m.base)]
  /\ UNCHANGED <<state, tmp, target, resultVars, terminated, session>>

\* ... and its unlock, which compares with the word it has just read
PublishAfterSelfTheft(r, from, to) ==
  /\ Goto(r, from, to)
  /\ CompareAndSwap(r, state[r],
                    IF seg[r].nb = 0 THEN NO_TASK ELSE TASK_AVAILABLE)
  /\ UNCHANGED <<seg, dq, tmp, target, resultVars, terminated, session>>

InitTmp(r) ==
  /\ Goto(r, "init", "loop")
  /\ tmp' = [tmp EXCEPT ![r] = FreshTmp(dq[r])]
  /\ UNCHANGED <<taskVars, target, resultVars, terminated, session>>

\* the tmp segment is full: return its results, start a new batch
ReturnFullTmp(r) ==
  /\ Goto(r, "loop", "loop")
  /\ NbDequeue(r) # 0
  /\ TmpFull(r)
  /\ PushTmpResults(r)
  /\ tmp' = [tmp EXCEPT ![r] = FreshTmp(dq[r])]
  /\ UNCHANGED <<taskVars, target, nbTask, terminated, session>>

DoNextTask(r) ==
  /\ NbDequeue(r) # 0
  /\ ~ TmpFull(r)
  /\ Goto(r, "loop", IF NbDequeue(r) = 1 THEN "lock" ELSE "switch")
  /\ tmp' = [tmp EXCEPT ![r] = TmpResults(@.owner, @.last, @.nb + 1)]
  /\ dq'  = [dq EXCEPT ![r] =
               Dequeue(@.owner, @.head, @.tail - 1, @.end - 1, @.base)]
  /\ UNCHANGED <<state, seg, target, resultVars, terminated, session>>

\* the dequeue is empty: try to lock the own segment for self-theft
LockOwnSegment(r) ==
  /\ Goto(r, "lock", "switch")
  /\ CompareAndSwap(r, TASK_AVAILABLE, r)
  /\ UNCHANGED <<seg, dq, tmp, target, resultVars, terminated, session>>

\* switch (m->state), with detection_request as the default
SwitchOnState(r) ==
  /\ \/ state[r] = FREE_FOR_COPY /\ Goto(r, "switch", "refill")
     \/ state[r] = r /\ Goto(r, "switch", "self_move")
     \/ state[r] \notin {FREE_FOR_COPY, r} /\ Goto(r, "switch", "loop")
  /\ UNCHANGED <<taskVars, tmp, target, resultVars, terminated, session>>

\* mutant: the size of the segment is forgotten
RefillUncapped(nb) == IF nb < NB_TASK_MIN THEN 0 ELSE nb \div 2

\* move_task_from_my_dequeue_to_my_segment: the copy
Refill(nb) ==
  IF nb < NB_TASK_MIN THEN 0
  ELSE IF nb >= 2 * SegmentMax THEN SegmentMax ELSE nb \div 2

MoveDequeueToSegment(r) ==
  LET d == dq[r] nb == NbDequeue(r) moved == Refill(nb) IN
  /\ Goto(r, "refill", "refill_publish")
  /\ seg' = [seg EXCEPT ![r] =
       IF moved = 0
       THEN Segment(r, 0, 0, @.base)
       ELSE Segment(d.owner, moved, d.end - (nb - moved), d.base + d.head)]
  /\ dq'  = [dq EXCEPT ![r] =
               Dequeue(d.owner, d.head + moved, d.tail, d.end, d.base)]
  /\ UNCHANGED <<state, tmp, target, resultVars, terminated, session>>

\* ... and its unlock
PublishAfterRefill(r) ==
  /\ Goto(r, "refill_publish", "loop")
  /\ CompareAndSwap(r, FREE_FOR_COPY,
                    IF seg[r].nb = 0 THEN NO_TASK ELSE TASK_AVAILABLE)
  /\ UNCHANGED <<seg, dq, tmp, target, resultVars, terminated, session>>

\* the dequeue is empty and nothing refilled it: return the last results
LeaveLoop(r) ==
  /\ NbDequeue(r) = 0
  /\ Goto(r, "loop", "wait")
  /\ PushTmpResults(r)
  /\ tmp' = IF tmp[r].nb = 0 THEN tmp
            ELSE [tmp EXCEPT ![r] = TmpResults(NoRank, 0, 0)]
  /\ UNCHANGED <<taskVars, target, nbTask, terminated, session>>

\* mutant: waits for a thief even if there was none
WaitForThief(r) ==
  /\ state[r] = FREE_FOR_COPY
  /\ Goto(r, "wait", "thief")
  /\ CompareAndSwap(r, FREE_FOR_COPY, NO_TASK)
  /\ UNCHANGED <<seg, dq, tmp, target, resultVars, terminated, session>>

\* active_wait_state: until no thief holds the segment
ActiveWait(r) ==
  /\ state[r] \in {NO_TASK, FREE_FOR_COPY}
  /\ Goto(r, "wait", "thief")
  /\ CompareAndSwap(r, FREE_FOR_COPY, NO_TASK)
  /\ UNCHANGED <<seg, dq, tmp, target, resultVars, terminated, session>>

-----------------------------------------------------------------------------
(* The thief: load_balancing and work_stealing *)

LoadBalancing(r) ==
  /\ ~ (nbResult[r] = nbTask[r] /\ terminated[r])
  /\ Goto(r, "thief", "select")
  /\ UNCHANGED <<taskVars, tmp, target, resultVars, terminated, session>>

\* try to lock the segment of the selected rank
TryLock(r, v) ==
  /\ v # r
  /\ Goto(r, "select",
          IF state[v] = TASK_AVAILABLE THEN "read_metadata" ELSE "thief")
  /\ CompareAndSwap(v, TASK_AVAILABLE, r)
  /\ target' = IF state[v] = TASK_AVAILABLE THEN [target EXCEPT ![r] = v]
                                            ELSE target
  /\ UNCHANGED <<seg, dq, tmp, resultVars, terminated, session>>

\* the first gaspi_read brings the metadata, the lock word (r) included
ReadMetadata(r) ==
  LET victim == seg[target[r]] IN
  /\ Goto(r, "read_metadata", "read_tasks")
  /\ seg'   = [seg EXCEPT ![r] =
                 Segment(victim.owner, victim.nb, victim.end, @.base)]
  /\ state' = [state EXCEPT ![r] = state[target[r]]]
  /\ UNCHANGED <<dq, tmp, target, resultVars, terminated, session>>

\* ... the second one the rest of the tasks
ReadTasks(r) ==
  /\ Goto(r, "read_tasks", "unlock")
  /\ seg' = [seg EXCEPT ![r] =
               Segment(@.owner, @.nb, @.end, seg[target[r]].base)]
  /\ UNCHANGED <<state, dq, tmp, target, resultVars, terminated, session>>

UnlockVictim(r) ==
  /\ Goto(r, "unlock", "release")
  /\ CompareAndSwap(target[r], r, FREE_FOR_COPY)
  /\ UNCHANGED <<seg, dq, tmp, target, resultVars, terminated, session>>

ReleaseOwn(r) ==
  /\ Goto(r, "release", "begin")
  /\ CompareAndSwap(r, state[r], NO_TASK)
  /\ target' = [target EXCEPT ![r] = r]
  /\ UNCHANGED <<seg, dq, tmp, resultVars, terminated, session>>

-----------------------------------------------------------------------------
\* a batch reaches its owner, which submits it in one of its flushes
SubmitArrived(r) ==
  /\ pc[r] \in {"loop", "thief"}
  /\ \E b \in inTransit :
       /\ b.owner = r
       /\ SubmitResults(r, b.first, b.nb)
       /\ inTransit' = inTransit \ {b}
  /\ UNCHANGED <<pc, taskVars, tmp, target, nbTask, terminated, session>>

\* every rank has run all of its sessions: the program is over
Over == \A r \in Rank : pc[r] = "idle" /\ session[r] = Sessions

Stop == Over /\ UNCHANGED vars

Init ==
  /\ pc         = [r \in Rank |-> "idle"]
  /\ state      = [r \in Rank |-> NO_TASK]
  /\ seg        = [r \in Rank |-> Segment(r, 0, 0, 0)]
  /\ dq         = [r \in Rank |-> Dequeue(r, 0, 0, 0, 0)]
  /\ tmp        = [r \in Rank |-> TmpResults(r, 0, 0)]
  /\ target     = [r \in Rank |-> r]
  /\ nbTask     = [r \in Rank |-> 0]
  /\ results    = [r \in Rank |-> {}]
  /\ nbResult   = [r \in Rank |-> 0]
  /\ inTransit  = {}
  /\ terminated = [r \in Rank |-> FALSE]
  /\ session    = [r \in Rank |-> 0]

\* the steps of the program of rank r
Work(r) ==
  \/ WorkBegin(r)
  \/ MoveSegmentToDequeue(r, "begin_move", "begin_publish")
  \/ PublishAfterSelfTheft(r, "begin_publish", "init")
  \/ InitTmp(r)
  \/ ReturnFullTmp(r)
  \/ DoNextTask(r)
  \/ LockOwnSegment(r)
  \/ SwitchOnState(r)
  \/ MoveDequeueToSegment(r)
  \/ PublishAfterRefill(r)
  \/ MoveSegmentToDequeue(r, "self_move", "self_publish")
  \/ PublishAfterSelfTheft(r, "self_publish", "loop")
  \/ LeaveLoop(r)
  \/ ActiveWait(r)

Steal(r) ==
  \/ LoadBalancing(r)
  \/ \E v \in Rank : TryLock(r, v)
  \/ ReadMetadata(r)
  \/ ReadTasks(r)
  \/ UnlockVictim(r)
  \/ ReleaseOwn(r)

Program(r) ==
  \/ \E n \in TaskCounts[r] : SetProblem(r, n)
  \/ ParallelWork(r)
  \/ Work(r)
  \/ Steal(r)
  \/ Finish(r)

Next ==
  \/ \E r \in Rank : Program(r)
  \/ \E r \in Rank : SubmitArrived(r)
  \/ DetectTermination
  \/ Stop

Spec == Init /\ [][Next]_vars

\* Every rank runs its own process.  A batch that has arrived is submitted by
\* one of the flushes its owner makes each time around its loops.
Fairness ==
  /\ \A r \in Rank : WF_vars(Program(r)) /\ SF_vars(SubmitArrived(r))
  /\ WF_vars(DetectTermination)

FairSpec == Spec /\ Fairness

-----------------------------------------------------------------------------
(* Properties *)

Step == {"idle", "barrier", "begin", "begin_move", "begin_publish", "init",
         "loop", "lock", "switch", "refill", "refill_publish", "self_move",
         "self_publish", "wait", "thief", "select", "read_metadata",
         "read_tasks", "unlock", "release"}

Batch == [owner : Rank \cup {NoRank}, first : Int, nb : Nat]

\* The variables have their types; a task segment never holds more tasks and a
\* tmp segment never more results than it has room for (the second is the
\* assertion at the top of the work loop).
TypeOK ==
  /\ pc         \in [Rank -> Step]
  /\ state      \in [Rank -> LockWord]
  /\ seg        \in [Rank -> [owner : Rank, nb : 0 .. SegmentMax,
                              end : Int, base : Int]]
  /\ dq         \in [Rank -> [owner : Rank, head : Nat, tail : Int,
                              end : Int, base : Int]]
  /\ tmp        \in [Rank -> [owner : Rank \cup {NoRank}, last : Int,
                              nb : 0 .. TmpMax]]
  /\ target     \in [Rank -> Rank]
  /\ nbTask     \in [Rank -> Nat]
  /\ results    \in [Rank -> SUBSET Int]
  /\ nbResult   \in [Rank -> Nat]
  /\ inTransit  \in SUBSET Batch
  /\ terminated \in [Rank -> BOOLEAN]
  /\ session    \in [Rank -> Nat]

\* Thief t holds the lock of r and has not read its metadata yet
Reading(t, r) == pc[t] = "read_metadata" /\ target[t] = r

\* Thief t may be reading the segment of r
Copying(t, r) == pc[t] \in {"read_metadata", "read_tasks"} /\ target[t] = r

\* The tasks in the segment of r are r's (still, or already): published,
\* locked by r itself, locked but not yet read by a thief, or written by r
\* (by a refill, or by a theft) and not yet published.
SegmentLive(r) ==
  \/ state[r] \in {TASK_AVAILABLE, r}
  \/ \E t \in Rank : Reading(t, r)
  \/ pc[r] \in {"begin", "begin_move", "begin_publish", "refill_publish"}

\* The places task number i of rank o can be in
InDequeue(r, o, i) == dq[r].owner = o /\ i \in Run(dq[r].end, NbDequeue(r))
InSegment(r, o, i) == /\ SegmentLive(r)
                      /\ seg[r].owner = o /\ i \in Run(seg[r].end, seg[r].nb)
InTmp(r, o, i)     == tmp[r].owner = o /\ i \in Run(tmp[r].last, tmp[r].nb)
InBatch(b, o, i)   == b.owner = o /\ i \in Run(b.first + b.nb, b.nb)

DequeuesWith(o, i) == {r \in Rank : InDequeue(r, o, i)}
SegmentsWith(o, i) == {r \in Rank : InSegment(r, o, i)}
TmpsWith(o, i)     == {r \in Rank : InTmp(r, o, i)}
BatchesWith(o, i)  == {b \in inTransit : InBatch(b, o, i)}
UsersWith(o, i)    == {r \in {o} : i \in results[r]}

AllPlaces(dequeues, segments, tmps, batches, users) ==
  ({"dequeue"} \X dequeues) \cup ({"segment"} \X segments) \cup
  ({"tmp"} \X tmps) \cup ({"batch"} \X batches) \cup ({"user"} \X users)

Places(o, i) ==
  AllPlaces(DequeuesWith(o, i), SegmentsWith(o, i), TmpsWith(o, i),
            BatchesWith(o, i), UsersWith(o, i))

\* Whatever the interleaving of thefts, refills and self-thefts, each task is
\* in exactly one place: to be done in one dequeue or segment, or done, its
\* result in one tmp segment, on its way, or in the user's array.  No task is
\* lost with an overwritten segment, none is run twice.
EveryTaskOnce ==
  \A o \in Rank : \A i \in 0 .. nbTask[o] - 1 :
    LET P == Places(o, i) IN \E p \in P : P = {p}

\* The assertions on lock words: a worker starts with NO_TASK, only the owner
\* leaves FREE_FOR_COPY, a thief finds its own rank in the two words it
\* unlocks, and nobody leaves the work loop while tasks can be stolen from it.
LockAsserts ==
  \A r \in Rank :
    /\ pc[r] = "begin"          => state[r] = NO_TASK
    /\ pc[r] = "refill_publish" => state[r] = FREE_FOR_COPY
    /\ pc[r] = "unlock"         => state[target[r]] = r
    /\ pc[r] = "release"        => state[r] = r
    /\ pc[r] = "loop" /\ NbDequeue(r) = 0 => state[r] # TASK_AVAILABLE

\* The numbers in the metadata are those of the data: the next task of the
\* dequeue is the one whose result goes to the next slot of the tmp segment,
\* across refills, self-thefts and thefts, and the tasks a segment offers are
\* the ones its metadata names.
IdsMatchData ==
  \A r \in Rank :
    /\ pc[r] \in {"loop", "init"} /\ NbDequeue(r) > 0
         => dq[r].base + dq[r].tail = dq[r].end
    /\ pc[r] = "loop" /\ NbDequeue(r) > 0
         => tmp[r].owner = dq[r].owner /\ tmp[r].last - tmp[r].nb = dq[r].end
    /\ SegmentLive(r) /\ seg[r].nb > 0 /\ pc[r] # "read_tasks"
         => seg[r].base + seg[r].nb = seg[r].end

\* A result is counted once: the count never exceeds the number of results the
\* rank waits for (two assertions), and when it has reached it, the user's
\* array is full.
CountIsExact ==
  \A r \in Rank :
    /\ nbResult[r] <= nbTask[r]
    /\ nbResult[r] = nbTask[r] => results[r] = 0 .. nbTask[r] - 1

\* Nobody writes a segment while a thief copies it.
SegmentStable ==
  [][\A r, t \in Rank : Copying(t, r) => seg'[r] = seg[r]]_vars

\* Every session ends on every rank: no worker waits for ever for the thief of its segment, no
\* thief goes on after detection.
Completion == <>Over

-----------------------------------------------------------------------------
(* The abstract specification, and what its variables are here *)

TasksOfRun(o, end, nb) == {o} \X Run(end, nb)

poolTodo ==
  [r \in Rank |->
     TasksOfRun(dq[r].owner, dq[r].end, NbDequeue(r)) \cup
     (IF SegmentLive(r) THEN TasksOfRun(seg[r].owner, seg[r].end, seg[r].nb)
                        ELSE {})]

poolDone ==
  (UNION {TasksOfRun(tmp[r].owner, tmp[r].last, tmp[r].nb) : r \in Rank}) \cup
  (UNION {TasksOfRun(b.owner, b.first + b.nb, b.nb) : b \in inTransit})

Pool == INSTANCE TaskPool WITH
          todo <- poolTodo, done <- poolDone,
          running <- [r \in Rank |-> pc[r] # "idle"]

\* Thefts are atomic, each task is done by the rank that holds it, each
\* result is delivered to its owner, and nobody leaves a session early.
ImplementsTaskPool == Pool!Spec

=============================================================================
