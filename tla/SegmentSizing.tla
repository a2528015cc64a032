---------------------------- MODULE SegmentSizing ----------------------------
(***************************************************************************)
(* The sizes, in bytes, that set_problem computes from the task segment's  *)
(* size, the assertions it makes about them, and what the work loop then   *)
(* puts into the dequeue's buffer, the tmp segment and the result segment. *)
(* All ranks have the same sizes, so one of them is modelled.              *)
(***************************************************************************)
EXTENDS Integers

CONSTANTS
    SegmentSizes, TaskSizes, ResultSizes, TaskCounts, \* what the user may ask for
    IntRange,  \* 2^32: int arithmetic wraps modulo this
    LongRange, \* 2^64
    HeaderTask, HeaderTmp, HeaderResult, HeaderElt, \* sizeof the metadata and of a BufferElt
    MaxProblems \* bound

\* MetadataTmp has a BufferElt as its last member, and MetadataResult is more than one.
ASSUME SizingAssumption ==
    /\ SegmentSizes \cup TaskSizes \cup ResultSizes \cup {HeaderTask, HeaderElt} \subseteq Nat \ {0}
    /\ TaskCounts \subseteq Nat /\ MaxProblems \in Nat
    /\ HeaderTmp \in Nat /\ HeaderResult \in Nat
    /\ HeaderElt < HeaderTmp /\ HeaderElt < HeaderResult
    /\ IntRange \in Nat \ {0} /\ LongRange \in Nat /\ IntRange <= LongRange

VARIABLES
    shared_task_segment_size, shared_tmp_result_segment_size, shared_result_segment_size,
    problem_size_allocated,   \* of the dequeue's buffer
    problem,    \* task_size and result_size as the problem says
    tasks,      \* tasks in the dequeue
    nb_result,  \* results in the tmp segment
    mode,       \* "user", "work", "dead"
    problems    \* set_problem calls

sizes == <<shared_task_segment_size, shared_tmp_result_segment_size, shared_result_segment_size>>
vars == <<sizes, problem_size_allocated, problem, tasks, nb_result, mode, problems>>

\* The constructor: a buffer of the size of the task segment; the other segments do not exist.
Init ==
    /\ shared_task_segment_size \in SegmentSizes
    /\ shared_tmp_result_segment_size = 0 /\ shared_result_segment_size = 0
    /\ problem_size_allocated = shared_task_segment_size
    /\ problem = [task_size |-> 1, result_size |-> 1]
    /\ tasks = 0 /\ nb_result = 0
    /\ mode = "user" /\ problems = 0

-----------------------------------------------------------------------------
(* set_problem *)

\* An int product, and its conversion to the unsigned type of problem_size_allocated.
AsInt(x) == ((x + IntRange \div 2) % IntRange) - IntRange \div 2
AsLong(x) == IF x < 0 THEN x + LongRange ELSE x

Needed(p, nb) == AsLong(AsInt(p.task_size * nb))

TmpSize(p) == (shared_task_segment_size \div p.task_size) * p.result_size + HeaderTmp

ResultSize(p) == ((shared_task_segment_size \div p.task_size) * p.result_size + HeaderResult) * 2

\* The assertions; the first two are made when the segments exist already, and the first
\* subtracts in unsigned arithmetic.
Accepted(p, first, tmp_size) ==
    /\ ~first => /\ (shared_task_segment_size - HeaderTask) % LongRange >= p.task_size
                 /\ (shared_task_segment_size - HeaderTask) \div p.task_size
                        <= (tmp_size - HeaderTmp) \div p.result_size
    /\ tmp_size >= p.result_size + HeaderTmp
    /\ shared_task_segment_size >= p.task_size + HeaderTask

\* A realloc of what a negative int becomes finds no memory, and the assertion after it fails.
SetProblem(p, nb) ==
    /\ mode = "user" /\ problems < MaxProblems
    /\ problems' = problems + 1
    /\ problem' = p
    /\ LET first == shared_result_segment_size = 0 IN
       /\ IF first
          THEN /\ shared_tmp_result_segment_size' = TmpSize(p)
               /\ shared_result_segment_size' = ResultSize(p)
          ELSE UNCHANGED <<shared_tmp_result_segment_size, shared_result_segment_size>>
       /\ problem_size_allocated' = IF Needed(p, nb) > problem_size_allocated
                                    THEN Needed(p, nb) ELSE problem_size_allocated
       /\ mode' = IF /\ Accepted(p, first, shared_tmp_result_segment_size')
                     /\ problem_size_allocated' < LongRange \div 2
                  THEN "work" ELSE "dead"
    /\ tasks' = nb
    /\ nb_result' = 0
    /\ UNCHANGED shared_task_segment_size

-----------------------------------------------------------------------------
(* parallel_work *)

\* The tasks that fit in the task segment, and the results that may be in the tmp segment; what
\* is below zero is a large unsigned number.
nb_task_max == (shared_task_segment_size - HeaderTask) \div problem.task_size
\* mutant: the metadata is not subtracted
MutNbResultMax == AsLong(shared_tmp_result_segment_size \div problem.result_size - 1)
nb_result_max ==
    AsLong((shared_tmp_result_segment_size - HeaderTmp) \div problem.result_size - 1)

\* One turn of the work loop: a full tmp segment is returned, then a task is done.
DoNextTask ==
    /\ mode = "work" /\ tasks > 0
    /\ IF nb_result > nb_result_max
       THEN mode' = "dead" /\ UNCHANGED <<tasks, nb_result>>
       ELSE /\ tasks' = tasks - 1
            /\ nb_result' = (IF nb_result = nb_result_max THEN 0 ELSE nb_result) + 1
            /\ UNCHANGED mode
    /\ UNCHANGED <<sizes, problem_size_allocated, problem, problems>>

\* Tasks of the own segment: more of the same, or after return_result those that were stolen.
TakeFromSegment(n, stolen) ==
    /\ mode = "work" /\ tasks = 0 /\ n \in 1 .. nb_task_max
    /\ tasks' = n
    /\ nb_result' = IF stolen THEN 0 ELSE nb_result
    /\ UNCHANGED <<sizes, problem_size_allocated, problem, mode, problems>>

\* The tmp segment is returned and the session ends.
Finish ==
    /\ mode = "work" /\ tasks = 0
    /\ mode' = "user" /\ nb_result' = 0
    /\ UNCHANGED <<sizes, problem_size_allocated, problem, tasks, problems>>

Over == mode = "dead" \/ (mode = "user" /\ problems = MaxProblems)
Stop == Over /\ UNCHANGED vars

Problem == [task_size : TaskSizes, result_size : ResultSizes]

Next ==
    \/ \E p \in Problem, nb \in TaskCounts : SetProblem(p, nb)
    \/ DoNextTask \/ Finish \/ Stop
    \/ \E n \in 1 .. shared_task_segment_size, stolen \in BOOLEAN : TakeFromSegment(n, stolen)

Spec == Init /\ [][Next]_vars

-----------------------------------------------------------------------------
\* The results of a batch and the BufferElt that push_tmp_results builds in front of them stay
\* clear of the tmp segment's metadata, but for its last member, which is there for that, also
\* when a later problem has other sizes than the one the segment was made for.
TmpFits ==
    mode = "work" =>
        nb_result * problem.result_size + HeaderElt <= shared_tmp_result_segment_size - (HeaderTmp - HeaderElt)

\* A batch fits in an empty result segment, whose room is compared with strict inequality, or
\* push_tmp_results would flush that segment and try again for ever.
EntryFits ==
    mode = "work" => nb_result * problem.result_size + HeaderElt < shared_result_segment_size - HeaderResult

\* The buffer of the dequeue has room for what set_problem and self-theft copy there
\* ("reallocation si la taille allouer est trop petite", TITUS_DLB_context.cpp:443).
DequeueFits == mode = "work" => tasks * problem.task_size <= problem_size_allocated

\* Nothing is written beyond the memory that set_problem has provided for it.
MemoryFits == TmpFits /\ EntryFits /\ DequeueFits
=============================================================================
