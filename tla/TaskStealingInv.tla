-------------------------- MODULE TaskStealingInv --------------------------
(***************************************************************************)
(* The inductive invariant of TaskStealing: what the lock words say about  *)
(* the steps of the ranks (LockInv), what the steps say about the private  *)
(* data (LocalInv), that metadata and data agree (AlignInv), that each     *)
(* task is in one place (PlaceInv), and what the counts of results and the *)
(* sessions of different ranks have to do with it (CountInv, SessionInv).  *)
(***************************************************************************)
EXTENDS TaskStealing

\* thief t holds the lock word of its victim
Holds(t) == pc[t] \in {"read_metadata", "read_tasks", "unlock"}

\* r has the lock of its own segment
Own(r) == pc[r] \in {"self_move", "self_publish", "read_tasks", "unlock", "release"}

\* steps of the work loop in which thieves may work on the segment of r
Open(r) == pc[r] \in {"init", "loop", "lock", "switch"}

\* steps that find an empty dequeue
NoWork(r) == pc[r] \in {"idle", "begin_move", "lock", "self_move", "wait",
                        "thief", "select", "read_metadata", "read_tasks",
                        "unlock", "release"}

\* steps in which the tmp segment may hold results
Batching(r) == pc[r] \in {"loop", "lock", "switch", "refill",
                          "refill_publish", "self_move", "self_publish"}

\* steps in which the tasks of the segment come just before the dequeue's
Below(r) ==
  \/ pc[r] \in {"begin_publish", "refill_publish", "self_move", "self_publish"}
  \/ Open(r) /\ state[r] \in {TASK_AVAILABLE, r}

(* Who holds which lock word, at which step. *)
LockInv ==
  /\ \A t \in Rank : Holds(t) => target[t] # t /\ state[target[t]] = t
  /\ \A r \in Rank :
       /\ state[r] \in Rank \ {r} => Holds(state[r]) /\ target[state[r]] = r
       /\ Own(r) => state[r] = r
       /\ state[r] = r => Own(r) \/ pc[r] = "switch"
       /\ state[r] = TASK_AVAILABLE => Open(r)
       /\ state[r] \in Rank \ {r} => Open(r) \/ pc[r] = "wait"
       /\ state[r] = FREE_FOR_COPY =>
            Open(r) \/ pc[r] \in {"refill", "refill_publish", "wait"}
       /\ pc[r] \in {"refill", "refill_publish"} => state[r] = FREE_FOR_COPY
       /\ pc[r] \in {"init", "loop", "switch"} /\ NbDequeue(r) = 0
            => state[r] # TASK_AVAILABLE

(* The private data at each step. *)
LocalInv ==
  \A r \in Rank :
    /\ dq[r].head <= dq[r].tail
    /\ NoWork(r) => NbDequeue(r) = 0
    /\ pc[r] = "switch" /\ state[r] = r => NbDequeue(r) = 0
    /\ pc[r] \in {"idle", "barrier"} => seg[r].nb = 0
    /\ pc[r] = "begin" /\ NbDequeue(r) > 0 => seg[r].nb = 0
    /\ ~ Batching(r) => tmp[r].nb = 0
    /\ state[r] = TASK_AVAILABLE => seg[r].nb > 0
    /\ pc[r] = "switch" /\ state[r] = r => seg[r].nb > 0
    /\ pc[r] \in {"begin_move", "self_move"} => seg[r].nb > 0
    /\ pc[r] \in {"begin_publish", "self_publish"} => NbDequeue(r) > 0
    /\ pc[r] = "refill_publish" /\ seg[r].nb > 0 => NbDequeue(r) > 0

(* Metadata and data agree: in the dequeue; between the dequeue and the    *)
(* tmp segment; between the dequeue and the segment it was cut from; in    *)
(* the segment; and between a segment and the copy a thief has begun.      *)
DequeueAligned(r) == dq[r].base + dq[r].tail = dq[r].end

BatchAligned(r) ==
  Batching(r) => tmp[r].owner = dq[r].owner /\ tmp[r].last - tmp[r].nb = dq[r].end

BelowAligned(r) ==
  seg[r].nb > 0 /\ Below(r)
    => seg[r].owner = dq[r].owner /\ seg[r].end = dq[r].end - NbDequeue(r)

SegmentAligned(r) ==
  SegmentLive(r) /\ seg[r].nb > 0 /\ pc[r] # "read_tasks"
    => seg[r].base + seg[r].nb = seg[r].end

CopyAligned(r) ==
  pc[r] = "read_tasks" =>
    LET v == seg[target[r]] IN
    /\ seg[r].owner = v.owner /\ seg[r].nb = v.nb /\ seg[r].end = v.end
    /\ v.nb > 0 => v.base + v.nb = v.end

Aligned(r) ==
  /\ DequeueAligned(r) /\ BatchAligned(r) /\ BelowAligned(r)
  /\ SegmentAligned(r) /\ CopyAligned(r)

AlignInv == \A r \in Rank : Aligned(r)

(* Every number below nbTask[o] is that of a task in exactly one place, no *)
(* other number is in any place; a batch on its way has a result of a rank. *)
OnePlace(o, i) ==
  LET P == Places(o, i) IN
  IF i \in 0 .. nbTask[o] - 1 THEN \E p \in P : P = {p} ELSE P = {}

PlaceInv ==
  /\ \A o \in Rank : \A i \in Int : OnePlace(o, i)
  /\ \A b \in inTransit : b.owner \in Rank /\ b.nb > 0

(* nb_result is the number of results in the user's array. *)
CountInv ==
  \A r \in Rank : IF pc[r] = "idle" THEN /\ nbResult[r] = 0
                                         /\ results[r] = 0 .. nbTask[r] - 1
                  ELSE nbResult[r] = Cardinality(results[r])

(* Ranks in parallel_work are in the last session begun by all; detection  *)
(* is for all ranks of that session, and their results are complete.       *)
SessionInv ==
  \A r \in Rank :
    /\ pc[r] \notin {"idle", "barrier"} => \A s \in Rank : session[s] >= session[r]
    /\ terminated[r] =>
         /\ results[r] = 0 .. nbTask[r] - 1
         /\ \A s \in Rank : /\ session[s] >= session[r]
                            /\ session[s] = session[r] => terminated[s]
=============================================================================
