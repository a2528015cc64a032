------------------------- MODULE TaskStealingProofs -------------------------
(***************************************************************************)
(* Proofs about TaskStealing, for every number of ranks, every capacity,   *)
(* every distribution of tasks and any number of sessions: types, locks,   *)
(* numbers and data; then that each task is in exactly one place, that a   *)
(* result is counted once, and that the protocol of segments and locks     *)
(* implements TaskPool. The last part is about WorkRequesting: with either *)
(* algorithm all this holds, and with requests no task leaves its rank.    *)
(***************************************************************************)
EXTENDS WorkRequesting, TaskStealingInv, FiniteSetTheorems, TLAPS

\* The types of the helpers: how many tasks a refill and a self-theft move.
LEMMA RefillBounds ==
  ASSUME NEW nb \in Nat
  PROVE  /\ Refill(nb) \in Nat
         /\ Refill(nb) <= nb
         /\ Refill(nb) > 0 => Refill(nb) < nb
         /\ nb - Refill(nb) \in Nat
         /\ Refill(nb) \in 0 .. SegmentMax
  BY CapacityAssumption, SMT DEF Refill, NB_TASK_MIN

LEMMA SelfTheftBounds ==
  ASSUME NEW nb \in 0 .. SegmentMax
  PROVE  /\ SelfTheft(nb) \in Nat
         /\ nb - SelfTheft(nb) \in 0 .. SegmentMax
         /\ nb - SelfTheft(nb) = 0 <=> nb \in {0, 1}
         /\ nb > 0 => SelfTheft(nb) > 0
  BY CapacityAssumption, SMT DEF SelfTheft, NB_TASK_MIN

\* There is room for one more result in a tmp segment that is not full.
LEMMA RoomInTmp ==
  ASSUME NEW nb \in 0 .. TmpMax, nb # TmpMax
  PROVE  nb + 1 \in 0 .. TmpMax
  BY CapacityAssumption

-----------------------------------------------------------------------------
(* Type correctness *)

LEMMA TypeInit == Init => TypeOK
  BY RankAssumption, CapacityAssumption
     DEF Init, TypeOK, Rank, Step, LockWord, NO_TASK,
         Segment, Dequeue, TmpResults

LEMMA TypeNext == TypeOK /\ [Next]_vars => TypeOK'
  <1> SUFFICES ASSUME TypeOK, [Next]_vars PROVE TypeOK'
    OBVIOUS
  <1> USE CapacityAssumption DEF TypeOK, taskVars, resultVars, Goto, NbDequeue,
              Segment, Dequeue, TmpResults
  <1>1. ASSUME NEW r \in Rank, NEW n \in TaskCounts[r], SetProblem(r, n)
        PROVE  TypeOK'
    <2>1. n \in Nat
      BY CountsAssumption
    <2>2. QED
      BY <1>1, <2>1, CapacityAssumption DEF SetProblem, Step
  <1>2. ASSUME NEW r \in Rank, ParallelWork(r) PROVE TypeOK'
    BY <1>2 DEF ParallelWork, Step
  <1>3. ASSUME NEW r \in Rank, WorkBegin(r) PROVE TypeOK'
    BY <1>3 DEF WorkBegin, Step, CompareAndSwap, LockWord
  <1>4. ASSUME NEW r \in Rank, NEW from, NEW to \in Step,
               MoveSegmentToDequeue(r, from, to)
        PROVE  TypeOK'
    <2>1. /\ SelfTheft(seg[r].nb) \in Nat
          /\ seg[r].nb - SelfTheft(seg[r].nb) \in 0 .. SegmentMax
      BY SelfTheftBounds
    <2>2. QED
      BY <1>4, <2>1 DEF MoveSegmentToDequeue
  <1>5. ASSUME NEW r \in Rank, NEW from, NEW to \in Step,
               PublishAfterSelfTheft(r, from, to)
        PROVE  TypeOK'
    BY <1>5 DEF PublishAfterSelfTheft, CompareAndSwap, LockWord
  <1>6. ASSUME NEW r \in Rank, InitTmp(r) PROVE TypeOK'
    BY <1>6, CapacityAssumption DEF InitTmp, FreshTmp, Step
  <1>7. ASSUME NEW r \in Rank, PushTmpResults(r)
        PROVE  /\ inTransit' \in SUBSET Batch
               /\ results' \in [Rank -> SUBSET Int]
               /\ nbResult' \in [Rank -> Nat]
    <2>0. tmp[r].nb \in Nat /\ tmp[r].last \in Int
      BY CapacityAssumption
    <2>1. CASE tmp[r].nb = 0
      BY <2>1, <1>7 DEF PushTmpResults
    <2>2. CASE tmp[r].nb # 0 /\ tmp[r].owner = r
      <3> DEFINE t == tmp[r]
      <3>1. /\ results' = [results EXCEPT ![r] = @ \cup Run(t.last - t.nb + t.nb, t.nb)]
            /\ nbResult' = [nbResult EXCEPT ![r] = @ + t.nb]
            /\ inTransit' = inTransit
        BY <2>2, <1>7 DEF PushTmpResults, SubmitResults
      <3>2. Run(t.last - t.nb + t.nb, t.nb) \in SUBSET Int
        BY <2>0 DEF Run
      <3> QED
        BY <2>0, <3>1, <3>2
    <2>3. CASE tmp[r].nb # 0 /\ tmp[r].owner # r
      <3> DEFINE t == tmp[r]
                 b == [owner |-> t.owner, first |-> t.last - t.nb, nb |-> t.nb]
      <3>1. /\ inTransit' = inTransit \cup {b}
            /\ UNCHANGED <<results, nbResult>>
        BY <2>3, <1>7 DEF PushTmpResults
      <3>2. b \in Batch
        BY <2>0, <2>3 DEF Batch
      <3> QED
        BY <3>1, <3>2
    <2>4. QED
      BY <2>1, <2>2, <2>3
  <1>8. ASSUME NEW r \in Rank, ReturnFullTmp(r) PROVE TypeOK'
    BY <1>7, <1>8, CapacityAssumption DEF ReturnFullTmp, TmpFull, FreshTmp, Step
  <1>9. ASSUME NEW r \in Rank, DoNextTask(r) PROVE TypeOK'
    <2>1. tmp[r].nb + 1 \in 0 .. TmpMax
      <3>1. tmp[r].nb \in 0 .. TmpMax
        OBVIOUS
      <3>2. tmp[r].nb # TmpMax
        BY <1>9 DEF DoNextTask, TmpFull
      <3>3. QED
        BY <3>1, <3>2, RoomInTmp
    <2>2. tmp' \in [Rank -> [owner : Rank \cup {NoRank}, last : Int, nb : 0 .. TmpMax]]
      BY <1>9, <2>1 DEF DoNextTask
    <2>3. dq' \in [Rank -> [owner : Rank, head : Nat, tail : Int,
                            end : Int, base : Int]]
      BY <1>9 DEF DoNextTask
    <2>4. QED
      BY <1>9, <2>2, <2>3 DEF DoNextTask, Step
  <1>10. ASSUME NEW r \in Rank, LockOwnSegment(r) PROVE TypeOK'
    BY <1>10 DEF LockOwnSegment, CompareAndSwap, LockWord, Step
  <1>11. ASSUME NEW r \in Rank, SwitchOnState(r) PROVE TypeOK'
    BY ZenonT(60), <1>11 DEF SwitchOnState, Step
  <1>12. ASSUME NEW r \in Rank, MoveDequeueToSegment(r) PROVE TypeOK'
    <2> DEFINE nb == NbDequeue(r)
    <2>1. CASE nb < 0
      BY <1>12, <2>1, CapacityAssumption DEF MoveDequeueToSegment, Step, Refill, NB_TASK_MIN
    <2>2. CASE nb \in Nat
      <3>1. Refill(nb) \in Nat /\ Refill(nb) \in 0 .. SegmentMax
        BY <2>2, RefillBounds
      <3> QED
        BY <1>12, <2>2, <3>1 DEF MoveDequeueToSegment, Step
    <2>3. QED
      BY <2>1, <2>2
  <1>13. ASSUME NEW r \in Rank, PublishAfterRefill(r) PROVE TypeOK'
    BY <1>13 DEF PublishAfterRefill, CompareAndSwap, LockWord, Step
  <1>14. ASSUME NEW r \in Rank, LeaveLoop(r) PROVE TypeOK'
    BY <1>7, <1>14, CapacityAssumption DEF LeaveLoop, Step
  <1>15. ASSUME NEW r \in Rank, ActiveWait(r) PROVE TypeOK'
    BY <1>15 DEF ActiveWait, CompareAndSwap, LockWord, Step
  <1>16. ASSUME NEW r \in Rank, LoadBalancing(r) PROVE TypeOK'
    BY <1>16 DEF LoadBalancing, Step
  <1>17. ASSUME NEW r \in Rank, NEW v \in Rank, TryLock(r, v) PROVE TypeOK'
    BY <1>17 DEF TryLock, CompareAndSwap, LockWord, Step
  <1>18. ASSUME NEW r \in Rank, ReadMetadata(r) PROVE TypeOK'
    BY <1>18 DEF ReadMetadata, Step
  <1>19. ASSUME NEW r \in Rank, ReadTasks(r) PROVE TypeOK'
    BY <1>19 DEF ReadTasks, Step
  <1>20. ASSUME NEW r \in Rank, UnlockVictim(r) PROVE TypeOK'
    BY <1>20 DEF UnlockVictim, CompareAndSwap, LockWord, Step
  <1>21. ASSUME NEW r \in Rank, ReleaseOwn(r) PROVE TypeOK'
    BY <1>21 DEF ReleaseOwn, CompareAndSwap, LockWord, Step
  <1>22. ASSUME NEW r \in Rank, Finish(r) PROVE TypeOK'
    BY <1>22 DEF Finish, ResetSegment, LockWord, Step
  <1>23. ASSUME NEW r \in Rank, SubmitArrived(r) PROVE TypeOK'
    BY <1>23 DEF SubmitArrived, SubmitResults, Batch, Run
  <1>24. ASSUME DetectTermination PROVE TypeOK'
    BY <1>24 DEF DetectTermination
  <1>25. CASE UNCHANGED vars
    BY <1>25 DEF vars
  <1>26. QED
    BY <1>1, <1>2, <1>3, <1>4, <1>5, <1>6, <1>8, <1>9, <1>10, <1>11, <1>12,
       <1>13, <1>14, <1>15, <1>16, <1>17, <1>18, <1>19, <1>20, <1>21, <1>22,
       <1>23, <1>24, <1>25
       DEF Next, Program, Work, Steal, Stop, Step

\* The variables of the program keep their types, a task segment never holds
\* more than its nb_task_max tasks, nor a tmp segment more than its
\* nb_result_max results.
THEOREM TypeCorrect == Spec => []TypeOK
  BY TypeInit, TypeNext, PTL DEF Spec

-----------------------------------------------------------------------------
(* The lock words and the private data *)

\* Ranks and lock words are all different.
LEMMA WordFacts ==
  /\ \A r \in Rank : r \notin {TASK_AVAILABLE, FREE_FOR_COPY, NO_TASK}
  /\ TASK_AVAILABLE \notin {FREE_FOR_COPY, NO_TASK} /\ FREE_FOR_COPY # NO_TASK
  BY RankAssumption DEF Rank, TASK_AVAILABLE, FREE_FOR_COPY, NO_TASK

ControlInv == TypeOK /\ LockInv /\ LocalInv

LEMMA ControlInit == Init => ControlInv
  <1> SUFFICES ASSUME Init PROVE ControlInv
    OBVIOUS
  <1>1. TypeOK
    BY TypeInit
  <1>2. LockInv
    BY WordFacts DEF Init, LockInv, Holds, Own, Open, NbDequeue, Dequeue
  <1>3. LocalInv
    BY WordFacts DEF Init, LocalInv, Holds, Own, Open, NbDequeue, Dequeue, NoWork,
          Batching, Segment, TmpResults
  <1> QED
    BY <1>1, <1>2, <1>3 DEF ControlInv

\* The steps at which the segment of r is closed to everybody.
LEMMA ClosedSegment ==
  ASSUME ControlInv, NEW r \in Rank,
         ~ Open(r), ~ Own(r), pc[r] \notin {"refill", "refill_publish", "wait"}
  PROVE  state[r] = NO_TASK /\ \A t \in Rank : ~ (Holds(t) /\ target[t] = r)
  <1>1. state[r] \in LockWord
    BY DEF ControlInv, TypeOK
  <1>2. state[r] \notin Rank \cup {TASK_AVAILABLE, FREE_FOR_COPY}
    BY WordFacts DEF ControlInv, LockInv, Open, Own
  <1>3. QED
    BY <1>1, <1>2 DEF ControlInv, LockInv, LockWord

LEMMA ControlNext == ControlInv /\ [Next]_vars => ControlInv'
  <1> SUFFICES ASSUME ControlInv, [Next]_vars PROVE LockInv' /\ LocalInv'
    BY TypeNext DEF ControlInv
  <1>t. TypeOK /\ TypeOK'
    BY TypeNext DEF ControlInv
  <1> USE WordFacts, CapacityAssumption DEF ControlInv, LockInv, LocalInv, Holds, Own, Open, NoWork,
                        Batching, Goto
  <1>1. ASSUME NEW r \in Rank, NEW n \in TaskCounts[r], SetProblem(r, n)
        PROVE  LockInv' /\ LocalInv'
    <2>1. LockInv'
      BY <1>t, <1>1 DEF SetProblem, Dequeue, TmpResults, TypeOK, taskVars, resultVars, NbDequeue
    <2>2. LocalInv'
      BY <1>t, <1>1 DEF SetProblem, Dequeue, TmpResults, TypeOK, taskVars, resultVars, NbDequeue
    <2>3. QED
      BY <2>1, <2>2
  <1>2. ASSUME NEW r \in Rank, ParallelWork(r)
        PROVE  LockInv' /\ LocalInv'
    <2>1. LockInv'
      BY <1>t, <1>2 DEF ParallelWork, TypeOK, taskVars, resultVars, NbDequeue
    <2>2. LocalInv'
      BY <1>t, <1>2 DEF ParallelWork, TypeOK, taskVars, resultVars, NbDequeue
    <2>3. QED
      BY <2>1, <2>2
  <1>3. ASSUME NEW r \in Rank, WorkBegin(r)
        PROVE  LockInv' /\ LocalInv'
    <2>1. LockInv'
      <3>1. state[r] = NO_TASK /\ \A t \in Rank : ~ (Holds(t) /\ target[t] = r)
        BY <1>3, ClosedSegment DEF WorkBegin
      <3>2. NbDequeue(r) > NB_TASK_MIN => pc'[r] = "init"
        <4>1. NbDequeue(r) \in Int
          BY <1>t DEF NbDequeue, TypeOK
        <4>2. NbDequeue(r) > NB_TASK_MIN => NbDequeue(r) > 0
          BY <4>1 DEF NB_TASK_MIN
        <4>3. NbDequeue(r) > 0 => seg[r].nb = 0
          BY <1>3 DEF WorkBegin
        <4>4. pc'[r] = IF seg[r].nb > 0 THEN "begin_move" ELSE "init"
          BY <1>t, <1>3 DEF WorkBegin, TypeOK
        <4>5. QED
          BY <4>2, <4>3, <4>4
      <3>3. QED
        BY <1>t, <1>3, <3>1, <3>2
           DEF WorkBegin, CompareAndSwap, TypeOK, taskVars, resultVars, NbDequeue
    <2>2. LocalInv'
      BY <1>t, <1>3 DEF WorkBegin, CompareAndSwap, TypeOK, taskVars, resultVars, NbDequeue
    <2>3. QED
      BY <2>1, <2>2
  <1>4. ASSUME NEW r \in Rank, 
               MoveSegmentToDequeue(r, "begin_move", "begin_publish")
        PROVE  LockInv' /\ LocalInv'
    <2>1. LockInv'
      BY <1>t, <1>4 DEF MoveSegmentToDequeue, Segment, Dequeue, TypeOK, taskVars, resultVars, NbDequeue
    <2>2. LocalInv'
      <3>1. /\ SelfTheft(seg[r].nb) \in Nat /\ SelfTheft(seg[r].nb) > 0
            /\ seg[r].nb - SelfTheft(seg[r].nb) \in 0 .. SegmentMax
        BY <1>t, <1>4, SelfTheftBounds DEF MoveSegmentToDequeue, TypeOK
      <3>2. QED
        BY <1>t, <1>4, <3>1
           DEF MoveSegmentToDequeue, Segment, Dequeue, TypeOK, taskVars, resultVars, NbDequeue
    <2>3. QED
      BY <2>1, <2>2
  <1>5. ASSUME NEW r \in Rank, 
               MoveSegmentToDequeue(r, "self_move", "self_publish")
        PROVE  LockInv' /\ LocalInv'
    <2>1. LockInv'
      BY <1>t, <1>5 DEF MoveSegmentToDequeue, Segment, Dequeue, TypeOK, taskVars, resultVars, NbDequeue
    <2>2. LocalInv'
      <3>1. /\ SelfTheft(seg[r].nb) \in Nat /\ SelfTheft(seg[r].nb) > 0
            /\ seg[r].nb - SelfTheft(seg[r].nb) \in 0 .. SegmentMax
        BY <1>t, <1>5, SelfTheftBounds DEF MoveSegmentToDequeue, TypeOK
      <3>2. QED
        BY <1>t, <1>5, <3>1
           DEF MoveSegmentToDequeue, Segment, Dequeue, TypeOK, taskVars, resultVars, NbDequeue
    <2>3. QED
      BY <2>1, <2>2
  <1>6. ASSUME NEW r \in Rank, 
               PublishAfterSelfTheft(r, "begin_publish", "init")
        PROVE  LockInv' /\ LocalInv'
    <2>1. LockInv'
      <3>1. state[r] = NO_TASK /\ \A t \in Rank : ~ (Holds(t) /\ target[t] = r)
        BY <1>6, ClosedSegment DEF PublishAfterSelfTheft
      <3>2. /\ state' = [state EXCEPT ![r] = IF seg[r].nb = 0 THEN NO_TASK
                                                            ELSE TASK_AVAILABLE]
            /\ pc[r] = "begin_publish" /\ pc' = [pc EXCEPT ![r] = "init"]
            /\ NbDequeue(r) > 0 /\ UNCHANGED <<dq, target>>
        BY <1>6 DEF PublishAfterSelfTheft, CompareAndSwap
      <3>3. NbDequeue(r) # 0
        BY <1>t, <3>2 DEF NbDequeue, TypeOK
      <3>4. QED
        BY <1>t, <3>1, <3>2, <3>3 DEF TypeOK, NbDequeue
    <2>2. LocalInv'
      BY <1>t, <1>6 DEF PublishAfterSelfTheft, CompareAndSwap, TypeOK, taskVars, resultVars, NbDequeue
    <2>3. QED
      BY <2>1, <2>2
  <1>7. ASSUME NEW r \in Rank, 
               PublishAfterSelfTheft(r, "self_publish", "loop")
        PROVE  LockInv' /\ LocalInv'
    <2>1. LockInv'
      BY <1>t, <1>7 DEF PublishAfterSelfTheft, CompareAndSwap, TypeOK, taskVars, resultVars, NbDequeue
    <2>2. LocalInv'
      BY <1>t, <1>7 DEF PublishAfterSelfTheft, CompareAndSwap, TypeOK, taskVars, resultVars, NbDequeue
    <2>3. QED
      BY <2>1, <2>2
  <1>8. ASSUME NEW r \in Rank, InitTmp(r)
        PROVE  LockInv' /\ LocalInv'
    <2>1. LockInv'
      BY <1>t, <1>8 DEF InitTmp, FreshTmp, TmpResults, TypeOK, taskVars, resultVars, NbDequeue
    <2>2. LocalInv'
      BY <1>t, <1>8 DEF InitTmp, FreshTmp, TmpResults, TypeOK, taskVars, resultVars, NbDequeue
    <2>3. QED
      BY <2>1, <2>2
  <1>9. ASSUME NEW r \in Rank, ReturnFullTmp(r)
        PROVE  LockInv' /\ LocalInv'
    <2>1. LockInv'
      BY <1>t, <1>9 DEF ReturnFullTmp, TmpFull, FreshTmp, TmpResults, TypeOK, taskVars, resultVars, NbDequeue
    <2>2. LocalInv'
      BY <1>t, <1>9 DEF ReturnFullTmp, TmpFull, FreshTmp, TmpResults, TypeOK, taskVars, resultVars, NbDequeue
    <2>3. QED
      BY <2>1, <2>2
  <1>10. ASSUME NEW r \in Rank, DoNextTask(r)
        PROVE  LockInv' /\ LocalInv'
    <2>1. LockInv'
      BY <1>t, <1>10 DEF DoNextTask, Dequeue, TmpResults, TypeOK, taskVars, resultVars, NbDequeue
    <2>2. LocalInv'
      BY SMTT(30), <1>t, <1>10 DEF DoNextTask, Dequeue, TmpResults, TypeOK, taskVars, resultVars, NbDequeue
    <2>3. QED
      BY <2>1, <2>2
  <1>11. ASSUME NEW r \in Rank, LockOwnSegment(r)
        PROVE  LockInv' /\ LocalInv'
    <2>1. LockInv'
      BY <1>t, <1>11 DEF LockOwnSegment, CompareAndSwap, TypeOK, taskVars, resultVars, NbDequeue
    <2>2. LocalInv'
      BY <1>t, <1>11 DEF LockOwnSegment, CompareAndSwap, TypeOK, taskVars, resultVars, NbDequeue
    <2>3. QED
      BY <2>1, <2>2
  <1>12. ASSUME NEW r \in Rank, SwitchOnState(r)
        PROVE  LockInv' /\ LocalInv'
    <2>1. LockInv'
      <3>0. UNCHANGED <<state, dq, target>>
        BY <1>12 DEF SwitchOnState, taskVars
      <3>1. CASE state[r] = FREE_FOR_COPY /\ Goto(r, "switch", "refill")
        BY <1>t, <3>0, <3>1 DEF TypeOK, NbDequeue
      <3>2. CASE state[r] = r /\ Goto(r, "switch", "self_move")
        BY <1>t, <3>0, <3>2 DEF TypeOK, NbDequeue
      <3>3. CASE state[r] \notin {FREE_FOR_COPY, r} /\ Goto(r, "switch", "loop")
        BY <1>t, <3>0, <3>3 DEF TypeOK, NbDequeue
      <3>4. QED
        BY <1>12, <3>1, <3>2, <3>3 DEF SwitchOnState
    <2>2. LocalInv'
      BY <1>t, <1>12 DEF SwitchOnState, TypeOK, taskVars, resultVars, NbDequeue
    <2>3. QED
      BY <2>1, <2>2
  <1>13. ASSUME NEW r \in Rank, MoveDequeueToSegment(r)
        PROVE  LockInv' /\ LocalInv'
    <2>1. LockInv'
      BY <1>t, <1>13 DEF MoveDequeueToSegment, Segment, Dequeue, TypeOK, taskVars, resultVars, NbDequeue
    <2>2. LocalInv'
      <3>1. /\ NbDequeue(r) \in Nat
            /\ Refill(NbDequeue(r)) \in Nat
            /\ Refill(NbDequeue(r)) <= NbDequeue(r)
            /\ Refill(NbDequeue(r)) > 0 => Refill(NbDequeue(r)) < NbDequeue(r)
        <4>1. NbDequeue(r) \in Nat
          BY <1>t DEF TypeOK, NbDequeue
        <4>2. QED
          BY <4>1, RefillBounds
      <3>2. QED
        BY SMTT(30), <1>t, <1>13, <3>1
           DEF MoveDequeueToSegment, Segment, Dequeue, TypeOK, taskVars, resultVars, NbDequeue
    <2>3. QED
      BY <2>1, <2>2
  <1>14. ASSUME NEW r \in Rank, PublishAfterRefill(r)
        PROVE  LockInv' /\ LocalInv'
    <2>1. LockInv'
      BY <1>t, <1>14 DEF PublishAfterRefill, CompareAndSwap, TypeOK, taskVars, resultVars, NbDequeue
    <2>2. LocalInv'
      BY <1>t, <1>14 DEF PublishAfterRefill, CompareAndSwap, TypeOK, taskVars, resultVars, NbDequeue
    <2>3. QED
      BY <2>1, <2>2
  <1>15. ASSUME NEW r \in Rank, LeaveLoop(r)
        PROVE  LockInv' /\ LocalInv'
    <2>1. LockInv'
      BY <1>t, <1>15 DEF LeaveLoop, TmpResults, TypeOK, taskVars, resultVars, NbDequeue
    <2>2. LocalInv'
      BY <1>t, <1>15 DEF LeaveLoop, TmpResults, TypeOK, taskVars, resultVars, NbDequeue
    <2>3. QED
      BY <2>1, <2>2
  <1>16. ASSUME NEW r \in Rank, ActiveWait(r)
        PROVE  LockInv' /\ LocalInv'
    <2>1. LockInv'
      BY <1>t, <1>16 DEF ActiveWait, CompareAndSwap, TypeOK, taskVars, resultVars, NbDequeue
    <2>2. LocalInv'
      BY <1>t, <1>16 DEF ActiveWait, CompareAndSwap, TypeOK, taskVars, resultVars, NbDequeue
    <2>3. QED
      BY <2>1, <2>2
  <1>17. ASSUME NEW r \in Rank, LoadBalancing(r)
        PROVE  LockInv' /\ LocalInv'
    <2>1. LockInv'
      BY <1>t, <1>17 DEF LoadBalancing, TypeOK, taskVars, resultVars, NbDequeue
    <2>2. LocalInv'
      BY <1>t, <1>17 DEF LoadBalancing, TypeOK, taskVars, resultVars, NbDequeue
    <2>3. QED
      BY <2>1, <2>2
  <1>18. ASSUME NEW r \in Rank, NEW v \in Rank, TryLock(r, v)
        PROVE  LockInv' /\ LocalInv'
    <2>1. LockInv'
      BY <1>t, <1>18 DEF TryLock, CompareAndSwap, TypeOK, taskVars, resultVars, NbDequeue
    <2>2. LocalInv'
      BY <1>t, <1>18 DEF TryLock, CompareAndSwap, TypeOK, taskVars, resultVars, NbDequeue
    <2>3. QED
      BY <2>1, <2>2
  <1>19. ASSUME NEW r \in Rank, ReadMetadata(r)
        PROVE  LockInv' /\ LocalInv'
    <2>1. LockInv'
      <3>0. state[r] = NO_TASK /\ \A t \in Rank : ~ (Holds(t) /\ target[t] = r)
        BY <1>19, ClosedSegment DEF ReadMetadata
      <3>1. state[target[r]] = r /\ target[r] # r
        BY <1>19 DEF ReadMetadata
      <3>2. state' = [state EXCEPT ![r] = r] /\ UNCHANGED <<dq, target>>
        BY <1>19, <3>1 DEF ReadMetadata
      <3>3. pc[r] = "read_metadata" /\ pc' = [pc EXCEPT ![r] = "read_tasks"]
        BY <1>19 DEF ReadMetadata
      <3>4. QED
        BY <1>t, <3>0, <3>1, <3>2, <3>3 DEF TypeOK, NbDequeue
    <2>2. LocalInv'
      BY <1>t, <1>19 DEF ReadMetadata, Segment, TypeOK, taskVars, resultVars, NbDequeue
    <2>3. QED
      BY <2>1, <2>2
  <1>20. ASSUME NEW r \in Rank, ReadTasks(r)
        PROVE  LockInv' /\ LocalInv'
    <2>1. LockInv'
      BY <1>t, <1>20 DEF ReadTasks, Segment, TypeOK, taskVars, resultVars, NbDequeue
    <2>2. LocalInv'
      BY <1>t, <1>20 DEF ReadTasks, Segment, TypeOK, taskVars, resultVars, NbDequeue
    <2>3. QED
      BY <2>1, <2>2
  <1>21. ASSUME NEW r \in Rank, UnlockVictim(r)
        PROVE  LockInv' /\ LocalInv'
    <2>1. LockInv'
      BY <1>t, <1>21 DEF UnlockVictim, CompareAndSwap, TypeOK, taskVars, resultVars, NbDequeue
    <2>2. LocalInv'
      BY <1>t, <1>21 DEF UnlockVictim, CompareAndSwap, TypeOK, taskVars, resultVars, NbDequeue
    <2>3. QED
      BY <2>1, <2>2
  <1>22. ASSUME NEW r \in Rank, ReleaseOwn(r)
        PROVE  LockInv' /\ LocalInv'
    <2>1. LockInv'
      BY <1>t, <1>22 DEF ReleaseOwn, CompareAndSwap, TypeOK, taskVars, resultVars, NbDequeue
    <2>2. LocalInv'
      BY <1>t, <1>22 DEF ReleaseOwn, CompareAndSwap, TypeOK, taskVars, resultVars, NbDequeue
    <2>3. QED
      BY <2>1, <2>2
  <1>23. ASSUME NEW r \in Rank, Finish(r)
        PROVE  LockInv' /\ LocalInv'
    <2>1. LockInv'
      <3>1. state[r] = NO_TASK /\ \A t \in Rank : ~ (Holds(t) /\ target[t] = r)
        BY <1>23, ClosedSegment DEF Finish
      <3>2. QED
        BY <1>t, <1>23, <3>1 DEF Finish, TypeOK, resultVars, NbDequeue
    <2>2. LocalInv'
      BY <1>t, <1>23 DEF Finish, ResetSegment, Segment, TypeOK, taskVars, resultVars, NbDequeue
    <2>3. QED
      BY <2>1, <2>2
  <1>24. ASSUME NEW r \in Rank, SubmitArrived(r)
        PROVE  LockInv' /\ LocalInv'
    <2>1. LockInv'
      BY <1>t, <1>24 DEF SubmitArrived, TypeOK, taskVars, resultVars, NbDequeue
    <2>2. LocalInv'
      BY <1>t, <1>24 DEF SubmitArrived, TypeOK, taskVars, resultVars, NbDequeue
    <2>3. QED
      BY <2>1, <2>2
  <1>25. ASSUME DetectTermination
        PROVE  LockInv' /\ LocalInv'
    <2>1. LockInv'
      BY <1>t, <1>25 DEF DetectTermination, TypeOK, taskVars, resultVars, NbDequeue
    <2>2. LocalInv'
      BY <1>t, <1>25 DEF DetectTermination, TypeOK, taskVars, resultVars, NbDequeue
    <2>3. QED
      BY <2>1, <2>2
  <1>26. CASE UNCHANGED vars
    BY <1>26 DEF vars, NbDequeue
  <1>27. QED
    BY <1>1, <1>2, <1>3, <1>4, <1>5, <1>6, <1>7, <1>8, <1>9, <1>10, <1>11, <1>12, <1>13, <1>14, <1>15, <1>16, <1>17, <1>18, <1>19, <1>20, <1>21, <1>22, <1>23, <1>24, <1>25, <1>26
       DEF Next, Program, Work, Steal, Stop

LEMMA ControlCorrect == Spec => []ControlInv
  BY ControlInit, ControlNext, PTL DEF Spec

LEMMA LockAssertsHold == ControlInv => LockAsserts
  <1> SUFFICES ASSUME ControlInv, NEW r \in Rank
               PROVE  /\ pc[r] = "begin"          => state[r] = NO_TASK
                      /\ pc[r] = "refill_publish" => state[r] = FREE_FOR_COPY
                      /\ pc[r] = "unlock"         => state[target[r]] = r
                      /\ pc[r] = "release"        => state[r] = r
                      /\ pc[r] = "loop" /\ NbDequeue(r) = 0
                           => state[r] # TASK_AVAILABLE
    BY DEF LockAsserts
  <1>1. pc[r] = "begin" => state[r] = NO_TASK
    BY ClosedSegment DEF Open, Own
  <1>2. QED
    BY <1>1 DEF ControlInv, LockInv, Holds, Own

\* The assertions on the lock words never fail: the worker's, the thief's and
\* the refill's compare and swaps find the words they were written for.
THEOREM LocksCorrect == Spec => []LockAsserts
  BY ControlCorrect, LockAssertsHold, PTL

\* A segment that a thief copies is at none of the steps that write it.
LEMMA CopiedSegment ==
  ASSUME ControlInv, NEW r \in Rank, NEW t \in Rank, Copying(t, r)
  PROVE  Open(r) \/ pc[r] = "wait"
  <1>1. state[r] = t /\ t # r
    BY DEF ControlInv, LockInv, Copying, Holds
  <1>2. QED
    BY <1>1 DEF ControlInv, LockInv

LEMMA StableStep ==
  ASSUME ControlInv, [Next]_vars, NEW r \in Rank, NEW t \in Rank, Copying(t, r)
  PROVE  seg'[r] = seg[r]
  <1>1. pc[r] \in {"init", "loop", "lock", "switch", "wait"}
    BY CopiedSegment DEF Open
  <1>2. seg \in [Rank -> [owner : Rank, nb : 0 .. SegmentMax, end : Int, base : Int]]
    BY DEF ControlInv, TypeOK
  <1>3. ASSUME NEW s \in Rank, Program(s)
        PROVE  seg'[r] = seg[r]
    <2>1. CASE \/ MoveSegmentToDequeue(s, "begin_move", "begin_publish")
               \/ MoveSegmentToDequeue(s, "self_move", "self_publish")
               \/ MoveDequeueToSegment(s)
               \/ ReadMetadata(s) \/ ReadTasks(s) \/ Finish(s)
      <3>1. s # r
        BY <1>1, <2>1 DEF MoveSegmentToDequeue, MoveDequeueToSegment,
                          ReadMetadata, ReadTasks, Finish, Goto
      <3>2. QED
        BY <1>2, <2>1, <3>1 DEF MoveSegmentToDequeue, MoveDequeueToSegment,
                                ReadMetadata, ReadTasks, Finish
    <2>2. CASE \/ \E n \in TaskCounts[s] : SetProblem(s, n)
               \/ ParallelWork(s) \/ WorkBegin(s)
               \/ PublishAfterSelfTheft(s, "begin_publish", "init")
               \/ PublishAfterSelfTheft(s, "self_publish", "loop")
               \/ InitTmp(s) \/ ReturnFullTmp(s) \/ DoNextTask(s)
               \/ LockOwnSegment(s) \/ SwitchOnState(s)
               \/ PublishAfterRefill(s) \/ LeaveLoop(s) \/ ActiveWait(s)
               \/ LoadBalancing(s) \/ (\E v \in Rank : TryLock(s, v))
               \/ UnlockVictim(s) \/ ReleaseOwn(s)
      BY <2>2 DEF SetProblem, ParallelWork, WorkBegin, PublishAfterSelfTheft,
                  InitTmp, ReturnFullTmp, DoNextTask, LockOwnSegment,
                  SwitchOnState, PublishAfterRefill, LeaveLoop, ActiveWait,
                  LoadBalancing, TryLock, UnlockVictim, ReleaseOwn, taskVars
    <2>3. QED
      BY <1>3, <2>1, <2>2 DEF Program, Work, Steal
  <1>4. ASSUME \/ \E s \in Rank : SubmitArrived(s)
               \/ DetectTermination \/ UNCHANGED vars
        PROVE  seg'[r] = seg[r]
    BY <1>4 DEF SubmitArrived, DetectTermination, vars, taskVars
  <1>5. QED
    BY <1>3, <1>4 DEF Next, Stop

\* A thief copies the segment of its victim in two reads: neither the victim
\* nor another thief writes it in between.
THEOREM SegmentIsStable == Spec => SegmentStable
  <1>1. ControlInv /\ [Next]_vars
          => [\A r, t \in Rank : Copying(t, r) => seg'[r] = seg[r]]_vars
    BY StableStep
  <1>2. QED
    BY <1>1, ControlCorrect, PTL DEF Spec, SegmentStable

-----------------------------------------------------------------------------
(* The numbers in the metadata of dequeues, task segments and tmp segments are those of the  *)
(* tasks in the data. *)

\* What a step of rank r leaves alone of another rank s: its private data and its segment.
\* Of its lock word it makes r or FREE_FOR_COPY, and it locks only what is TASK_AVAILABLE.
LEMMA Frame ==
  ASSUME ControlInv, NEW r \in Rank, Program(r), NEW s \in Rank, s # r
  PROVE  /\ pc'[s] = pc[s] /\ target'[s] = target[s]
         /\ dq'[s] = dq[s] /\ tmp'[s] = tmp[s] /\ seg'[s] = seg[s]
         /\ state'[s] \in {state[s], r, FREE_FOR_COPY}
         /\ pc'[r] = "read_metadata" /\ target'[r] = s => state[s] = TASK_AVAILABLE
  <1>t. TypeOK
    BY DEF ControlInv
  <1> USE DEF TypeOK, Goto, taskVars, CompareAndSwap
  <1>1. CASE \/ \E n \in TaskCounts[r] : SetProblem(r, n)
             \/ ParallelWork(r) \/ Finish(r)
    BY <1>t, <1>1 DEF SetProblem, ParallelWork, Finish
  <1>2. CASE \/ WorkBegin(r) \/ InitTmp(r) \/ ReturnFullTmp(r) \/ DoNextTask(r)
             \/ LockOwnSegment(r) \/ LeaveLoop(r) \/ ActiveWait(r)
    BY <1>t, <1>2 DEF WorkBegin, InitTmp, ReturnFullTmp, DoNextTask,
                      LockOwnSegment, LeaveLoop, ActiveWait
  <1>3. CASE SwitchOnState(r)
    BY <1>t, <1>3 DEF SwitchOnState
  <1>4. CASE \/ MoveSegmentToDequeue(r, "begin_move", "begin_publish")
             \/ MoveSegmentToDequeue(r, "self_move", "self_publish")
             \/ MoveDequeueToSegment(r)
    BY <1>t, <1>4 DEF MoveSegmentToDequeue, MoveDequeueToSegment
  <1>5. CASE \/ PublishAfterSelfTheft(r, "begin_publish", "init")
             \/ PublishAfterSelfTheft(r, "self_publish", "loop")
             \/ PublishAfterRefill(r)
    BY <1>t, <1>5 DEF PublishAfterSelfTheft, PublishAfterRefill
  <1>6. CASE LoadBalancing(r) \/ \E v \in Rank : TryLock(r, v)
    <2>1. CASE LoadBalancing(r)
      BY <1>t, <2>1 DEF LoadBalancing
    <2>2. ASSUME NEW v \in Rank, TryLock(r, v)
          PROVE  /\ pc'[s] = pc[s] /\ target'[s] = target[s]
                 /\ dq'[s] = dq[s] /\ tmp'[s] = tmp[s] /\ seg'[s] = seg[s]
                 /\ state'[s] \in {state[s], r, FREE_FOR_COPY}
                 /\ pc'[r] = "read_metadata" /\ target'[r] = s => state[s] = TASK_AVAILABLE
      BY <1>t, <2>2 DEF TryLock
    <2>3. QED
      BY <1>6, <2>1, <2>2
  <1>7. CASE ReadMetadata(r) \/ ReadTasks(r) \/ UnlockVictim(r) \/ ReleaseOwn(r)
    BY <1>t, <1>7 DEF ReadMetadata, ReadTasks, UnlockVictim, ReleaseOwn
  <1>8. QED
    BY <1>1, <1>2, <1>3, <1>4, <1>5, <1>6, <1>7 DEF Program, Work, Steal

-----------------------------------------------------------------------------
(* The ranks that do not step *)

\* No step of another rank makes the segment of s live, or one that lies below the dequeue.
LEMMA OthersLive ==
  ASSUME ControlInv, NEW r \in Rank, Program(r), NEW s \in Rank, s # r
  PROVE  /\ SegmentLive(s)' => SegmentLive(s)
         /\ Below(s)' => Below(s)
  <1>1. /\ pc'[s] = pc[s]
        /\ state'[s] \in {TASK_AVAILABLE, s} => state'[s] = state[s]
    <2>1. pc'[s] = pc[s] /\ state'[s] \in {state[s], r, FREE_FOR_COPY}
      BY Frame
    <2>2. QED
      BY <2>1, WordFacts
  <1>2. ASSUME NEW t \in Rank, Reading(t, s)'
        PROVE  Reading(t, s) \/ state[s] = TASK_AVAILABLE
    <2>1. CASE t = r
      <3>1. pc'[r] = "read_metadata" /\ target'[r] = s
        BY <1>2, <2>1 DEF Reading
      <3>2. QED
        BY <3>1, Frame
    <2>2. CASE t # r
      <3>1. pc'[t] = pc[t] /\ target'[t] = target[t]
        BY <2>2, Frame
      <3>2. QED
        BY <1>2, <3>1 DEF Reading
    <2>3. QED
      BY <2>1, <2>2
  <1>3. QED
    BY <1>1, <1>2 DEF SegmentLive, Below, Open

\* A thief's victim is another rank, at work or waiting for it, whose segment has the tasks.
LEMMA Victim ==
  ASSUME ControlInv, NEW t \in Rank, Holds(t)
  PROVE  /\ target[t] \in Rank /\ target[t] # t
         /\ Open(target[t]) \/ pc[target[t]] = "wait"
  <1>1. target[t] \in Rank /\ target[t] # t /\ state[target[t]] = t
    BY DEF ControlInv, TypeOK, LockInv
  <1>2. QED
    BY <1>1 DEF ControlInv, LockInv

LEMMA OthersAligned ==
  ASSUME ControlInv, [Next]_vars, NEW r \in Rank, Program(r),
         NEW s \in Rank, s # r, Aligned(s)
  PROVE  Aligned(s)'
  <1>1. /\ pc'[s] = pc[s] /\ target'[s] = target[s]
        /\ dq'[s] = dq[s] /\ tmp'[s] = tmp[s] /\ seg'[s] = seg[s]
        /\ SegmentLive(s)' => SegmentLive(s)
        /\ Below(s)' => Below(s)
    BY Frame, OthersLive
  <1>2. DequeueAligned(s)' /\ BatchAligned(s)'
    BY <1>1 DEF Aligned, DequeueAligned, BatchAligned, Batching
  <1>3. BelowAligned(s)' /\ SegmentAligned(s)'
    BY <1>1 DEF Aligned, BelowAligned, SegmentAligned, NbDequeue
  <1>4. CopyAligned(s)'
    <2>1. ASSUME pc[s] = "read_tasks"
          PROVE  seg'[target[s]] = seg[target[s]]
      <3>1. target[s] \in Rank /\ Copying(s, target[s])
        BY <2>1, Victim DEF Holds, Copying
      <3>2. QED
        BY <3>1, StableStep
    <2>2. QED
      BY <1>1, <2>1 DEF Aligned, CopyAligned
  <1>5. QED
    BY <1>2, <1>3, <1>4 DEF Aligned

-----------------------------------------------------------------------------
(* The rank that steps *)

\* Nobody begins to read the segment of r when r itself steps.
LEMMA OwnReaders ==
  ASSUME ControlInv, ControlInv', NEW r \in Rank, Program(r), NEW t \in Rank, Reading(t, r)'
  PROVE  Reading(t, r)
  <1>1. t # r
    BY DEF ControlInv, LockInv, Holds, Reading
  <1>2. QED
    BY <1>1, Frame DEF Reading

\* The segment of r is live after a step of r only if it was, if r has published or locked it,
\* or if r is at a step that says so.
LEMMA OwnLive ==
  ASSUME ControlInv, ControlInv', NEW r \in Rank, Program(r), SegmentLive(r)',
         state'[r] \notin {TASK_AVAILABLE, r},
         pc'[r] \notin {"begin", "begin_move", "begin_publish", "refill_publish"}
  PROVE  SegmentLive(r)
  <1>1. \E t \in Rank : Reading(t, r)'
    BY DEF SegmentLive
  <1>2. QED
    BY <1>1, OwnReaders DEF SegmentLive

\* Set_problem, the beginning and the end of a session.
LEMMA SessionAligned ==
  ASSUME ControlInv, ControlInv', NEW r \in Rank, Aligned(r),
         \/ \E n \in TaskCounts[r] : SetProblem(r, n)
         \/ ParallelWork(r) \/ Finish(r)
  PROVE  Aligned(r)'
  <1>t. TypeOK
    BY DEF ControlInv
  <1> USE DEF TypeOK, Goto, taskVars, Aligned, DequeueAligned, BatchAligned, BelowAligned,
              SegmentAligned, CopyAligned, Batching
  <1>1. ASSUME NEW n \in TaskCounts[r], SetProblem(r, n)
        PROVE  Aligned(r)'
    <2>1. n \in Nat /\ seg[r].nb = 0
      BY <1>1, CountsAssumption DEF SetProblem, ControlInv, LocalInv
    <2>2. /\ pc'[r] = "barrier" /\ seg' = seg
          /\ dq'[r] = [owner |-> r, head |-> 0, tail |-> n, end |-> n, base |-> 0]
      BY <1>t, <1>1 DEF SetProblem, Dequeue
    <2>3. QED
      BY <2>1, <2>2
  <1>2. CASE ParallelWork(r)
    <2>1. seg[r].nb = 0
      BY <1>2 DEF ParallelWork, ControlInv, LocalInv
    <2>2. pc'[r] \in {"begin", "thief"} /\ UNCHANGED <<seg, dq, tmp>>
      BY <1>t, <1>2 DEF ParallelWork
    <2>3. QED
      BY <2>1, <2>2
  <1>3. CASE Finish(r)
    <2>1. pc'[r] = "idle" /\ seg'[r].nb = 0 /\ dq' = dq
      BY <1>t, <1>3 DEF Finish, ResetSegment, Segment
    <2>2. QED
      BY <2>1
  <1>4. QED
    BY <1>1, <1>2, <1>3

\* The steps of the work loop that leave the lock word alone.
LEMMA PrivateAligned ==
  ASSUME ControlInv, ControlInv', NEW r \in Rank, Aligned(r), Program(r),
         InitTmp(r) \/ ReturnFullTmp(r) \/ DoNextTask(r) \/ LeaveLoop(r)
  PROVE  Aligned(r)'
  <1>t. TypeOK
    BY DEF ControlInv
  <1> USE DEF TypeOK, Goto, taskVars
  <1>1. pc[r] \in {"init", "loop"} /\ UNCHANGED <<seg, state>>
    BY DEF InitTmp, ReturnFullTmp, DoNextTask, LeaveLoop
  <1>2. pc'[r] \in {"loop", "lock", "switch", "wait"}
    BY <1>t DEF InitTmp, ReturnFullTmp, DoNextTask, LeaveLoop
  <1>3. SegmentLive(r)' => SegmentLive(r)
    <2>1. CASE state[r] \in {TASK_AVAILABLE, r}
      BY <2>1 DEF SegmentLive
    <2>2. CASE state[r] \notin {TASK_AVAILABLE, r}
      BY <1>1, <1>2, <2>2, OwnLive
    <2>3. QED
      BY <2>1, <2>2
  <1>4. SegmentAligned(r)' /\ CopyAligned(r)'
    BY <1>1, <1>2, <1>3 DEF Aligned, SegmentAligned, CopyAligned
  <1>5. /\ dq'[r].owner = dq[r].owner
        /\ dq'[r].base + dq'[r].tail = dq'[r].end
        /\ dq'[r].end - (dq'[r].tail - dq'[r].head) = dq[r].end - (dq[r].tail - dq[r].head)
    <2>1. dq[r].base + dq[r].tail = dq[r].end
      BY DEF Aligned, DequeueAligned
    <2>2. CASE DoNextTask(r)
      <3>1. /\ dq'[r].owner = dq[r].owner /\ dq'[r].head = dq[r].head /\ dq'[r].base = dq[r].base
            /\ dq'[r].tail = dq[r].tail - 1 /\ dq'[r].end = dq[r].end - 1
        BY <1>t, <2>2 DEF DoNextTask, Dequeue
      <3>2. /\ dq[r].head \in Int /\ dq[r].tail \in Int /\ dq[r].end \in Int /\ dq[r].base \in Int
        BY <1>t
      <3>3. QED
        BY <2>1, <3>1, <3>2
    <2>3. CASE InitTmp(r) \/ ReturnFullTmp(r) \/ LeaveLoop(r)
      BY <2>1, <2>3 DEF InitTmp, ReturnFullTmp, LeaveLoop
    <2>4. QED
      BY <2>2, <2>3
  <1>6. DequeueAligned(r)' /\ BelowAligned(r)'
    BY <1>1, <1>2, <1>5 DEF Aligned, DequeueAligned, BelowAligned, Below, Open, NbDequeue
  <1>7. BatchAligned(r)'
    <2>1. CASE InitTmp(r) \/ ReturnFullTmp(r)
      BY <1>t, <2>1 DEF InitTmp, ReturnFullTmp, FreshTmp, TmpResults, BatchAligned
    <2>2. CASE DoNextTask(r)
      <3>1. /\ tmp'[r].owner = tmp[r].owner /\ tmp'[r].last = tmp[r].last
            /\ tmp'[r].nb = tmp[r].nb + 1
            /\ dq'[r].owner = dq[r].owner /\ dq'[r].end = dq[r].end - 1
        BY <1>t, <2>2 DEF DoNextTask, TmpResults, Dequeue
      <3>2. tmp[r].owner = dq[r].owner /\ tmp[r].last - tmp[r].nb = dq[r].end
        BY <2>2 DEF DoNextTask, Aligned, BatchAligned, Batching
      <3>3. QED
        BY <1>t, <3>1, <3>2, CapacityAssumption DEF BatchAligned
    <2>3. CASE LeaveLoop(r)
      BY <1>t, <2>3 DEF LeaveLoop, BatchAligned, Batching
    <2>4. QED
      BY <2>1, <2>2, <2>3
  <1>8. QED
    BY <1>4, <1>6, <1>7 DEF Aligned

\* A step that moves no data keeps what is aligned, when it brings the rank to no step at which
\* more must be aligned.
LEMMA DataUnchanged ==
  ASSUME NEW r \in Rank, Aligned(r), UNCHANGED <<seg, dq, tmp>>,
         pc[r] # "read_tasks", pc'[r] # "read_tasks",
         Batching(r)' => Batching(r),
         Below(r)' => Below(r) \/ seg[r].nb = 0,
         SegmentLive(r)' => SegmentLive(r) \/ seg[r].nb = 0, seg[r].nb \in Nat
  PROVE  Aligned(r)'
  <1>1. DequeueAligned(r)' /\ BatchAligned(r)'
    BY DEF Aligned, DequeueAligned, BatchAligned
  <1>2. BelowAligned(r)' /\ SegmentAligned(r)' /\ CopyAligned(r)'
    BY DEF Aligned, BelowAligned, SegmentAligned, CopyAligned, NbDequeue
  <1>3. QED
    BY <1>1, <1>2 DEF Aligned

\* The steps that change the lock word or only look at it.
LEMMA WordAligned ==
  ASSUME ControlInv, ControlInv', NEW r \in Rank, Aligned(r), Program(r),
         \/ WorkBegin(r) \/ LockOwnSegment(r) \/ SwitchOnState(r) \/ ActiveWait(r)
         \/ PublishAfterSelfTheft(r, "begin_publish", "init")
         \/ PublishAfterSelfTheft(r, "self_publish", "loop")
         \/ PublishAfterRefill(r)
         \/ LoadBalancing(r) \/ (\E v \in Rank : TryLock(r, v))
         \/ UnlockVictim(r) \/ ReleaseOwn(r)
  PROVE  Aligned(r)'
  <1>t. TypeOK
    BY DEF ControlInv
  <1>n. seg[r].nb \in Nat
    BY <1>t, CapacityAssumption DEF TypeOK
  <1> USE WordFacts DEF TypeOK, Goto, taskVars, CompareAndSwap, Batching, Below, Open
  <1>1. CASE \/ WorkBegin(r) \/ PublishAfterSelfTheft(r, "begin_publish", "init")
             \/ PublishAfterSelfTheft(r, "self_publish", "loop") \/ PublishAfterRefill(r)
             \/ UnlockVictim(r) \/ ReleaseOwn(r)
    <2>1. SegmentLive(r)
      BY <1>t, <1>1 DEF WorkBegin, PublishAfterSelfTheft, PublishAfterRefill, UnlockVictim,
                        ReleaseOwn, SegmentLive, ControlInv, LockInv, Own
    <2>2. CASE WorkBegin(r)
      <3>1. pc[r] = "begin" /\ UNCHANGED <<seg, dq, tmp>>
            /\ pc'[r] = IF seg[r].nb > 0 THEN "begin_move" ELSE "init"
        BY <1>t, <2>2 DEF WorkBegin
      <3>2. QED
        BY <1>n, <2>1, <3>1, DataUnchanged
    <2>3. CASE \/ PublishAfterSelfTheft(r, "begin_publish", "init")
               \/ PublishAfterSelfTheft(r, "self_publish", "loop") \/ PublishAfterRefill(r)
      <3>1. /\ UNCHANGED <<seg, dq, tmp>>
            /\ \/ pc[r] = "begin_publish" /\ pc'[r] = "init"
               \/ pc[r] \in {"self_publish", "refill_publish"} /\ pc'[r] = "loop"
        BY <1>t, <2>3 DEF PublishAfterSelfTheft, PublishAfterRefill
      <3>2. QED
        BY <1>n, <2>1, <3>1, DataUnchanged
    <2>4. CASE UnlockVictim(r) \/ ReleaseOwn(r)
      <3>1. /\ UNCHANGED <<seg, dq, tmp>>
            /\ pc[r] \in {"unlock", "release"} /\ pc'[r] \in {"release", "begin"}
        BY <1>t, <2>4 DEF UnlockVictim, ReleaseOwn
      <3>2. QED
        BY <1>n, <2>1, <3>1, DataUnchanged
    <2>5. QED
      BY <1>1, <2>2, <2>3, <2>4
  <1>2. CASE \/ LockOwnSegment(r) \/ SwitchOnState(r) \/ ActiveWait(r)
             \/ LoadBalancing(r) \/ (\E v \in Rank : TryLock(r, v))
    <2>1. /\ UNCHANGED <<seg, dq, tmp>>
          /\ state'[r] \in {TASK_AVAILABLE, r} => state[r] \in {TASK_AVAILABLE, r}
          /\ \/ pc[r] = "lock" /\ pc'[r] = "switch"
             \/ pc[r] = "switch" /\ pc'[r] \in {"loop", "refill"}
             \/ pc[r] = "switch" /\ pc'[r] = "self_move" /\ state[r] = r
             \/ /\ pc[r] \in {"wait", "thief", "select"}
                /\ pc'[r] \in {"thief", "select", "read_metadata"}
      <3>1. CASE LockOwnSegment(r) \/ ActiveWait(r)
        BY <1>t, <3>1 DEF LockOwnSegment, ActiveWait
      <3>2. CASE SwitchOnState(r)
        BY <1>t, <3>2 DEF SwitchOnState
      <3>3. CASE LoadBalancing(r)
        BY <1>t, <3>3 DEF LoadBalancing
      <3>4. ASSUME NEW v \in Rank, TryLock(r, v)
            PROVE  /\ UNCHANGED <<seg, dq, tmp>> /\ state'[r] = state[r]
                   /\ pc[r] = "select" /\ pc'[r] \in {"thief", "read_metadata"}
        BY <1>t, <3>4 DEF TryLock
      <3>5. QED
        BY <1>2, <3>1, <3>2, <3>3, <3>4
    <2>2. SegmentLive(r)' => SegmentLive(r)
      <3>1. CASE state[r] \in {TASK_AVAILABLE, r}
        BY <3>1 DEF SegmentLive
      <3>2. CASE state[r] \notin {TASK_AVAILABLE, r}
        BY <2>1, <3>2, OwnLive
      <3>3. QED
        BY <3>1, <3>2
    <2>3. QED
      BY <1>n, <2>1, <2>2, DataUnchanged
  <1>3. QED
    BY <1>1, <1>2

\* Self-theft takes the last tasks of the segment, refill gives it the first of the dequeue.
LEMMA MoveAligned ==
  ASSUME ControlInv, ControlInv', NEW r \in Rank, Aligned(r),
         \/ MoveSegmentToDequeue(r, "begin_move", "begin_publish")
         \/ MoveSegmentToDequeue(r, "self_move", "self_publish")
         \/ MoveDequeueToSegment(r)
  PROVE  Aligned(r)'
  <1>t. TypeOK
    BY DEF ControlInv
  <1>i. /\ dq[r].head \in Int /\ dq[r].tail \in Int /\ dq[r].end \in Int /\ dq[r].base \in Int
        /\ seg[r].nb \in 0 .. SegmentMax /\ seg[r].end \in Int /\ seg[r].base \in Int
        /\ tmp[r].last \in Int /\ tmp[r].nb \in Int
    BY <1>t, CapacityAssumption DEF TypeOK
  <1>1. CASE \/ MoveSegmentToDequeue(r, "begin_move", "begin_publish")
             \/ MoveSegmentToDequeue(r, "self_move", "self_publish")
    <2> DEFINE m == seg[r]
               taken == SelfTheft(m.nb)
               left == m.nb - taken
    <2>1. taken \in Nat /\ left \in 0 .. SegmentMax
      BY <1>i, SelfTheftBounds
    <2>2. /\ dq'[r] = [owner |-> m.owner, head |-> 0, tail |-> taken, end |-> m.end,
                       base |-> m.base + left]
          /\ seg'[r] = [owner |-> m.owner, nb |-> left,
                        end |-> IF left = 0 THEN 0 ELSE m.end - taken, base |-> m.base]
          /\ tmp' = tmp
      BY <1>t, <1>1 DEF MoveSegmentToDequeue, Segment, Dequeue, TypeOK
    <2>3. /\ pc[r] \in {"begin_move", "self_move"} /\ pc'[r] \in {"begin_publish", "self_publish"}
          /\ pc'[r] = "self_publish" => pc[r] = "self_move"
      BY <1>t, <1>1 DEF MoveSegmentToDequeue, Goto, TypeOK
    <2>4. m.nb > 0 /\ m.base + m.nb = m.end
      <3>1. m.nb > 0 /\ SegmentLive(r)
        BY <2>3 DEF ControlInv, LocalInv, LockInv, Own, SegmentLive
      <3>2. QED
        BY <2>3, <3>1 DEF Aligned, SegmentAligned
    <2>5. DequeueAligned(r)' /\ SegmentAligned(r)' /\ CopyAligned(r)'
      BY <1>i, <2>1, <2>2, <2>3, <2>4 DEF DequeueAligned, SegmentAligned, CopyAligned
    <2>6. BelowAligned(r)'
      BY <1>i, <2>1, <2>2 DEF BelowAligned, NbDequeue
    <2>7. BatchAligned(r)'
      <3>1. ASSUME pc[r] = "self_move"
            PROVE  m.owner = dq[r].owner /\ m.end = dq[r].end
        <4>1. m.owner = dq[r].owner /\ m.end = dq[r].end - NbDequeue(r)
          BY <2>4, <3>1 DEF Aligned, BelowAligned, Below
        <4>2. NbDequeue(r) = 0
          BY <3>1 DEF ControlInv, LocalInv, NoWork
        <4>3. QED
          BY <1>i, <4>1, <4>2
      <3>2. QED
        BY <2>2, <2>3, <3>1 DEF Aligned, BatchAligned, Batching
    <2>8. QED
      BY <2>5, <2>6, <2>7 DEF Aligned
  <1>2. CASE MoveDequeueToSegment(r)
    <2> DEFINE d == dq[r]
               nb == NbDequeue(r)
               moved == Refill(nb)
    <2>1. nb = d.tail - d.head /\ nb \in Nat
      BY <1>i DEF NbDequeue, ControlInv, LocalInv
    <2>2. moved \in Nat
      BY <2>1, RefillBounds
    <2>3. /\ dq'[r] = [owner |-> d.owner, head |-> d.head + moved, tail |-> d.tail,
                       end |-> d.end, base |-> d.base]
          /\ seg'[r].nb = moved
          /\ moved # 0 => /\ seg'[r].owner = d.owner /\ seg'[r].end = d.end - (nb - moved)
                          /\ seg'[r].base = d.base + d.head
          /\ tmp' = tmp /\ pc[r] = "refill" /\ pc'[r] = "refill_publish"
      BY <1>t, <1>2 DEF MoveDequeueToSegment, Segment, Dequeue, Goto, TypeOK
    <2>4. DequeueAligned(r)' /\ BatchAligned(r)' /\ CopyAligned(r)'
      BY <2>3 DEF Aligned, DequeueAligned, BatchAligned, CopyAligned, Batching
    <2>5. BelowAligned(r)'
      <3>1. NbDequeue(r)' = d.tail - (d.head + moved)
        BY <2>3 DEF NbDequeue
      <3>2. d.end - (nb - moved) = d.end - (d.tail - (d.head + moved))
        BY <1>i, <2>1, <2>2
      <3>3. QED
        BY <2>2, <2>3, <3>1, <3>2 DEF BelowAligned
    <2>6. SegmentAligned(r)'
      <3>1. d.base + d.tail = d.end
        BY DEF Aligned, DequeueAligned
      <3>2. d.base + d.head + moved = d.end - (nb - moved)
        BY <1>i, <2>1, <2>2, <3>1
      <3>3. QED
        BY <2>2, <2>3, <3>2 DEF SegmentAligned
    <2>7. QED
      BY <2>4, <2>5, <2>6 DEF Aligned
  <1>3. QED
    BY <1>1, <1>2

\* The two reads of a theft. Between them the victim's segment does not change.
LEMMA ReadAligned ==
  ASSUME ControlInv, ControlInv', AlignInv, NEW r \in Rank, Program(r),
         ReadMetadata(r) \/ ReadTasks(r)
  PROVE  Aligned(r)'
  <1>t. TypeOK
    BY DEF ControlInv
  <1> DEFINE v == target[r]
  <1>1. /\ v \in Rank /\ v # r /\ target' = target
        /\ Open(v) \/ pc[v] = "wait"
    BY Victim DEF Holds, ReadMetadata, ReadTasks, Goto
  <1>2. dq'[r] = dq[r] /\ tmp' = tmp /\ pc'[r] \in {"read_tasks", "unlock"} /\ seg'[v] = seg[v]
    BY <1>t, <1>1 DEF ReadMetadata, ReadTasks, Goto, TypeOK
  <1>3. Aligned(r) /\ Aligned(v)
    BY <1>1 DEF AlignInv
  <1>4. DequeueAligned(r)' /\ BatchAligned(r)' /\ BelowAligned(r)'
    BY <1>2, <1>3 DEF Aligned, DequeueAligned, BatchAligned, Batching, BelowAligned, Below, Open
  <1>5. CASE ReadMetadata(r)
    <2>1. /\ pc[r] = "read_metadata" /\ pc'[r] = "read_tasks"
          /\ seg'[r].owner = seg[v].owner /\ seg'[r].nb = seg[v].nb /\ seg'[r].end = seg[v].end
      BY <1>t, <1>5 DEF ReadMetadata, Segment, Goto, TypeOK
    <2>2. seg[v].nb > 0 => seg[v].base + seg[v].nb = seg[v].end
      <3>1. Reading(r, v)
        BY <2>1 DEF Reading
      <3>2. SegmentLive(v) /\ pc[v] # "read_tasks"
        BY <1>1, <3>1 DEF SegmentLive, Open
      <3>3. QED
        BY <1>3, <3>2 DEF Aligned, SegmentAligned
    <2>3. CopyAligned(r)' /\ SegmentAligned(r)'
      BY <1>1, <1>2, <2>1, <2>2 DEF CopyAligned, SegmentAligned
    <2>4. QED
      BY <1>4, <2>3 DEF Aligned
  <1>6. CASE ReadTasks(r)
    <2>1. /\ pc[r] = "read_tasks" /\ pc'[r] = "unlock"
          /\ seg'[r].nb = seg[r].nb /\ seg'[r].end = seg[r].end /\ seg'[r].base = seg[v].base
      BY <1>t, <1>6 DEF ReadTasks, Segment, Goto, TypeOK
    <2>2. CopyAligned(r)' /\ SegmentAligned(r)'
      BY <1>3, <2>1 DEF Aligned, CopyAligned, SegmentAligned
    <2>3. QED
      BY <1>4, <2>2 DEF Aligned
  <1>7. QED
    BY <1>5, <1>6

-----------------------------------------------------------------------------
(* Every step *)

LEMMA AlignInit == Init => AlignInv
  BY DEF Init, AlignInv, Aligned, DequeueAligned, BatchAligned, BelowAligned, SegmentAligned,
         CopyAligned, Batching, Segment, Dequeue

LEMMA AlignNext == ControlInv /\ AlignInv /\ [Next]_vars => AlignInv'
  <1> SUFFICES ASSUME ControlInv, AlignInv, [Next]_vars, NEW s \in Rank
               PROVE  Aligned(s)'
    BY DEF AlignInv
  <1>1. ControlInv'
    BY ControlNext
  <1>2. Aligned(s)
    BY DEF AlignInv
  <1>3. ASSUME NEW r \in Rank, Program(r)
        PROVE  Aligned(s)'
    <2>1. CASE s # r
      BY <1>2, <1>3, <2>1, OthersAligned
    <2>2. CASE s = r
      <3>1. CASE \/ \E n \in TaskCounts[r] : SetProblem(r, n)
                 \/ ParallelWork(r) \/ Finish(r)
        BY <1>1, <1>2, <2>2, <3>1, SessionAligned
      <3>2. CASE InitTmp(r) \/ ReturnFullTmp(r) \/ DoNextTask(r) \/ LeaveLoop(r)
        BY <1>1, <1>2, <1>3, <2>2, <3>2, PrivateAligned
      <3>3. CASE \/ WorkBegin(r) \/ LockOwnSegment(r) \/ SwitchOnState(r) \/ ActiveWait(r)
                 \/ PublishAfterSelfTheft(r, "begin_publish", "init")
                 \/ PublishAfterSelfTheft(r, "self_publish", "loop")
                 \/ PublishAfterRefill(r)
                 \/ LoadBalancing(r) \/ (\E v \in Rank : TryLock(r, v))
                 \/ UnlockVictim(r) \/ ReleaseOwn(r)
        BY <1>1, <1>2, <1>3, <2>2, <3>3, WordAligned
      <3>4. CASE \/ MoveSegmentToDequeue(r, "begin_move", "begin_publish")
                 \/ MoveSegmentToDequeue(r, "self_move", "self_publish")
                 \/ MoveDequeueToSegment(r)
        BY <1>1, <1>2, <2>2, <3>4, MoveAligned
      <3>5. CASE ReadMetadata(r) \/ ReadTasks(r)
        BY <1>1, <1>3, <2>2, <3>5, ReadAligned
      <3>6. QED
        BY <1>3, <3>1, <3>2, <3>3, <3>4, <3>5 DEF Program, Work, Steal
    <2>3. QED
      BY <2>1, <2>2
  <1>4. ASSUME \/ \E r \in Rank : SubmitArrived(r)
               \/ DetectTermination \/ UNCHANGED vars
        PROVE  Aligned(s)'
    <2>1. UNCHANGED <<pc, state, seg, dq, tmp, target>>
      BY <1>4 DEF SubmitArrived, DetectTermination, vars, taskVars
    <2>2. QED
      BY <1>2, <2>1 DEF Aligned, DequeueAligned, BatchAligned, BelowAligned, SegmentAligned,
                        CopyAligned, Batching, Below, Open, NbDequeue, SegmentLive, Reading
  <1>5. QED
    BY <1>3, <1>4 DEF Next, Stop

LEMMA AlignedIds == ControlInv /\ AlignInv => IdsMatchData
  BY DEF AlignInv, Aligned, DequeueAligned, BatchAligned, SegmentAligned, Batching, IdsMatchData

\* Through refills, self-thefts and thefts of stolen batches the numbers a rank works with are
\* those of the tasks in the data: the result of the task it does next goes to the next slot of
\* the tmp segment, for the owner of the task, and a thief gets the tasks the metadata names.
THEOREM NumbersMatchTasks == Spec => []IdsMatchData
  <1>1. Init => ControlInv /\ AlignInv
    BY ControlInit, AlignInit
  <1>2. ControlInv /\ AlignInv /\ [Next]_vars => (ControlInv /\ AlignInv)'
    BY ControlNext, AlignNext
  <1>3. QED
    BY <1>1, <1>2, AlignedIds, PTL DEF Spec

-----------------------------------------------------------------------------
(* One place is left for another *)

\* what a step may do to the places of a task
Moves(P, Q, p, q)  == p \in P /\ Q = (P \ {p}) \cup {q}
StaysOrMoves(P, Q) == Q = P \/ \E p, q : Moves(P, Q, p, q)

LEMMA MovedOnce ==
  ASSUME NEW P, NEW Q, StaysOrMoves(P, Q)
  PROVE  /\ (\E p \in P : P = {p}) => \E q \in Q : Q = {q}
         /\ P = {} => Q = {}
  BY DEF StaysOrMoves, Moves

LEMMA OnePlaceKept ==
  ASSUME NEW o \in Rank, NEW i \in Int, OnePlace(o, i), nbTask'[o] = nbTask[o],
         StaysOrMoves(Places(o, i), Places(o, i)')
  PROVE  OnePlace(o, i)'
  <1>1. /\ (\E p \in Places(o, i) : Places(o, i) = {p})
             => \E q \in Places(o, i)' : Places(o, i)' = {q}
        /\ Places(o, i) = {} => Places(o, i)' = {}
    BY MovedOnce
  <1>2. QED
    BY <1>1 DEF OnePlace

\* The moves of a task: between a segment and a dequeue, to a tmp segment, to a batch or the
\* user's array, and from the segment of a victim to that of a thief.
LEMMA PlaceMoves ==
  ASSUME NEW D, NEW S, NEW T, NEW B, NEW U, NEW x, NEW y
  PROVE  LET P == AllPlaces(D, S, T, B, U) IN
         /\ x \in S => Moves(P, AllPlaces(D \cup {x}, S \ {x}, T, B, U), <<"segment", x>>, <<"dequeue", x>>)
         /\ x \in D => Moves(P, AllPlaces(D \ {x}, S \cup {x}, T, B, U), <<"dequeue", x>>, <<"segment", x>>)
         /\ x \in D => Moves(P, AllPlaces(D \ {x}, S, T \cup {x}, B, U), <<"dequeue", x>>, <<"tmp", x>>)
         /\ x \in T => Moves(P, AllPlaces(D, S, T \ {x}, B \cup {y}, U), <<"tmp", x>>, <<"batch", y>>)
         /\ x \in T => Moves(P, AllPlaces(D, S, T \ {x}, B, U \cup {y}), <<"tmp", x>>, <<"user", y>>)
         /\ x \in B => Moves(P, AllPlaces(D, S, T, B \ {x}, U \cup {y}), <<"batch", x>>, <<"user", y>>)
         /\ x \in S => Moves(P, AllPlaces(D, (S \ {x}) \cup {y}, T, B, U), <<"segment", x>>, <<"segment", y>>)
  <1> DEFINE P == AllPlaces(D, S, T, B, U)
  <1>1. ASSUME x \in S
        PROVE  Moves(P, AllPlaces(D \cup {x}, S \ {x}, T, B, U), <<"segment", x>>, <<"dequeue", x>>)
    <2>1. <<"segment", x>> \in P
      BY <1>1 DEF AllPlaces
    <2>2. AllPlaces(D \cup {x}, S \ {x}, T, B, U)
            = (P \ {<<"segment", x>>}) \cup {<<"dequeue", x>>}
      BY <1>1 DEF AllPlaces
    <2>3. QED
      BY <2>1, <2>2 DEF Moves
  <1>2. ASSUME x \in D
        PROVE  Moves(P, AllPlaces(D \ {x}, S \cup {x}, T, B, U), <<"dequeue", x>>, <<"segment", x>>)
    <2>1. <<"dequeue", x>> \in P
      BY <1>2 DEF AllPlaces
    <2>2. AllPlaces(D \ {x}, S \cup {x}, T, B, U)
            = (P \ {<<"dequeue", x>>}) \cup {<<"segment", x>>}
      BY <1>2 DEF AllPlaces
    <2>3. QED
      BY <2>1, <2>2 DEF Moves
  <1>3. ASSUME x \in D
        PROVE  Moves(P, AllPlaces(D \ {x}, S, T \cup {x}, B, U), <<"dequeue", x>>, <<"tmp", x>>)
    <2>1. <<"dequeue", x>> \in P
      BY <1>3 DEF AllPlaces
    <2>2. AllPlaces(D \ {x}, S, T \cup {x}, B, U)
            = (P \ {<<"dequeue", x>>}) \cup {<<"tmp", x>>}
      BY <1>3 DEF AllPlaces
    <2>3. QED
      BY <2>1, <2>2 DEF Moves
  <1>4. ASSUME x \in T
        PROVE  Moves(P, AllPlaces(D, S, T \ {x}, B \cup {y}, U), <<"tmp", x>>, <<"batch", y>>)
    <2>1. <<"tmp", x>> \in P
      BY <1>4 DEF AllPlaces
    <2>2. AllPlaces(D, S, T \ {x}, B \cup {y}, U)
            = (P \ {<<"tmp", x>>}) \cup {<<"batch", y>>}
      BY <1>4 DEF AllPlaces
    <2>3. QED
      BY <2>1, <2>2 DEF Moves
  <1>5. ASSUME x \in T
        PROVE  Moves(P, AllPlaces(D, S, T \ {x}, B, U \cup {y}), <<"tmp", x>>, <<"user", y>>)
    <2>1. <<"tmp", x>> \in P
      BY <1>5 DEF AllPlaces
    <2>2. AllPlaces(D, S, T \ {x}, B, U \cup {y})
            = (P \ {<<"tmp", x>>}) \cup {<<"user", y>>}
      BY <1>5 DEF AllPlaces
    <2>3. QED
      BY <2>1, <2>2 DEF Moves
  <1>6. ASSUME x \in B
        PROVE  Moves(P, AllPlaces(D, S, T, B \ {x}, U \cup {y}), <<"batch", x>>, <<"user", y>>)
    <2>1. <<"batch", x>> \in P
      BY <1>6 DEF AllPlaces
    <2>2. AllPlaces(D, S, T, B \ {x}, U \cup {y})
            = (P \ {<<"batch", x>>}) \cup {<<"user", y>>}
      BY <1>6 DEF AllPlaces
    <2>3. QED
      BY <2>1, <2>2 DEF Moves
  <1>7. ASSUME x \in S
        PROVE  Moves(P, AllPlaces(D, (S \ {x}) \cup {y}, T, B, U), <<"segment", x>>, <<"segment", y>>)
    <2>1. <<"segment", x>> \in P
      BY <1>7 DEF AllPlaces
    <2>2. AllPlaces(D, (S \ {x}) \cup {y}, T, B, U)
            = (P \ {<<"segment", x>>}) \cup {<<"segment", y>>}
      BY <1>7 DEF AllPlaces
    <2>3. QED
      BY <2>1, <2>2 DEF Moves
  <1>8. QED
    BY <1>1, <1>2, <1>3, <1>4, <1>5, <1>6, <1>7

\* A task that is nowhere, or only with the user, is in no other place.
LEMMA PlaceMembers ==
  ASSUME NEW D, NEW S, NEW T, NEW B, NEW U, NEW u,
         \A p \in AllPlaces(D, S, T, B, U) : p = <<"user", u>>
  PROVE  D = {} /\ S = {} /\ T = {} /\ B = {}
  <1> DEFINE P == AllPlaces(D, S, T, B, U)
  <1>1. \A x : /\ x \in D => <<"dequeue", x>> \in P
               /\ x \in S => <<"segment", x>> \in P
               /\ x \in T => <<"tmp", x>> \in P
               /\ x \in B => <<"batch", x>> \in P
    BY DEF AllPlaces
  <1>2. \A x : x \notin D /\ x \notin S /\ x \notin T /\ x \notin B
    <2> SUFFICES ASSUME NEW x, x \in D \/ x \in S \/ x \in T \/ x \in B
                 PROVE  FALSE
      OBVIOUS
    <2>1. PICK k \in {"dequeue", "segment", "tmp", "batch"} : <<k, x>> \in P
      BY <1>1
    <2>2. <<k, x>> = <<"user", u>>
      BY <2>1
    <2>3. QED
      BY <2>2
  <1>3. QED
    BY <1>2

-----------------------------------------------------------------------------
(* What a step of rank r does to the places *)

\* Of the lock word of another rank only two things happen: r locks it or r gives it back.
LEMMA WordFrame ==
  ASSUME ControlInv, NEW r \in Rank, Program(r), NEW s \in Rank, s # r, state'[s] # state[s]
  PROVE  \/ /\ state[s] = TASK_AVAILABLE
            /\ pc'[r] = "read_metadata" /\ target'[r] = s
         \/ state[s] = r
  <1>t. TypeOK
    BY DEF ControlInv
  <1> USE DEF TypeOK, Goto, taskVars, CompareAndSwap
  <1>1. CASE \/ \E n \in TaskCounts[r] : SetProblem(r, n)
             \/ ParallelWork(r) \/ Finish(r)
    BY <1>t, <1>1 DEF SetProblem, ParallelWork, Finish
  <1>2. CASE \/ WorkBegin(r) \/ InitTmp(r) \/ ReturnFullTmp(r) \/ DoNextTask(r)
             \/ LockOwnSegment(r) \/ LeaveLoop(r) \/ ActiveWait(r)
    BY <1>t, <1>2 DEF WorkBegin, InitTmp, ReturnFullTmp, DoNextTask,
                      LockOwnSegment, LeaveLoop, ActiveWait
  <1>3. CASE SwitchOnState(r) \/ LoadBalancing(r)
    BY <1>t, <1>3 DEF SwitchOnState, LoadBalancing
  <1>4. CASE \/ MoveSegmentToDequeue(r, "begin_move", "begin_publish")
             \/ MoveSegmentToDequeue(r, "self_move", "self_publish")
             \/ MoveDequeueToSegment(r)
    BY <1>t, <1>4 DEF MoveSegmentToDequeue, MoveDequeueToSegment
  <1>5. CASE \/ PublishAfterSelfTheft(r, "begin_publish", "init")
             \/ PublishAfterSelfTheft(r, "self_publish", "loop")
             \/ PublishAfterRefill(r)
    BY <1>t, <1>5 DEF PublishAfterSelfTheft, PublishAfterRefill
  <1>6. ASSUME NEW v \in Rank, TryLock(r, v)
        PROVE  /\ state[s] = TASK_AVAILABLE
               /\ pc'[r] = "read_metadata" /\ target'[r] = s
    BY <1>t, <1>6 DEF TryLock
  <1>7. CASE ReadMetadata(r) \/ ReadTasks(r) \/ UnlockVictim(r) \/ ReleaseOwn(r)
    BY <1>t, <1>7 DEF ReadMetadata, ReadTasks, UnlockVictim, ReleaseOwn
  <1>8. QED
    BY <1>1, <1>2, <1>3, <1>4, <1>5, <1>6, <1>7 DEF Program, Work, Steal

\* The segment of another rank stays live but when r has read its metadata.
LEMMA OthersStayLive ==
  ASSUME ControlInv, ControlInv', NEW r \in Rank, Program(r), NEW s \in Rank, s # r,
         ~ Reading(r, s)
  PROVE  SegmentLive(s)' <=> SegmentLive(s)
  <1>1. pc'[s] = pc[s]
    BY Frame
  <1>2. ASSUME NEW t \in Rank, Reading(t, s)
        PROVE  Reading(t, s)'
    <2>1. t # r
      BY <1>2
    <2>2. QED
      BY <1>2, <2>1, Frame DEF Reading
  <1>3. ASSUME state[s] \in {TASK_AVAILABLE, s}
        PROVE  SegmentLive(s)'
    <2>1. CASE state'[s] = state[s]
      BY <1>3, <2>1 DEF SegmentLive
    <2>2. CASE state'[s] # state[s]
      <3>1. pc'[r] = "read_metadata" /\ target'[r] = s
        BY <1>3, <2>2, WordFrame, WordFacts
      <3>2. QED
        BY <3>1 DEF SegmentLive, Reading
    <2>3. QED
      BY <2>1, <2>2
  <1>4. SegmentLive(s) => SegmentLive(s)'
    BY <1>1, <1>2, <1>3 DEF SegmentLive
  <1>5. QED
    BY <1>4, OthersLive

\* A step of r that leaves its own lock word as free or as live as it was, and its step outside
\* those at which r has written its segment, leaves its segment as live as it was.
LEMMA OwnSameLive ==
  ASSUME ControlInv, ControlInv', NEW r \in Rank, Program(r),
         state[r] \in {TASK_AVAILABLE, r} <=> state'[r] \in {TASK_AVAILABLE, r},
         pc[r] \notin {"begin", "begin_move", "begin_publish", "refill_publish"},
         pc'[r] \notin {"begin", "begin_move", "begin_publish", "refill_publish"}
  PROVE  SegmentLive(r)' <=> SegmentLive(r)
  <1>1. ASSUME NEW t \in Rank, Reading(t, r)
        PROVE  Reading(t, r)'
    <2>1. t # r
      BY <1>1 DEF ControlInv, LockInv, Holds, Reading
    <2>2. QED
      BY <1>1, <2>1, Frame DEF Reading
  <1>2. QED
    BY <1>1, OwnReaders DEF SegmentLive

\* Only the places at r change, so the ranks that hold a task are those that did, but for r.
LEMMA PlacesAtOthers ==
  ASSUME ControlInv, ControlInv', NEW r \in Rank, Program(r), NEW o \in Rank, NEW i \in Int,
         \A s \in Rank : ~ Reading(r, s)
  PROVE  /\ DequeuesWith(o, i)' = IF InDequeue(r, o, i)' THEN DequeuesWith(o, i) \cup {r}
                                                         ELSE DequeuesWith(o, i) \ {r}
         /\ SegmentsWith(o, i)' = IF InSegment(r, o, i)' THEN SegmentsWith(o, i) \cup {r}
                                                         ELSE SegmentsWith(o, i) \ {r}
         /\ TmpsWith(o, i)' = IF InTmp(r, o, i)' THEN TmpsWith(o, i) \cup {r}
                                                 ELSE TmpsWith(o, i) \ {r}
  <1>1. ASSUME NEW s \in Rank, s # r
        PROVE  /\ InDequeue(s, o, i)' <=> InDequeue(s, o, i)
               /\ InSegment(s, o, i)' <=> InSegment(s, o, i)
               /\ InTmp(s, o, i)' <=> InTmp(s, o, i)
    <2>1. dq'[s] = dq[s] /\ tmp'[s] = tmp[s] /\ seg'[s] = seg[s]
      BY <1>1, Frame
    <2>2. SegmentLive(s)' <=> SegmentLive(s)
      BY <1>1, OthersStayLive
    <2>3. QED
      BY <2>1, <2>2 DEF InDequeue, InSegment, InTmp, NbDequeue
  <1>2. QED
    BY <1>1 DEF DequeuesWith, SegmentsWith, TmpsWith

LEMMA SamePlaces ==
  ASSUME ControlInv, ControlInv', NEW r \in Rank, Program(r), NEW o \in Rank, NEW i \in Int,
         \A s \in Rank : ~ Reading(r, s), UNCHANGED <<inTransit, results>>,
         InDequeue(r, o, i)' <=> InDequeue(r, o, i),
         InSegment(r, o, i)' <=> InSegment(r, o, i),
         InTmp(r, o, i)' <=> InTmp(r, o, i)
  PROVE  Places(o, i)' = Places(o, i)
  <1>1. /\ DequeuesWith(o, i)' = DequeuesWith(o, i)
        /\ SegmentsWith(o, i)' = SegmentsWith(o, i)
        /\ TmpsWith(o, i)' = TmpsWith(o, i)
    BY PlacesAtOthers DEF DequeuesWith, SegmentsWith, TmpsWith
  <1>2. /\ BatchesWith(o, i)' = BatchesWith(o, i)
        /\ UsersWith(o, i)' = UsersWith(o, i)
    BY DEF BatchesWith, UsersWith, InBatch
  <1>3. QED
    BY <1>1, <1>2 DEF Places, AllPlaces

-----------------------------------------------------------------------------
(* The steps that move no task *)

LEMMA EmptyRun == ASSUME NEW end \in Int PROVE Run(end, 0) = {}
  BY DEF Run

LEMMA NothingMoves ==
  ASSUME ControlInv, ControlInv', NEW r \in Rank, Program(r), NEW o \in Rank, NEW i \in Int,
         \A s \in Rank : ~ Reading(r, s), UNCHANGED <<seg, dq, tmp, inTransit, results>>,
         seg[r].nb = 0 \/ (SegmentLive(r)' <=> SegmentLive(r))
  PROVE  Places(o, i)' = Places(o, i)
  <1>1. /\ InDequeue(r, o, i)' <=> InDequeue(r, o, i)
        /\ InTmp(r, o, i)' <=> InTmp(r, o, i)
    BY DEF InDequeue, InTmp, NbDequeue
  <1>2. InSegment(r, o, i)' <=> InSegment(r, o, i)
    <2>1. CASE seg[r].nb = 0
      <3>1. Run(seg[r].end, seg[r].nb) = {} /\ Run(seg'[r].end, seg'[r].nb) = {}
        BY <2>1, EmptyRun DEF ControlInv, TypeOK
      <3>2. QED
        BY <3>1 DEF InSegment
    <2>2. CASE SegmentLive(r)' <=> SegmentLive(r)
      BY <2>2 DEF InSegment
    <2>3. QED
      BY <2>1, <2>2
  <1>3. QED
    BY <1>1, <1>2, SamePlaces

\* The steps that change the lock word or only look at it.
LEMMA WordPlaces ==
  ASSUME ControlInv, ControlInv', NEW r \in Rank, Program(r), NEW o \in Rank, NEW i \in Int,
         \/ ParallelWork(r)
         \/ WorkBegin(r) \/ LockOwnSegment(r) \/ SwitchOnState(r) \/ ActiveWait(r)
         \/ PublishAfterSelfTheft(r, "begin_publish", "init")
         \/ PublishAfterSelfTheft(r, "self_publish", "loop")
         \/ PublishAfterRefill(r)
         \/ LoadBalancing(r) \/ (\E v \in Rank : TryLock(r, v))
         \/ UnlockVictim(r) \/ ReleaseOwn(r)
  PROVE  Places(o, i)' = Places(o, i)
  <1>t. TypeOK
    BY DEF ControlInv
  <1> USE WordFacts DEF TypeOK, Goto, taskVars, resultVars, CompareAndSwap
  <1>1. CASE ParallelWork(r)
    <2>1. /\ UNCHANGED <<seg, dq, tmp, inTransit, results>> /\ pc[r] = "barrier" /\ seg[r].nb = 0
      BY <1>t, <1>1 DEF ParallelWork, ControlInv, LocalInv
    <2>2. QED
      BY <2>1, NothingMoves DEF Reading
  <1>2. CASE WorkBegin(r)
    <2>1. /\ UNCHANGED <<seg, dq, tmp, inTransit, results>> /\ pc[r] = "begin"
          /\ pc'[r] = IF seg[r].nb > 0 THEN "begin_move" ELSE "init"
      BY <1>t, <1>2 DEF WorkBegin
    <2>2. seg[r].nb \in Nat
      BY <1>t, CapacityAssumption
    <2>3. seg[r].nb = 0 \/ (SegmentLive(r)' <=> SegmentLive(r))
      BY <2>1, <2>2 DEF SegmentLive
    <2>4. QED
      BY <2>1, <2>3, NothingMoves DEF Reading
  <1>3. CASE \/ PublishAfterSelfTheft(r, "begin_publish", "init")
             \/ PublishAfterSelfTheft(r, "self_publish", "loop")
             \/ PublishAfterRefill(r)
    <2>1. /\ UNCHANGED <<seg, dq, tmp, inTransit, results>>
          /\ pc[r] \in {"begin_publish", "self_publish", "refill_publish"}
          /\ state'[r] = IF seg[r].nb = 0 THEN NO_TASK ELSE TASK_AVAILABLE
      BY <1>t, <1>3 DEF PublishAfterSelfTheft, PublishAfterRefill, ControlInv, LockInv
    <2>2. SegmentLive(r)
      BY <2>1 DEF SegmentLive, ControlInv, LockInv, Own
    <2>3. seg[r].nb = 0 \/ SegmentLive(r)'
      BY <2>1 DEF SegmentLive
    <2>4. QED
      BY <2>1, <2>2, <2>3, NothingMoves DEF Reading
  <1>4. CASE \/ LockOwnSegment(r) \/ SwitchOnState(r) \/ ActiveWait(r) \/ LoadBalancing(r)
             \/ \E v \in Rank : TryLock(r, v)
    <2> DEFINE quiet ==
          /\ UNCHANGED <<seg, dq, tmp, inTransit, results>>
          /\ state[r] \in {TASK_AVAILABLE, r} <=> state'[r] \in {TASK_AVAILABLE, r}
          /\ pc[r] \in {"lock", "switch", "wait", "thief", "select"}
          /\ pc'[r] \notin {"begin", "begin_move", "begin_publish", "refill_publish"}
    <2>1. CASE LockOwnSegment(r) \/ ActiveWait(r)
      <3>1. quiet
        BY <1>t, <2>1 DEF LockOwnSegment, ActiveWait
      <3>2. QED
        BY <3>1, OwnSameLive, NothingMoves DEF Reading
    <2>2. CASE SwitchOnState(r) \/ LoadBalancing(r)
      <3>1. quiet
        BY <1>t, <2>2 DEF SwitchOnState, LoadBalancing
      <3>2. QED
        BY <3>1, OwnSameLive, NothingMoves DEF Reading
    <2>3. ASSUME NEW v \in Rank, TryLock(r, v)
          PROVE  Places(o, i)' = Places(o, i)
      <3>1. quiet
        BY <1>t, <2>3 DEF TryLock
      <3>2. QED
        BY <3>1, OwnSameLive, NothingMoves DEF Reading
    <2>4. QED
      BY <1>4, <2>1, <2>2, <2>3
  <1>5. CASE UnlockVictim(r) \/ ReleaseOwn(r)
    <2>1. /\ UNCHANGED <<seg, dq, tmp, inTransit, results>>
          /\ pc[r] \in {"unlock", "release"}
          /\ state'[r] = r \/ pc'[r] = "begin"
      BY <1>t, <1>5 DEF UnlockVictim, ReleaseOwn, ControlInv, LockInv, Own
    <2>2. SegmentLive(r) /\ SegmentLive(r)'
      BY <2>1 DEF SegmentLive, ControlInv, LockInv, Own
    <2>3. QED
      BY <2>1, <2>2, NothingMoves DEF Reading
  <1>6. QED
    BY <1>1, <1>2, <1>3, <1>4, <1>5

\* A new tmp segment, the data of a theft, and the reset at the end of a session.
LEMMA StillPlaces ==
  ASSUME ControlInv, ControlInv', NEW r \in Rank, Program(r), NEW o \in Rank, NEW i \in Int,
         InitTmp(r) \/ ReadTasks(r) \/ Finish(r)
  PROVE  Places(o, i)' = Places(o, i)
  <1>t. TypeOK /\ TypeOK'
    BY DEF ControlInv
  <1> USE WordFacts DEF TypeOK, Goto, taskVars, resultVars
  <1>1. CASE InitTmp(r)
    <2>1. /\ UNCHANGED <<seg, dq, state, inTransit, results>>
          /\ pc[r] = "init" /\ pc'[r] = "loop" /\ tmp'[r].nb = 0
      BY <1>t, <1>1 DEF InitTmp, FreshTmp, TmpResults
    <2>2. tmp[r].nb = 0
      BY <2>1 DEF ControlInv, LocalInv, Batching
    <2>3. InTmp(r, o, i)' <=> InTmp(r, o, i)
      BY <1>t, <2>1, <2>2, EmptyRun DEF InTmp
    <2>4. InSegment(r, o, i)' <=> InSegment(r, o, i)
      BY <2>1, OwnSameLive DEF InSegment
    <2>5. QED
      BY <2>1, <2>3, <2>4, SamePlaces DEF InDequeue, NbDequeue, Reading
  <1>2. CASE ReadTasks(r)
    <2>1. /\ UNCHANGED <<dq, tmp, state, inTransit, results>> /\ pc[r] = "read_tasks"
          /\ seg'[r].owner = seg[r].owner /\ seg'[r].nb = seg[r].nb /\ seg'[r].end = seg[r].end
      BY <1>t, <1>2 DEF ReadTasks, Segment
    <2>2. SegmentLive(r) /\ SegmentLive(r)'
      BY <2>1 DEF SegmentLive, ControlInv, LockInv, Own
    <2>3. QED
      BY <2>1, <2>2, SamePlaces DEF InDequeue, InSegment, InTmp, NbDequeue, Reading
  <1>3. CASE Finish(r)
    <2>1. /\ UNCHANGED <<dq, tmp, inTransit, results>> /\ pc[r] = "thief"
          /\ seg'[r].nb = 0
      BY <1>t, <1>3 DEF Finish, ResetSegment, Segment
    <2>2. ~ SegmentLive(r)
      BY <2>1, ClosedSegment DEF SegmentLive, Reading, Holds, Open, Own
    <2>3. ~ InSegment(r, o, i) /\ ~ InSegment(r, o, i)'
      BY <1>t, <2>1, <2>2, EmptyRun DEF InSegment
    <2>4. QED
      BY <2>1, <2>3, SamePlaces DEF InDequeue, InTmp, NbDequeue, Reading
  <1>4. QED
    BY <1>1, <1>2, <1>3

-----------------------------------------------------------------------------
(* The steps that move tasks at the rank that holds them *)

LEMMA RunSplit ==
  ASSUME NEW end \in Int, NEW nb \in Nat, NEW k \in Nat, k <= nb, NEW i \in Int
  PROVE  /\ i \in Run(end, nb) <=> i \in Run(end, k) \/ i \in Run(end - k, nb - k)
         /\ ~ (i \in Run(end, k) /\ i \in Run(end - k, nb - k))
  BY DEF Run

\* The lists of places that a step of r makes of its own places.
LEMMA PlacesMoved ==
  ASSUME ControlInv, ControlInv', NEW r \in Rank, Program(r), NEW o \in Rank, NEW i \in Int,
         \A s \in Rank : ~ Reading(r, s), UNCHANGED <<inTransit, results>>
  PROVE  LET D == InDequeue(r, o, i)
             S == InSegment(r, o, i)
             T == InTmp(r, o, i)
         IN
         /\ S /\ ~ S' /\ ~ D /\ D' /\ (T' <=> T)
              => Moves(Places(o, i), Places(o, i)', <<"segment", r>>, <<"dequeue", r>>)
         /\ D /\ ~ D' /\ ~ S /\ S' /\ (T' <=> T)
              => Moves(Places(o, i), Places(o, i)', <<"dequeue", r>>, <<"segment", r>>)
         /\ D /\ ~ D' /\ T' /\ (S' <=> S)
              => Moves(Places(o, i), Places(o, i)', <<"dequeue", r>>, <<"tmp", r>>)
  <1> DEFINE D == DequeuesWith(o, i)
             S == SegmentsWith(o, i)
             T == TmpsWith(o, i)
             B == BatchesWith(o, i)
             U == UsersWith(o, i)
  <1>1. /\ D' = IF InDequeue(r, o, i)' THEN D \cup {r} ELSE D \ {r}
        /\ S' = IF InSegment(r, o, i)' THEN S \cup {r} ELSE S \ {r}
        /\ T' = IF InTmp(r, o, i)' THEN T \cup {r} ELSE T \ {r}
    BY PlacesAtOthers
  <1>2. B' = B /\ U' = U
    BY DEF BatchesWith, UsersWith, InBatch
  <1>3. /\ r \in D <=> InDequeue(r, o, i)
        /\ r \in S <=> InSegment(r, o, i)
        /\ r \in T <=> InTmp(r, o, i)
    BY DEF DequeuesWith, SegmentsWith, TmpsWith
  <1>4. Places(o, i) = AllPlaces(D, S, T, B, U) /\ Places(o, i)' = AllPlaces(D', S', T', B', U')
    BY DEF Places
  <1>5. ASSUME InSegment(r, o, i), ~ InSegment(r, o, i)', InDequeue(r, o, i)',
               InTmp(r, o, i)' <=> InTmp(r, o, i)
        PROVE  Moves(Places(o, i), Places(o, i)', <<"segment", r>>, <<"dequeue", r>>)
    <2>1. D' = D \cup {r} /\ S' = S \ {r} /\ T' = T /\ r \in S
      BY <1>1, <1>3, <1>5
    <2>2. QED
      BY <1>2, <1>4, <2>1, PlaceMoves
  <1>6. ASSUME InDequeue(r, o, i), ~ InDequeue(r, o, i)', InSegment(r, o, i)',
               InTmp(r, o, i)' <=> InTmp(r, o, i)
        PROVE  Moves(Places(o, i), Places(o, i)', <<"dequeue", r>>, <<"segment", r>>)
    <2>1. D' = D \ {r} /\ S' = S \cup {r} /\ T' = T /\ r \in D
      BY <1>1, <1>3, <1>6
    <2>2. QED
      BY <1>2, <1>4, <2>1, PlaceMoves
  <1>7. ASSUME InDequeue(r, o, i), ~ InDequeue(r, o, i)', InTmp(r, o, i)',
               InSegment(r, o, i)' <=> InSegment(r, o, i)
        PROVE  Moves(Places(o, i), Places(o, i)', <<"dequeue", r>>, <<"tmp", r>>)
    <2>1. D' = D \ {r} /\ S' = S /\ T' = T \cup {r} /\ r \in D
      BY <1>1, <1>3, <1>7
    <2>2. QED
      BY <1>2, <1>4, <2>1, PlaceMoves
  <1>8. QED
    BY <1>5, <1>6, <1>7

\* Self-theft: the last tasks of the segment go to the dequeue.
LEMMA SelfTheftPlaces ==
  ASSUME ControlInv, ControlInv', NEW r \in Rank, Program(r), NEW o \in Rank, NEW i \in Int,
         \/ MoveSegmentToDequeue(r, "begin_move", "begin_publish")
         \/ MoveSegmentToDequeue(r, "self_move", "self_publish")
  PROVE  \/ Places(o, i)' = Places(o, i)
         \/ Moves(Places(o, i), Places(o, i)', <<"segment", r>>, <<"dequeue", r>>)
  <1>t. TypeOK
    BY DEF ControlInv
  <1> DEFINE m == seg[r]
             taken == SelfTheft(m.nb)
             left == m.nb - taken
  <1>1. /\ m.nb \in Nat /\ m.end \in Int /\ taken \in Nat /\ left \in Nat /\ taken <= m.nb
    <2>1. m.nb \in 0 .. SegmentMax /\ m.end \in Int
      BY <1>t DEF TypeOK
    <2>2. taken \in Nat /\ left \in 0 .. SegmentMax
      BY <2>1, SelfTheftBounds
    <2>3. QED
      BY <2>1, <2>2, CapacityAssumption
  <1>2. /\ UNCHANGED <<state, tmp, inTransit, results>>
        /\ pc[r] \in {"begin_move", "self_move"}
        /\ pc'[r] \in {"begin_publish", "self_publish"}
        /\ dq'[r].owner = m.owner /\ dq'[r].head = 0 /\ dq'[r].tail = taken /\ dq'[r].end = m.end
        /\ seg'[r].owner = m.owner /\ seg'[r].nb = left
        /\ seg'[r].end = IF left = 0 THEN 0 ELSE m.end - taken
    BY <1>t DEF MoveSegmentToDequeue, TypeOK, Goto, Dequeue, Segment, resultVars
  <1>3. SegmentLive(r) /\ SegmentLive(r)'
    BY <1>2 DEF SegmentLive, ControlInv, LockInv, Own
  <1>4. ~ InDequeue(r, o, i)
    <2>1. NbDequeue(r) = 0
      BY <1>2 DEF ControlInv, LocalInv, NoWork
    <2>2. QED
      BY <1>t, <2>1, EmptyRun DEF InDequeue, TypeOK
  <1>5. /\ InSegment(r, o, i) <=> m.owner = o /\ i \in Run(m.end, m.nb)
        /\ InDequeue(r, o, i)' <=> m.owner = o /\ i \in Run(m.end, taken)
        /\ InSegment(r, o, i)' <=> m.owner = o /\ i \in Run(m.end - taken, left)
    <2>1. taken - 0 = taken
      BY <1>1
    <2>2. InDequeue(r, o, i)' <=> m.owner = o /\ i \in Run(m.end, taken)
      BY <1>2, <2>1 DEF InDequeue, NbDequeue
    <2>3. CASE left = 0
      <3>1. Run(0, left) = {} /\ Run(m.end - taken, left) = {}
        BY <1>1, <2>3, EmptyRun
      <3>2. QED
        BY <1>2, <1>3, <2>2, <2>3, <3>1 DEF InSegment
    <2>4. CASE left # 0
      BY <1>2, <1>3, <2>2, <2>4 DEF InSegment
    <2>5. QED
      BY <2>3, <2>4
  <1>6. /\ i \in Run(m.end, m.nb) <=> i \in Run(m.end, taken) \/ i \in Run(m.end - taken, left)
        /\ ~ (i \in Run(m.end, taken) /\ i \in Run(m.end - taken, left))
    BY <1>1, RunSplit
  <1>7. InTmp(r, o, i)' <=> InTmp(r, o, i)
    BY <1>2 DEF InTmp
  <1>8. \A s \in Rank : ~ Reading(r, s)
    BY <1>2 DEF Reading
  <1>9. QED
    BY <1>2, <1>4, <1>5, <1>6, <1>7, <1>8, PlacesMoved, SamePlaces

\* Refill: the first tasks of the dequeue go to the segment.
LEMMA RefillPlaces ==
  ASSUME ControlInv, ControlInv', NEW r \in Rank, Program(r), NEW o \in Rank, NEW i \in Int,
         MoveDequeueToSegment(r)
  PROVE  \/ Places(o, i)' = Places(o, i)
         \/ Moves(Places(o, i), Places(o, i)', <<"dequeue", r>>, <<"segment", r>>)
  <1>t. TypeOK
    BY DEF ControlInv
  <1> DEFINE d == dq[r]
             nb == NbDequeue(r)
             moved == Refill(nb)
             kept == nb - moved
  <1>1. /\ d.head \in Int /\ d.tail \in Int /\ d.end \in Int /\ nb \in Nat
        /\ nb = d.tail - d.head
    BY <1>t DEF TypeOK, NbDequeue, ControlInv, LocalInv
  <1>2. moved \in Nat /\ moved <= nb /\ kept \in Nat /\ kept <= nb /\ nb - kept = moved
    <2>1. moved \in Nat /\ moved <= nb
      BY <1>1, RefillBounds
    <2>2. QED
      BY <1>1, <2>1
  <1>3. /\ UNCHANGED <<state, tmp, inTransit, results>>
        /\ pc[r] = "refill" /\ pc'[r] = "refill_publish"
        /\ dq'[r].owner = d.owner /\ dq'[r].head = d.head + moved /\ dq'[r].tail = d.tail
        /\ dq'[r].end = d.end
        /\ moved = 0 => seg'[r].nb = 0
        /\ moved # 0 => /\ seg'[r].owner = d.owner /\ seg'[r].nb = moved
                        /\ seg'[r].end = d.end - kept
    BY <1>t DEF MoveDequeueToSegment, TypeOK, Goto, Dequeue, Segment, resultVars
  <1>4. ~ SegmentLive(r) /\ SegmentLive(r)'
    BY <1>3, WordFacts DEF SegmentLive, ControlInv, LockInv, Reading, Holds
  <1>5. /\ InDequeue(r, o, i) <=> d.owner = o /\ i \in Run(d.end, nb)
        /\ InDequeue(r, o, i)' <=> d.owner = o /\ i \in Run(d.end, kept)
        /\ InSegment(r, o, i)' <=> d.owner = o /\ i \in Run(d.end - kept, moved)
    <2>1. d.tail - (d.head + moved) = kept
      BY <1>1, <1>2
    <2>2. InDequeue(r, o, i)' <=> d.owner = o /\ i \in Run(d.end, kept)
      BY <1>3, <2>1 DEF InDequeue, NbDequeue
    <2>3. CASE moved = 0
      <3>1. Run(seg'[r].end, seg'[r].nb) = {} /\ Run(d.end - kept, moved) = {}
        <4>1. seg'[r].end \in Int /\ seg'[r].nb = 0
          BY <1>3, <2>3 DEF ControlInv, TypeOK
        <4>2. d.end - kept \in Int
          BY <1>1, <1>2
        <4>3. QED
          BY <2>3, <4>1, <4>2, EmptyRun
      <3>2. QED
        BY <2>2, <3>1 DEF InSegment, InDequeue
    <2>4. CASE moved # 0
      BY <1>3, <1>4, <2>2, <2>4 DEF InSegment, InDequeue
    <2>5. QED
      BY <2>3, <2>4
  <1>6. /\ i \in Run(d.end, nb) <=> i \in Run(d.end, kept) \/ i \in Run(d.end - kept, moved)
        /\ ~ (i \in Run(d.end, kept) /\ i \in Run(d.end - kept, moved))
    <2>1. /\ i \in Run(d.end, nb) <=> i \in Run(d.end, kept) \/ i \in Run(d.end - kept, nb - kept)
          /\ ~ (i \in Run(d.end, kept) /\ i \in Run(d.end - kept, nb - kept))
      <3>1. d.end \in Int /\ nb \in Nat /\ kept \in Nat /\ kept <= nb
        BY <1>1, <1>2
      <3> HIDE DEF kept, nb, d
      <3>2. QED
        BY <3>1, RunSplit
    <2>2. QED
      BY <1>2, <2>1
  <1>7. InTmp(r, o, i)' <=> InTmp(r, o, i)
    BY <1>3 DEF InTmp
  <1>8. ~ InSegment(r, o, i)
    BY <1>4 DEF InSegment
  <1>9. \A s \in Rank : ~ Reading(r, s)
    BY <1>3 DEF Reading
  <1>10. QED
    BY <1>3, <1>5, <1>6, <1>7, <1>8, <1>9, PlacesMoved, SamePlaces

\* A task is done: the last one of the dequeue, whose result is the first of the tmp segment.
LEMMA DonePlaces ==
  ASSUME ControlInv, ControlInv', AlignInv, NEW r \in Rank, Program(r),
         NEW o \in Rank, NEW i \in Int, DoNextTask(r)
  PROVE  IF i = dq[r].end - 1 /\ o = dq[r].owner
         THEN Moves(Places(o, i), Places(o, i)', <<"dequeue", r>>, <<"tmp", r>>)
         ELSE Places(o, i)' = Places(o, i)
  <1>t. TypeOK
    BY DEF ControlInv
  <1> DEFINE d == dq[r]
             t == tmp[r]
             nb == NbDequeue(r)
  <1>1. /\ d.head \in Int /\ d.tail \in Int /\ d.end \in Int
        /\ nb \in Nat \ {0} /\ nb = d.tail - d.head
        /\ t.last \in Int /\ t.nb \in Nat
    <2>1. d.head \in Int /\ d.tail \in Int /\ d.end \in Int /\ t.last \in Int /\ t.nb \in Nat
      BY <1>t, CapacityAssumption DEF TypeOK
    <2>2. d.head <= d.tail /\ d.tail - d.head # 0
      BY DEF ControlInv, LocalInv, DoNextTask, NbDequeue
    <2>3. QED
      BY <2>1, <2>2 DEF NbDequeue
  <1>2. /\ UNCHANGED <<state, seg, inTransit, results>>
        /\ pc[r] = "loop" /\ pc'[r] \in {"lock", "switch"}
        /\ dq'[r].owner = d.owner /\ dq'[r].head = d.head /\ dq'[r].tail = d.tail - 1
        /\ dq'[r].end = d.end - 1
        /\ tmp'[r].owner = t.owner /\ tmp'[r].last = t.last /\ tmp'[r].nb = t.nb + 1
    BY <1>t DEF DoNextTask, TypeOK, Goto, Dequeue, TmpResults, resultVars
  <1>3. t.owner = d.owner /\ t.last - t.nb = d.end
    BY <1>2 DEF AlignInv, Aligned, BatchAligned, Batching
  <1>4. /\ InDequeue(r, o, i) <=> d.owner = o /\ i \in Run(d.end, nb)
        /\ InDequeue(r, o, i)' <=> d.owner = o /\ i \in Run(d.end - 1, nb - 1)
        /\ InTmp(r, o, i) <=> d.owner = o /\ i \in Run(t.last, t.nb)
        /\ InTmp(r, o, i)' <=> d.owner = o /\ i \in Run(t.last, t.nb + 1)
    <2>1. d.tail - 1 - d.head = nb - 1
      BY <1>1
    <2>2. QED
      BY <1>2, <1>3, <2>1 DEF InDequeue, InTmp, NbDequeue
  <1>5. /\ i \in Run(d.end, nb) <=> i = d.end - 1 \/ i \in Run(d.end - 1, nb - 1)
        /\ i = d.end - 1 => i \notin Run(d.end - 1, nb - 1)
        /\ i \in Run(t.last, t.nb + 1) <=> i = d.end - 1 \/ i \in Run(t.last, t.nb)
    BY <1>1, <1>3 DEF Run
  <1>6. InSegment(r, o, i)' <=> InSegment(r, o, i)
    BY <1>2, OwnSameLive DEF InSegment
  <1>7. \A s \in Rank : ~ Reading(r, s)
    BY <1>2 DEF Reading
  <1>8. CASE i = d.end - 1 /\ d.owner = o
    BY <1>2, <1>4, <1>5, <1>6, <1>7, <1>8, PlacesMoved
  <1>9. CASE ~ (i = d.end - 1 /\ d.owner = o)
    BY <1>2, <1>4, <1>5, <1>6, <1>7, <1>9, SamePlaces
  <1>10. QED
    BY <1>8, <1>9

-----------------------------------------------------------------------------
(* The steps that move results and segments between ranks *)

\* What becomes of the results in the tmp segment of r: they are submitted or start to travel.
LEMMA PushedResults ==
  ASSUME TypeOK, NEW r \in Rank, PushTmpResults(r), tmp[r].nb # 0
  PROVE  LET t == tmp[r]
             b == [owner |-> t.owner, first |-> t.last - t.nb, nb |-> t.nb] IN
         \/ /\ t.owner = r /\ UNCHANGED inTransit
            /\ results' = [results EXCEPT ![r] = @ \cup Run(t.last, t.nb)]
            /\ nbResult' = [nbResult EXCEPT ![r] = @ + t.nb]
         \/ /\ t.owner # r /\ UNCHANGED <<results, nbResult>>
            /\ inTransit' = inTransit \cup {b}
            /\ \A o, i : InBatch(b, o, i) <=> t.owner = o /\ i \in Run(t.last, t.nb)
  <1> DEFINE t == tmp[r]
  <1>1. t.last - t.nb + t.nb = t.last
    BY CapacityAssumption DEF TypeOK
  <1>2. QED
    BY <1>1 DEF PushTmpResults, SubmitResults, InBatch

LEMMA PushPlaces ==
  ASSUME ControlInv, ControlInv', NEW r \in Rank, Program(r), NEW o \in Rank, NEW i \in Int,
         ReturnFullTmp(r) \/ LeaveLoop(r)
  PROVE  IF ~ InTmp(r, o, i) THEN Places(o, i)' = Places(o, i)
         ELSE IF tmp[r].owner = r THEN Moves(Places(o, i), Places(o, i)', <<"tmp", r>>, <<"user", r>>)
         ELSE \E b : Moves(Places(o, i), Places(o, i)', <<"tmp", r>>, <<"batch", b>>)
  <1>t. TypeOK
    BY DEF ControlInv
  <1> DEFINE t == tmp[r]
             b == [owner |-> t.owner, first |-> t.last - t.nb, nb |-> t.nb]
  <1>1. /\ UNCHANGED <<state, seg, dq>> /\ PushTmpResults(r)
        /\ pc[r] = "loop" /\ pc'[r] \in {"loop", "wait"}
        /\ tmp'[r].nb = 0
    <2>1. CASE ReturnFullTmp(r)
      BY <1>t, <2>1 DEF ReturnFullTmp, TypeOK, Goto, FreshTmp, TmpResults, taskVars
    <2>2. CASE LeaveLoop(r)
      BY <1>t, <2>2 DEF LeaveLoop, TypeOK, Goto, TmpResults, taskVars
    <2>3. QED
      BY <2>1, <2>2
  <1>2. /\ InDequeue(r, o, i)' <=> InDequeue(r, o, i)
        /\ InSegment(r, o, i)' <=> InSegment(r, o, i)
    BY <1>1, OwnSameLive DEF InDequeue, InSegment, NbDequeue
  <1>3. ~ InTmp(r, o, i)'
    <2>1. tmp'[r].last \in Int
      BY DEF ControlInv, TypeOK
    <2>2. QED
      BY <1>1, <2>1, EmptyRun DEF InTmp
  <1>4. \A s \in Rank : ~ Reading(r, s)
    BY <1>1 DEF Reading
  <1>5. CASE t.nb = 0
    <2>1. UNCHANGED <<inTransit, results>>
      BY <1>1, <1>5 DEF PushTmpResults
    <2>2. ~ InTmp(r, o, i)
      BY <1>t, <1>5, EmptyRun DEF InTmp, TypeOK
    <2>3. QED
      BY <1>2, <1>3, <1>4, <2>1, <2>2, SamePlaces
  <1>6. CASE t.nb # 0
    <2>1. /\ DequeuesWith(o, i)' = DequeuesWith(o, i)
          /\ SegmentsWith(o, i)' = SegmentsWith(o, i)
          /\ TmpsWith(o, i)' = TmpsWith(o, i) \ {r}
          /\ r \in TmpsWith(o, i) <=> InTmp(r, o, i)
      BY <1>2, <1>3, <1>4, PlacesAtOthers DEF DequeuesWith, SegmentsWith, TmpsWith
    <2>2. CASE t.owner = r
      <3>1. /\ inTransit' = inTransit
            /\ results' = [results EXCEPT ![r] = @ \cup Run(t.last, t.nb)]
        BY <1>t, <1>1, <1>6, <2>2, PushedResults
      <3>2. BatchesWith(o, i)' = BatchesWith(o, i)
        BY <3>1 DEF BatchesWith, InBatch
      <3>3. UsersWith(o, i)' = IF InTmp(r, o, i) THEN UsersWith(o, i) \cup {r} ELSE UsersWith(o, i)
        BY <1>t, <2>2, <3>1 DEF UsersWith, InTmp, TypeOK
      <3>4. CASE InTmp(r, o, i)
        <4>1. /\ Places(o, i) = AllPlaces(DequeuesWith(o, i), SegmentsWith(o, i), TmpsWith(o, i),
                                          BatchesWith(o, i), UsersWith(o, i))
              /\ Places(o, i)' = AllPlaces(DequeuesWith(o, i), SegmentsWith(o, i),
                                    TmpsWith(o, i) \ {r}, BatchesWith(o, i), UsersWith(o, i) \cup {r})
          BY <2>1, <3>2, <3>3, <3>4 DEF Places
        <4>2. r \in TmpsWith(o, i)
          BY <2>1, <3>4
        <4>3. QED
          BY <2>2, <3>4, <4>1, <4>2, PlaceMoves
      <3>5. CASE ~ InTmp(r, o, i)
        BY <2>1, <3>2, <3>3, <3>5 DEF Places, AllPlaces
      <3>6. QED
        BY <3>4, <3>5
    <2>3. CASE t.owner # r
      <3>1. /\ inTransit' = inTransit \cup {b} /\ results' = results
            /\ InBatch(b, o, i) <=> InTmp(r, o, i)
        BY <1>t, <1>1, <1>6, <2>3, PushedResults DEF InTmp
      <3>2. UsersWith(o, i)' = UsersWith(o, i)
        BY <3>1 DEF UsersWith
      <3>3. BatchesWith(o, i)' = {c \in inTransit \cup {b} : InBatch(c, o, i)}
        BY <3>1 DEF BatchesWith, InBatch
      <3>4. BatchesWith(o, i)' = IF InTmp(r, o, i) THEN BatchesWith(o, i) \cup {b}
                                                  ELSE BatchesWith(o, i)
        BY <3>1, <3>3 DEF BatchesWith
      <3>5. CASE InTmp(r, o, i)
        <4> HIDE DEF b
        <4>1. Places(o, i)' = AllPlaces(DequeuesWith(o, i), SegmentsWith(o, i),
                                    TmpsWith(o, i) \ {r}, BatchesWith(o, i) \cup {b}, UsersWith(o, i))
          BY <2>1, <3>2, <3>4, <3>5 DEF Places
        <4>2. r \in TmpsWith(o, i)
          BY <2>1, <3>5
        <4>3. Moves(Places(o, i), Places(o, i)', <<"tmp", r>>, <<"batch", b>>)
          BY <4>1, <4>2, PlaceMoves DEF Places
        <4>4. QED
          BY <2>3, <3>5, <4>3
      <3>6. CASE ~ InTmp(r, o, i)
        BY <2>1, <3>2, <3>4, <3>6 DEF Places, AllPlaces
      <3>7. QED
        BY <3>5, <3>6
    <2>4. QED
      BY <2>2, <2>3
  <1>7. QED
    BY <1>5, <1>6

\* A batch reaches the rank that owns its tasks.
LEMMA ArrivalPlaces ==
  ASSUME TypeOK, NEW r \in Rank, SubmitArrived(r), NEW o \in Rank, NEW i \in Int,
         NEW b \in inTransit, b.owner = r, SubmitResults(r, b.first, b.nb),
         inTransit' = inTransit \ {b}
  PROVE  IF InBatch(b, o, i)
         THEN Moves(Places(o, i), Places(o, i)', <<"batch", b>>, <<"user", r>>)
         ELSE Places(o, i)' = Places(o, i)
  <1>2. UNCHANGED <<pc, state, seg, dq, tmp, target>>
    BY DEF SubmitArrived, taskVars
  <1>3. results' = [results EXCEPT ![r] = @ \cup Run(b.first + b.nb, b.nb)]
    BY DEF SubmitResults
  <1>4. /\ DequeuesWith(o, i)' = DequeuesWith(o, i)
        /\ SegmentsWith(o, i)' = SegmentsWith(o, i)
        /\ TmpsWith(o, i)' = TmpsWith(o, i)
    BY <1>2 DEF DequeuesWith, SegmentsWith, TmpsWith, InDequeue, InSegment, InTmp, NbDequeue,
                SegmentLive, Reading
  <1>5. BatchesWith(o, i)' = BatchesWith(o, i) \ {b}
    BY DEF BatchesWith, InBatch
  <1>6. UsersWith(o, i)' = IF InBatch(b, o, i) THEN UsersWith(o, i) \cup {r} ELSE UsersWith(o, i)
    BY <1>3 DEF UsersWith, InBatch, TypeOK
  <1>7. b \in BatchesWith(o, i) <=> InBatch(b, o, i)
    BY DEF BatchesWith
  <1>8. CASE InBatch(b, o, i)
    <2>1. /\ Places(o, i) = AllPlaces(DequeuesWith(o, i), SegmentsWith(o, i), TmpsWith(o, i),
                                      BatchesWith(o, i), UsersWith(o, i))
          /\ Places(o, i)' = AllPlaces(DequeuesWith(o, i), SegmentsWith(o, i), TmpsWith(o, i),
                                       BatchesWith(o, i) \ {b}, UsersWith(o, i) \cup {r})
      BY <1>4, <1>5, <1>6, <1>8 DEF Places
    <2>2. b \in BatchesWith(o, i)
      BY <1>7, <1>8
    <2>3. Moves(AllPlaces(DequeuesWith(o, i), SegmentsWith(o, i), TmpsWith(o, i),
                          BatchesWith(o, i), UsersWith(o, i)),
                AllPlaces(DequeuesWith(o, i), SegmentsWith(o, i), TmpsWith(o, i),
                          BatchesWith(o, i) \ {b}, UsersWith(o, i) \cup {r}),
                <<"batch", b>>, <<"user", r>>)
      BY <2>2, PlaceMoves
    <2>4. QED
      BY <1>8, <2>1, <2>3
  <1>9. CASE ~ InBatch(b, o, i)
    <2>1. BatchesWith(o, i)' = BatchesWith(o, i)
      BY <1>5, <1>7, <1>9
    <2>2. QED
      BY <1>4, <1>6, <1>9, <2>1 DEF Places, AllPlaces
  <1>10. QED
    BY <1>8, <1>9

\* A thief has read the metadata of its victim: the tasks are no longer in the victim's segment.
LEMMA TheftSegments ==
  ASSUME ControlInv, ControlInv', NEW r \in Rank, ReadMetadata(r), NEW v \in Rank, v = target[r]
  PROVE  /\ v # r /\ Reading(r, v)
         /\ SegmentLive(v) /\ ~ SegmentLive(v)'
         /\ ~ SegmentLive(r) /\ SegmentLive(r)'
         /\ UNCHANGED <<dq, tmp, inTransit, results, nbTask, target>>
         /\ \A s \in Rank \ {r} : seg'[s] = seg[s]
         /\ seg'[r].owner = seg[v].owner /\ seg'[r].nb = seg[v].nb /\ seg'[r].end = seg[v].end
         /\ pc[r] = "read_metadata" /\ pc' = [pc EXCEPT ![r] = "read_tasks"]
  <1>t. TypeOK
    BY DEF ControlInv
  <1>1. /\ pc[r] = "read_metadata" /\ pc' = [pc EXCEPT ![r] = "read_tasks"]
        /\ UNCHANGED <<dq, tmp, inTransit, results, nbTask, target>>
        /\ state' = [state EXCEPT ![r] = state[v]]
        /\ \A s \in Rank \ {r} : seg'[s] = seg[s]
        /\ seg'[r].owner = seg[v].owner /\ seg'[r].nb = seg[v].nb /\ seg'[r].end = seg[v].end
    BY <1>t DEF ReadMetadata, Goto, TypeOK, Segment, resultVars
  <1>2. v # r /\ state[v] = r /\ Reading(r, v)
    BY <1>t, <1>1 DEF ControlInv, LockInv, Holds, Reading, TypeOK
  <1>3. Open(v) \/ pc[v] = "wait"
    BY <1>1, Victim DEF Holds
  <1>4. state'[r] = r /\ state'[v] = r /\ pc'[v] = pc[v]
    BY <1>t, <1>1, <1>2 DEF TypeOK
  <1>5. ASSUME NEW s \in Rank
        PROVE  ~ Reading(s, v)'
    <2>1. CASE s = r
      BY <1>t, <1>1, <2>1 DEF Reading, TypeOK
    <2>2. CASE s # r
      <3>1. pc'[s] = "read_metadata" => state'[target'[s]] = s
        BY DEF Holds, ControlInv, LockInv
      <3>2. QED
        BY <1>4, <2>2, <3>1 DEF Reading
    <2>3. QED
      BY <2>1, <2>2
  <1>6. SegmentLive(v) /\ ~ SegmentLive(v)'
    <2>1. SegmentLive(v)
      BY <1>2 DEF SegmentLive
    <2>2. state'[v] \notin {TASK_AVAILABLE, v}
      BY <1>2, <1>4, WordFacts
    <2>3. QED
      BY <1>3, <1>4, <1>5, <2>1, <2>2 DEF SegmentLive, Open
  <1>7. ~ SegmentLive(r) /\ SegmentLive(r)'
    <2>1. state[r] = NO_TASK /\ \A s \in Rank : ~ Reading(s, r)
      BY <1>1, ClosedSegment DEF Open, Own, Reading, Holds
    <2>2. QED
      BY <1>1, <1>4, <2>1, WordFacts DEF SegmentLive
  <1>8. QED
    BY <1>1, <1>2, <1>6, <1>7

LEMMA TheftPlaces ==
  ASSUME ControlInv, ControlInv', NEW r \in Rank, Program(r), NEW o \in Rank, NEW i \in Int,
         ReadMetadata(r)
  PROVE  IF InSegment(target[r], o, i)
         THEN Moves(Places(o, i), Places(o, i)', <<"segment", target[r]>>, <<"segment", r>>)
         ELSE Places(o, i)' = Places(o, i)
  <1>v. PICK v \in Rank : v = target[r]
    BY DEF ControlInv, TypeOK
  <1>1. /\ v # r /\ Reading(r, v)
        /\ SegmentLive(v) /\ ~ SegmentLive(v)'
        /\ ~ SegmentLive(r) /\ SegmentLive(r)'
        /\ UNCHANGED <<dq, tmp, inTransit, results, nbTask, target>>
        /\ \A s \in Rank \ {r} : seg'[s] = seg[s]
        /\ seg'[r].owner = seg[v].owner /\ seg'[r].nb = seg[v].nb /\ seg'[r].end = seg[v].end
        /\ pc[r] = "read_metadata"
    BY <1>v, TheftSegments
  <1>2. /\ DequeuesWith(o, i)' = DequeuesWith(o, i)
        /\ TmpsWith(o, i)' = TmpsWith(o, i)
        /\ BatchesWith(o, i)' = BatchesWith(o, i)
        /\ UsersWith(o, i)' = UsersWith(o, i)
    BY <1>1 DEF DequeuesWith, TmpsWith, BatchesWith, UsersWith, InDequeue, InTmp, InBatch,
                NbDequeue
  <1>3. /\ ~ InSegment(v, o, i)' /\ ~ InSegment(r, o, i)
        /\ InSegment(r, o, i)' <=> InSegment(v, o, i)
    BY <1>1 DEF InSegment
  <1>4. ASSUME NEW s \in Rank, s # r, s # v
        PROVE  InSegment(s, o, i)' <=> InSegment(s, o, i)
    <2>1. SegmentLive(s)' <=> SegmentLive(s)
      BY <1>v, <1>4, OthersStayLive DEF Reading
    <2>2. QED
      BY <1>1, <1>4, <2>1 DEF InSegment
  <1>5. CASE InSegment(v, o, i)
    <2>1. /\ SegmentsWith(o, i)' = (SegmentsWith(o, i) \ {v}) \cup {r}
          /\ v \in SegmentsWith(o, i)
      <3>1. \A s \in Rank : InSegment(s, o, i)' <=> s = r \/ (s # v /\ InSegment(s, o, i))
        BY <1>3, <1>4, <1>5
      <3>2. QED
        BY <1>1, <1>5, <3>1 DEF SegmentsWith
    <2>2. Places(o, i)' = AllPlaces(DequeuesWith(o, i), (SegmentsWith(o, i) \ {v}) \cup {r},
                                    TmpsWith(o, i), BatchesWith(o, i), UsersWith(o, i))
      BY <1>2, <2>1 DEF Places
    <2>3. QED
      BY <1>v, <1>5, <2>1, <2>2, PlaceMoves DEF Places
  <1>6. CASE ~ InSegment(v, o, i)
    <2>1. SegmentsWith(o, i)' = SegmentsWith(o, i)
      <3>1. \A s \in Rank : InSegment(s, o, i)' <=> InSegment(s, o, i)
        BY <1>3, <1>4, <1>6
      <3>2. QED
        BY <3>1 DEF SegmentsWith
    <2>2. QED
      BY <1>v, <1>2, <1>6, <2>1 DEF Places, AllPlaces
  <1>7. QED
    BY <1>5, <1>6

-----------------------------------------------------------------------------
(* A new problem *)

\* A rank that sets a problem has the results of the last one: its tasks are nowhere else.
LEMMA OldTasks ==
  ASSUME ControlInv, PlaceInv, CountInv, NEW r \in Rank, pc[r] = "idle", NEW i \in Int
  PROVE  /\ DequeuesWith(r, i) = {} /\ SegmentsWith(r, i) = {} /\ TmpsWith(r, i) = {}
         /\ BatchesWith(r, i) = {}
  <1>1. OnePlace(r, i)
    BY DEF PlaceInv
  <1>2. CASE i \in 0 .. nbTask[r] - 1
    <2>1. i \in results[r]
      BY <1>2 DEF CountInv
    <2>2. <<"user", r>> \in Places(r, i)
      BY <2>1 DEF Places, AllPlaces, UsersWith
    <2>3. Places(r, i) = {<<"user", r>>}
      BY <1>1, <1>2, <2>2 DEF OnePlace
    <2>4. \A p \in AllPlaces(DequeuesWith(r, i), SegmentsWith(r, i), TmpsWith(r, i),
                            BatchesWith(r, i), UsersWith(r, i)) : p = <<"user", r>>
      BY <2>3 DEF Places
    <2>5. QED
      BY <2>4, PlaceMembers
  <1>3. CASE i \notin 0 .. nbTask[r] - 1
    <2>1. Places(r, i) = {}
      BY <1>1, <1>3 DEF OnePlace
    <2>2. QED
      BY <2>1, PlaceMembers DEF Places
  <1>4. QED
    BY <1>2, <1>3

\* The tasks of the new problem go to the dequeue of r; r held no other, and no result.
LEMMA ProblemMoves ==
  ASSUME ControlInv, ControlInv', NEW r \in Rank, NEW n \in TaskCounts[r],
         SetProblem(r, n), NEW o \in Rank, NEW i \in Int
  PROVE  /\ DequeuesWith(o, i)' = IF o = r /\ i \in 0 .. n - 1 THEN DequeuesWith(o, i) \cup {r}
                                                               ELSE DequeuesWith(o, i)
         /\ SegmentsWith(o, i)' = SegmentsWith(o, i)
         /\ TmpsWith(o, i)' = TmpsWith(o, i)
         /\ BatchesWith(o, i)' = BatchesWith(o, i)
         /\ r \notin DequeuesWith(o, i) /\ r \notin SegmentsWith(o, i)
  <1>t. TypeOK
    BY DEF ControlInv
  <1>n. n \in Nat
    BY CountsAssumption
  <1>p. Program(r)
    BY DEF Program
  <1>1. /\ pc[r] = "idle" /\ pc'[r] = "barrier" /\ UNCHANGED <<state, seg, inTransit>>
        /\ dq'[r].owner = r /\ dq'[r].head = 0 /\ dq'[r].tail = n /\ dq'[r].end = n
        /\ tmp'[r].nb = 0
    BY <1>t DEF SetProblem, TypeOK, Goto, Dequeue, TmpResults
  <1>2. /\ tmp[r].nb = 0 /\ NbDequeue(r) = 0 /\ seg[r].nb = 0
    BY <1>1 DEF ControlInv, LocalInv, NoWork, Batching
  <1>3. /\ ~ InDequeue(r, o, i) /\ ~ InSegment(r, o, i) /\ ~ InTmp(r, o, i)
        /\ ~ InSegment(r, o, i)' /\ ~ InTmp(r, o, i)'
    <2>1. tmp'[r].last \in Int
      BY DEF ControlInv, TypeOK
    <2>2. QED
      BY <1>t, <1>1, <1>2, <2>1, EmptyRun DEF InDequeue, InSegment, InTmp, TypeOK
  <1>4. InDequeue(r, o, i)' <=> o = r /\ i \in 0 .. n - 1
    BY <1>n, <1>1 DEF InDequeue, NbDequeue, Run
  <1>5. \A s \in Rank : ~ Reading(r, s)
    BY <1>1 DEF Reading
  <1>6. /\ DequeuesWith(o, i)' = IF InDequeue(r, o, i)' THEN DequeuesWith(o, i) \cup {r}
                                                        ELSE DequeuesWith(o, i) \ {r}
        /\ SegmentsWith(o, i)' = SegmentsWith(o, i) \ {r}
        /\ TmpsWith(o, i)' = TmpsWith(o, i) \ {r}
    BY <1>p, <1>3, <1>5, PlacesAtOthers
  <1>7. /\ r \notin DequeuesWith(o, i) /\ r \notin SegmentsWith(o, i) /\ r \notin TmpsWith(o, i)
    BY <1>3 DEF DequeuesWith, SegmentsWith, TmpsWith
  <1>8. BatchesWith(o, i)' = BatchesWith(o, i)
    BY <1>1 DEF BatchesWith, InBatch
  <1>9. QED
    BY <1>4, <1>6, <1>7, <1>8

LEMMA ProblemPlaces ==
  ASSUME ControlInv, ControlInv', PlaceInv, CountInv, NEW r \in Rank, NEW n \in TaskCounts[r],
         SetProblem(r, n), NEW o \in Rank, NEW i \in Int
  PROVE  OnePlace(o, i)'
  <1>t. TypeOK
    BY DEF ControlInv
  <1>1. /\ pc[r] = "idle"
        /\ nbTask' = [nbTask EXCEPT ![r] = n]
        /\ results' = [results EXCEPT ![r] = {}]
    BY DEF SetProblem, Goto
  <1>6. /\ DequeuesWith(o, i)' = IF o = r /\ i \in 0 .. n - 1 THEN DequeuesWith(o, i) \cup {r}
                                                              ELSE DequeuesWith(o, i)
        /\ SegmentsWith(o, i)' = SegmentsWith(o, i)
        /\ TmpsWith(o, i)' = TmpsWith(o, i)
        /\ BatchesWith(o, i)' = BatchesWith(o, i)
    BY ProblemMoves
  <1>7. CASE o = r
    <2>1. /\ DequeuesWith(r, i) = {} /\ SegmentsWith(r, i) = {} /\ TmpsWith(r, i) = {}
          /\ BatchesWith(r, i) = {}
      BY <1>1, OldTasks
    <2>2. UsersWith(r, i)' = {}
      BY <1>t, <1>1 DEF UsersWith, TypeOK
    <2>3. nbTask'[r] = n
      BY <1>t, <1>1 DEF TypeOK
    <2>4. Places(o, i)' = IF i \in 0 .. n - 1 THEN {<<"dequeue", r>>} ELSE {}
      BY <1>6, <1>7, <2>1, <2>2 DEF Places, AllPlaces
    <2>5. QED
      BY <1>7, <2>3, <2>4 DEF OnePlace
  <1>8. CASE o # r
    <2>1. UsersWith(o, i)' = UsersWith(o, i)
      BY <1>t, <1>1, <1>8 DEF UsersWith, TypeOK
    <2>2. Places(o, i)' = Places(o, i)
      BY <1>6, <1>8, <2>1 DEF Places, AllPlaces
    <2>3. nbTask'[o] = nbTask[o]
      BY <1>t, <1>1, <1>8 DEF TypeOK
    <2>4. QED
      BY <2>2, <2>3 DEF PlaceInv, OnePlace
  <1>9. QED
    BY <1>7, <1>8

-----------------------------------------------------------------------------
(* Every task is in one place *)

LEMMA PlaceInit == Init => PlaceInv
  <1> SUFFICES ASSUME Init, NEW o \in Rank, NEW i \in Int
               PROVE  OnePlace(o, i)
    BY DEF Init, PlaceInv
  <1>1. Run(0, 0) = {} /\ 0 - 0 = 0
    BY EmptyRun
  <1>2. Places(o, i) = {}
    BY <1>1 DEF Init, Places, AllPlaces, DequeuesWith, SegmentsWith, TmpsWith, BatchesWith,
                UsersWith, InDequeue, InSegment, InTmp, NbDequeue, Dequeue, Segment, TmpResults
  <1>3. i \notin 0 .. nbTask[o] - 1
    BY DEF Init
  <1>4. QED
    BY <1>2, <1>3 DEF OnePlace

\* Batches have results: one that starts to travel comes from a tmp segment that is not empty.
LEMMA BatchesNext ==
  ASSUME ControlInv, AlignInv, [Next]_vars, \A b \in inTransit : b.owner \in Rank /\ b.nb > 0
  PROVE  \A b \in inTransit' : b.owner \in Rank /\ b.nb > 0
  <1>1. ASSUME NEW r \in Rank, PushTmpResults(r), pc[r] = "loop"
        PROVE  \A b \in inTransit' : b.owner \in Rank /\ b.nb > 0
    <2>1. tmp[r].nb \in Nat /\ tmp[r].owner \in Rank
      <3>1. tmp[r].nb \in Nat /\ dq[r].owner \in Rank
        BY CapacityAssumption DEF ControlInv, TypeOK
      <3>2. QED
        BY <1>1, <3>1 DEF AlignInv, Aligned, BatchAligned, Batching
    <2>2. QED
      BY <1>1, <2>1 DEF PushTmpResults
  <1>2. ASSUME NEW r \in Rank, Program(r)
        PROVE  (PushTmpResults(r) /\ pc[r] = "loop") \/ inTransit' = inTransit
    BY <1>2 DEF Program, Work, Steal, SetProblem, ParallelWork, WorkBegin, MoveSegmentToDequeue,
                PublishAfterSelfTheft, InitTmp, ReturnFullTmp, DoNextTask, LockOwnSegment,
                SwitchOnState, MoveDequeueToSegment, PublishAfterRefill, LeaveLoop, ActiveWait,
                LoadBalancing, TryLock, ReadMetadata, ReadTasks, UnlockVictim, ReleaseOwn, Finish,
                resultVars, Goto
  <1>3. ASSUME NEW r \in Rank, SubmitArrived(r)
        PROVE  inTransit' \subseteq inTransit
    BY <1>3 DEF SubmitArrived
  <1>4. QED
    BY <1>1, <1>2, <1>3 DEF Next, DetectTermination, Stop, vars, resultVars

LEMMA PlaceNext ==
  ControlInv /\ AlignInv /\ PlaceInv /\ CountInv /\ [Next]_vars => PlaceInv'
  <1> SUFFICES ASSUME ControlInv, AlignInv, PlaceInv, CountInv, [Next]_vars,
                      NEW o \in Rank, NEW i \in Int
               PROVE  OnePlace(o, i)'
    BY BatchesNext DEF PlaceInv
  <1>c. ControlInv'
    BY ControlNext
  <1>t. TypeOK
    BY DEF ControlInv
  <1>o. OnePlace(o, i)
    BY DEF PlaceInv
  <1>1. ASSUME NEW r \in Rank, NEW n \in TaskCounts[r], SetProblem(r, n)
        PROVE  OnePlace(o, i)'
    BY <1>c, <1>1, ProblemPlaces
  <1>2. ASSUME NEW r \in Rank, Program(r), ~ \E n \in TaskCounts[r] : SetProblem(r, n)
        PROVE  OnePlace(o, i)'
    <2>1. nbTask' = nbTask
      BY <1>2 DEF Program, Work, Steal, ParallelWork, WorkBegin, MoveSegmentToDequeue,
                  PublishAfterSelfTheft, InitTmp, ReturnFullTmp, DoNextTask, LockOwnSegment,
                  SwitchOnState, MoveDequeueToSegment, PublishAfterRefill, LeaveLoop, ActiveWait,
                  LoadBalancing, TryLock, ReadMetadata, ReadTasks, UnlockVictim, ReleaseOwn,
                  Finish, resultVars
    <2>2. StaysOrMoves(Places(o, i), Places(o, i)')
      <3>1. CASE \/ ParallelWork(r)
                 \/ WorkBegin(r) \/ LockOwnSegment(r) \/ SwitchOnState(r) \/ ActiveWait(r)
                 \/ PublishAfterSelfTheft(r, "begin_publish", "init")
                 \/ PublishAfterSelfTheft(r, "self_publish", "loop")
                 \/ PublishAfterRefill(r)
                 \/ LoadBalancing(r) \/ (\E v \in Rank : TryLock(r, v))
                 \/ UnlockVictim(r) \/ ReleaseOwn(r)
        BY <1>c, <1>2, <3>1, WordPlaces DEF StaysOrMoves
      <3>2. CASE InitTmp(r) \/ ReadTasks(r) \/ Finish(r)
        BY <1>c, <1>2, <3>2, StillPlaces DEF StaysOrMoves
      <3>3. CASE \/ MoveSegmentToDequeue(r, "begin_move", "begin_publish")
                 \/ MoveSegmentToDequeue(r, "self_move", "self_publish")
        BY <1>c, <1>2, <3>3, SelfTheftPlaces DEF StaysOrMoves
      <3>4. CASE MoveDequeueToSegment(r)
        BY <1>c, <1>2, <3>4, RefillPlaces DEF StaysOrMoves
      <3>5. CASE DoNextTask(r)
        BY <1>c, <1>2, <3>5, DonePlaces DEF StaysOrMoves
      <3>6. CASE ReturnFullTmp(r) \/ LeaveLoop(r)
        BY <1>c, <1>2, <3>6, PushPlaces DEF StaysOrMoves
      <3>7. CASE ReadMetadata(r)
        BY <1>c, <1>2, <3>7, TheftPlaces DEF StaysOrMoves
      <3>8. QED
        BY <1>2, <3>1, <3>2, <3>3, <3>4, <3>5, <3>6, <3>7 DEF Program, Work, Steal
    <2>3. QED
      BY <1>o, <2>1, <2>2, OnePlaceKept
  <1>3. ASSUME NEW r \in Rank, SubmitArrived(r)
        PROVE  OnePlace(o, i)'
    <2>1. nbTask' = nbTask
      BY <1>3 DEF SubmitArrived
    <2>2. PICK b \in inTransit : /\ b.owner = r /\ SubmitResults(r, b.first, b.nb)
                                 /\ inTransit' = inTransit \ {b}
      BY <1>3 DEF SubmitArrived
    <2>3. StaysOrMoves(Places(o, i), Places(o, i)')
      BY <1>t, <1>3, <2>2, ArrivalPlaces DEF StaysOrMoves
    <2>4. QED
      BY <1>o, <2>1, <2>3, OnePlaceKept
  <1>4. ASSUME DetectTermination \/ UNCHANGED vars
        PROVE  OnePlace(o, i)'
    <2>1. UNCHANGED <<pc, state, seg, dq, tmp, target, nbTask, results, inTransit>>
      BY <1>4 DEF DetectTermination, vars, taskVars, resultVars
    <2>2. Places(o, i)' = Places(o, i)
      BY <2>1 DEF Places, AllPlaces, DequeuesWith, SegmentsWith, TmpsWith, BatchesWith, UsersWith,
                  InDequeue, InSegment, InTmp, InBatch, NbDequeue, SegmentLive, Reading
    <2>3. QED
      BY <1>o, <2>1, <2>2 DEF OnePlace
  <1>5. QED
    BY <1>1, <1>2, <1>3, <1>4 DEF Next, Stop, Program

-----------------------------------------------------------------------------
(* Results are counted once *)

\* The numbers in the user's array are those of tasks, so there are at most nbTask of them, and
\* all of them are there when there are nbTask.
LEMMA UserResults ==
  ASSUME TypeOK, PlaceInv, NEW r \in Rank
  PROVE  /\ results[r] \subseteq 0 .. nbTask[r] - 1
         /\ IsFiniteSet(results[r])
         /\ Cardinality(results[r]) \in Nat /\ Cardinality(results[r]) <= nbTask[r]
         /\ Cardinality(results[r]) = nbTask[r] => results[r] = 0 .. nbTask[r] - 1
  <1> DEFINE all == 0 .. nbTask[r] - 1
  <1>1. ASSUME NEW i \in results[r]
        PROVE  i \in all
    <2>1. i \in Int
      BY DEF TypeOK
    <2>2. <<"user", r>> \in Places(r, i)
      BY DEF Places, AllPlaces, UsersWith
    <2>3. QED
      BY <2>1, <2>2 DEF PlaceInv, OnePlace
  <1>2. IsFiniteSet(all) /\ Cardinality(all) = nbTask[r]
    <2>1. nbTask[r] \in Nat
      BY DEF TypeOK
    <2> DEFINE last == nbTask[r] - 1
    <2>2. last \in Int /\ 0 \in Int
      BY <2>1
    <2> HIDE DEF last
    <2>3. IsFiniteSet(0 .. last) /\ Cardinality(0 .. last) = IF 0 > last THEN 0 ELSE last - 0 + 1
      BY <2>2, FS_Interval
    <2>4. Cardinality(0 .. last) = nbTask[r]
      BY <2>1, <2>3 DEF last
    <2>5. QED
      BY <2>3, <2>4 DEF last
  <1>3. results[r] \in SUBSET all
    BY <1>1
  <1>4. QED
    <2> HIDE DEF all
    <2>1. /\ IsFiniteSet(results[r]) /\ Cardinality(results[r]) <= nbTask[r]
          /\ Cardinality(results[r]) = nbTask[r] => results[r] = all
      BY <1>2, <1>3, FS_Subset
    <2>2. Cardinality(results[r]) \in Nat
      BY <2>1, FS_CardinalityType
    <2>3. QED
      BY <1>3, <2>1, <2>2 DEF all

LEMMA CountsAreExact == TypeOK /\ PlaceInv /\ CountInv => CountIsExact
  <1> SUFFICES ASSUME TypeOK, PlaceInv, CountInv, NEW r \in Rank
               PROVE  /\ nbResult[r] <= nbTask[r]
                      /\ nbResult[r] = nbTask[r] => results[r] = 0 .. nbTask[r] - 1
    BY DEF CountIsExact
  <1>1. CASE pc[r] = "idle"
    BY <1>1 DEF CountInv, TypeOK
  <1>2. CASE pc[r] # "idle"
    BY <1>2, UserResults DEF CountInv
  <1>3. QED
    BY <1>1, <1>2

\* Results that are submitted are new, so they are counted once.
LEMMA NewResults ==
  ASSUME TypeOK, NEW r \in Rank, IsFiniteSet(results[r]),
         NEW end \in Int, NEW nb \in Nat, \A i \in Run(end, nb) : i \notin results[r]
  PROVE  Cardinality(results[r] \cup Run(end, nb)) = Cardinality(results[r]) + nb
  <1>1. IsFiniteSet(Run(end, nb)) /\ Cardinality(Run(end, nb)) = nb
    <2>1. end - nb \in Int /\ end - 1 \in Int
      OBVIOUS
    <2>2. /\ IsFiniteSet((end - nb) .. (end - 1))
          /\ Cardinality((end - nb) .. (end - 1)) =
               IF end - nb > end - 1 THEN 0 ELSE (end - 1) - (end - nb) + 1
      BY <2>1, FS_Interval
    <2>3. QED
      BY <2>2 DEF Run
  <1>2. Cardinality(results[r] \cap Run(end, nb)) = 0
    <2>1. results[r] \cap Run(end, nb) = {}
      OBVIOUS
    <2>2. QED
      BY <2>1, FS_EmptySet
  <1>3. Cardinality(results[r]) \in Nat
    BY FS_CardinalityType
  <1>4. Cardinality(results[r] \cup Run(end, nb))
          = Cardinality(results[r]) + Cardinality(Run(end, nb))
            - Cardinality(results[r] \cap Run(end, nb))
    BY <1>1, FS_Union
  <1>5. QED
    BY <1>1, <1>2, <1>3, <1>4

\* A result that is submitted was in a tmp segment or in a batch, so the user does not have it.
LEMMA ElsewhereNotWithUser ==
  ASSUME PlaceInv, NEW r \in Rank, NEW i \in Int,
         (\E s \in Rank : InTmp(s, r, i)) \/ (\E b \in inTransit : InBatch(b, r, i))
  PROVE  i \notin results[r]
  <1> SUFFICES ASSUME i \in results[r] PROVE FALSE
    OBVIOUS
  <1>1. <<"user", r>> \in Places(r, i)
    BY DEF Places, AllPlaces, UsersWith
  <1>2. \E x : <<"tmp", x>> \in Places(r, i) \/ <<"batch", x>> \in Places(r, i)
    BY DEF Places, AllPlaces, TmpsWith, BatchesWith
  <1>3. OnePlace(r, i)
    BY DEF PlaceInv
  <1>4. PICK p : Places(r, i) = {p}
    BY <1>1, <1>3 DEF OnePlace
  <1>5. QED
    BY <1>1, <1>2, <1>4

LEMMA CountNext == TypeOK /\ PlaceInv /\ CountInv /\ [Next]_vars => CountInv'
  <1> SUFFICES ASSUME TypeOK, PlaceInv, CountInv, [Next]_vars PROVE CountInv'
    OBVIOUS
  <1>t. TypeOK /\ TypeOK'
    BY TypeNext
  <1>1. ASSUME NEW r \in Rank, NEW end \in Int, NEW nb \in Nat,
               \A i \in Run(end, nb) : i \notin results[r],
               results' = [results EXCEPT ![r] = @ \cup Run(end, nb)],
               nbResult' = [nbResult EXCEPT ![r] = @ + nb],
               pc[r] # "idle", pc'[r] # "idle", \A s \in Rank : s # r => pc'[s] = pc[s],
               nbTask' = nbTask
        PROVE  CountInv'
    <2>1. Cardinality(results[r] \cup Run(end, nb)) = Cardinality(results[r]) + nb
      BY <1>t, <1>1, UserResults, NewResults
    <2>2. /\ results'[r] = results[r] \cup Run(end, nb) /\ nbResult'[r] = nbResult[r] + nb
          /\ \A s \in Rank : s # r => results'[s] = results[s] /\ nbResult'[s] = nbResult[s]
      BY <1>t, <1>1 DEF TypeOK
    <2>3. QED
      BY <1>1, <2>1, <2>2 DEF CountInv
  <1>2. ASSUME NEW r \in Rank, PushTmpResults(r), pc[r] = "loop",
               pc'[r] # "idle", \A s \in Rank : s # r => pc'[s] = pc[s], nbTask' = nbTask
        PROVE  CountInv'
    <2> DEFINE t == tmp[r]
    <2>1. t.last \in Int /\ t.nb \in Nat
      BY <1>t, CapacityAssumption DEF TypeOK
    <2>2. CASE t.nb = 0 \/ t.owner # r
      <3>1. UNCHANGED <<results, nbResult>>
        BY <1>2, <2>2 DEF PushTmpResults
      <3>2. QED
        BY <1>2, <3>1 DEF CountInv
    <2>3. CASE t.nb # 0 /\ t.owner = r
      <3>1. /\ results' = [results EXCEPT ![r] = @ \cup Run(t.last, t.nb)]
            /\ nbResult' = [nbResult EXCEPT ![r] = @ + t.nb]
        BY <1>t, <1>2, <2>3, PushedResults
      <3>2. \A i \in Run(t.last, t.nb) : i \notin results[r]
        <4>1. ASSUME NEW i \in Run(t.last, t.nb) PROVE i \in Int /\ InTmp(r, r, i)
          BY <2>1, <2>3 DEF InTmp, Run
        <4>2. QED
          BY <4>1, ElsewhereNotWithUser
      <3>3. QED
        BY <1>1, <1>2, <2>1, <3>1, <3>2
    <2>4. QED
      BY <2>2, <2>3
  <1>3. ASSUME NEW r \in Rank, SubmitArrived(r)
        PROVE  CountInv'
    <2>1. PICK b \in inTransit : b.owner = r /\ SubmitResults(r, b.first, b.nb)
      BY <1>3 DEF SubmitArrived
    <2>2. b.first + b.nb \in Int /\ b.nb \in Nat
      BY <1>t DEF TypeOK, Batch
    <2>3. \A i \in Run(b.first + b.nb, b.nb) : i \notin results[r]
      <3>1. ASSUME NEW i \in Run(b.first + b.nb, b.nb) PROVE i \in Int /\ InBatch(b, r, i)
        BY <2>1, <2>2 DEF InBatch, Run
      <3>2. QED
        BY <3>1, ElsewhereNotWithUser
    <2>4. pc[r] # "idle" /\ pc' = pc /\ nbTask' = nbTask
      BY <1>3 DEF SubmitArrived
    <2>5. QED
      BY <1>1, <2>1, <2>2, <2>3, <2>4 DEF SubmitResults
  <1>4. ASSUME NEW r \in Rank, NEW n \in TaskCounts[r], SetProblem(r, n)
        PROVE  CountInv'
    <2>1. /\ pc'[r] = "barrier" /\ results'[r] = {} /\ nbResult'[r] = 0
          /\ \A s \in Rank : s # r => /\ pc'[s] = pc[s] /\ results'[s] = results[s]
                                      /\ nbResult'[s] = nbResult[s] /\ nbTask'[s] = nbTask[s]
      BY <1>t, <1>4 DEF SetProblem, TypeOK, Goto
    <2>2. QED
      BY <2>1, FS_EmptySet DEF CountInv
  <1>5. ASSUME NEW r \in Rank, Finish(r)
        PROVE  CountInv'
    <2>1. results[r] = 0 .. nbTask[r] - 1
      BY <1>5, CountsAreExact DEF Finish, CountIsExact
    <2>2. /\ UNCHANGED <<results, nbTask>> /\ nbResult'[r] = 0 /\ pc'[r] = "idle"
          /\ \A s \in Rank : s # r => pc'[s] = pc[s] /\ nbResult'[s] = nbResult[s]
      BY <1>t, <1>5 DEF Finish, TypeOK, Goto
    <2>3. QED
      BY <2>1, <2>2 DEF CountInv
  <1>6. ASSUME NEW r \in Rank, ReturnFullTmp(r) \/ LeaveLoop(r)
        PROVE  CountInv'
    <2>1. /\ PushTmpResults(r) /\ pc[r] = "loop" /\ pc'[r] # "idle"
          /\ \A s \in Rank : s # r => pc'[s] = pc[s]
          /\ nbTask' = nbTask
      BY <1>t, <1>6 DEF ReturnFullTmp, LeaveLoop, TypeOK, Goto
    <2>2. QED
      BY <1>2, <2>1
  <1>7. ASSUME NEW r \in Rank, Program(r), ~ Finish(r), ~ ReturnFullTmp(r), ~ LeaveLoop(r),
               ~ \E n \in TaskCounts[r] : SetProblem(r, n)
        PROVE  CountInv'
    <2>1. /\ UNCHANGED <<results, nbResult, nbTask>>
          /\ \A s \in Rank : pc'[s] = "idle" <=> pc[s] = "idle"
      <3>1. CASE \/ ParallelWork(r) \/ WorkBegin(r) \/ InitTmp(r) \/ DoNextTask(r)
                 \/ LockOwnSegment(r) \/ SwitchOnState(r) \/ ActiveWait(r)
        BY <1>t, <3>1 DEF ParallelWork, WorkBegin, InitTmp, DoNextTask, LockOwnSegment,
              SwitchOnState, ActiveWait, TypeOK, Goto, resultVars
      <3>2. CASE \/ MoveSegmentToDequeue(r, "begin_move", "begin_publish")
                 \/ MoveSegmentToDequeue(r, "self_move", "self_publish")
                 \/ PublishAfterSelfTheft(r, "begin_publish", "init")
                 \/ PublishAfterSelfTheft(r, "self_publish", "loop")
                 \/ MoveDequeueToSegment(r) \/ PublishAfterRefill(r)
        BY <1>t, <3>2 DEF MoveSegmentToDequeue, PublishAfterSelfTheft, MoveDequeueToSegment,
              PublishAfterRefill, TypeOK, Goto, resultVars
      <3>3. CASE Steal(r)
        BY <1>t, <3>3 DEF Steal, LoadBalancing, TryLock, ReadMetadata, ReadTasks, UnlockVictim,
              ReleaseOwn, TypeOK, Goto, resultVars
      <3>4. QED
        BY <1>7, <3>1, <3>2, <3>3 DEF Program, Work
    <2>2. QED
      BY <2>1 DEF CountInv
  <1>8. CASE DetectTermination \/ UNCHANGED vars
    BY <1>8 DEF DetectTermination, vars, resultVars, CountInv
  <1>9. QED
    BY <1>3, <1>4, <1>5, <1>6, <1>7, <1>8 DEF Next, Stop, Program

LEMMA CountInit == Init => CountInv
  BY DEF Init, CountInv

-----------------------------------------------------------------------------
(* The theorems *)

FullTaskInv == ControlInv /\ AlignInv /\ PlaceInv /\ CountInv

LEMMA FullTaskCorrect == Spec => []FullTaskInv
  <1>1. Init => FullTaskInv
    BY ControlInit, AlignInit, PlaceInit, CountInit DEF FullTaskInv
  <1>2. FullTaskInv /\ [Next]_vars => FullTaskInv'
    BY ControlNext, AlignNext, PlaceNext, CountNext DEF FullTaskInv, ControlInv
  <1>3. QED
    BY <1>1, <1>2, PTL DEF Spec

\* Whatever the interleaving of refills, self-thefts and thefts, of any number of ranks, each
\* task is in one dequeue or segment, or its result in one tmp segment, one batch on its way or
\* the user's array: no task is lost and none is done twice.
THEOREM TasksInOnePlace == Spec => []EveryTaskOnce
  <1>1. FullTaskInv => EveryTaskOnce
    <2> SUFFICES ASSUME FullTaskInv, NEW o \in Rank, NEW i \in 0 .. nbTask[o] - 1
                 PROVE  \E p \in Places(o, i) : Places(o, i) = {p}
      BY DEF EveryTaskOnce
    <2>1. i \in Int
      BY DEF FullTaskInv, ControlInv, TypeOK
    <2>2. QED
      BY <2>1 DEF FullTaskInv, PlaceInv, OnePlace
  <1>2. QED
    BY <1>1, FullTaskCorrect, PTL

\* A rank never counts more results than it has tasks, and when it has counted them all, all of
\* them are in the user's array: the condition on which it takes part in termination detection.
THEOREM ResultsCountedOnce == Spec => []CountIsExact
  <1>1. FullTaskInv => CountIsExact
    BY CountsAreExact DEF FullTaskInv, ControlInv
  <1>2. QED
    BY <1>1, FullTaskCorrect, PTL

-----------------------------------------------------------------------------
(* Sessions: whoever leaves one, leaves it complete *)

LEMMA SessionInit == Init => SessionInv
  BY DEF Init, SessionInv

\* What the steps other than set_problem and detection do to the variables of the session.
LEMMA SessionFrame ==
  ASSUME TypeOK, NEW r \in Rank, Program(r) \/ SubmitArrived(r),
         ~ \E n \in TaskCounts[r] : SetProblem(r, n)
  PROVE  /\ UNCHANGED <<session, terminated, nbTask>>
         /\ \A s \in Rank : results[s] \subseteq results'[s]
         /\ \A s \in Rank : pc'[s] = pc[s] \/ s = r
         /\ pc[r] \in {"idle", "barrier"} /\ pc'[r] \notin {"idle", "barrier"}
              => \A s \in Rank : session[s] >= session[r]
  <1> USE DEF TypeOK, Goto, resultVars
  <1>1. CASE ParallelWork(r)
    BY <1>1 DEF ParallelWork
  <1>2. ASSUME PushTmpResults(r)
        PROVE  \A s \in Rank : results[s] \subseteq results'[s]
    <2>1. results' = results \/ \E S : results' = [results EXCEPT ![r] = @ \cup S]
      BY <1>2 DEF PushTmpResults, SubmitResults
    <2>2. ASSUME NEW S, results' = [results EXCEPT ![r] = @ \cup S], NEW s \in Rank
          PROVE  results[s] \subseteq results'[s]
      BY <2>2
    <2>3. QED
      BY <2>1, <2>2
  <1>3. CASE ReturnFullTmp(r) \/ LeaveLoop(r)
    BY <1>2, <1>3 DEF ReturnFullTmp, LeaveLoop
  <1>4. CASE SubmitArrived(r)
    BY <1>4 DEF SubmitArrived, SubmitResults
  <1>5. CASE \/ WorkBegin(r) \/ InitTmp(r) \/ DoNextTask(r) \/ LockOwnSegment(r)
             \/ SwitchOnState(r) \/ ActiveWait(r) \/ Finish(r)
    BY <1>5 DEF WorkBegin, InitTmp, DoNextTask, LockOwnSegment, SwitchOnState, ActiveWait, Finish
  <1>6. CASE \/ MoveSegmentToDequeue(r, "begin_move", "begin_publish")
             \/ MoveSegmentToDequeue(r, "self_move", "self_publish")
             \/ PublishAfterSelfTheft(r, "begin_publish", "init")
             \/ PublishAfterSelfTheft(r, "self_publish", "loop")
             \/ MoveDequeueToSegment(r) \/ PublishAfterRefill(r)
    BY <1>6 DEF MoveSegmentToDequeue, PublishAfterSelfTheft, MoveDequeueToSegment,
                PublishAfterRefill
  <1>7. CASE Steal(r)
    BY <1>7 DEF Steal, LoadBalancing, TryLock, ReadMetadata, ReadTasks, UnlockVictim, ReleaseOwn
  <1>8. QED
    BY <1>1, <1>3, <1>4, <1>5, <1>6, <1>7 DEF Program, Work

LEMMA SessionNext ==
  FullTaskInv /\ FullTaskInv' /\ SessionInv /\ [Next]_vars => SessionInv'
  <1> SUFFICES ASSUME FullTaskInv, FullTaskInv', SessionInv, [Next]_vars PROVE SessionInv'
    OBVIOUS
  <1>t. TypeOK /\ TypeOK' /\ PlaceInv' /\ CountIsExact
    BY CountsAreExact DEF FullTaskInv, ControlInv
  <1>1. ASSUME NEW r \in Rank, NEW n \in TaskCounts[r], SetProblem(r, n)
        PROVE  SessionInv'
    <2>1. /\ pc'[r] = "barrier" /\ ~ terminated'[r] /\ session'[r] = session[r] + 1
          /\ \A s \in Rank \ {r} : /\ pc'[s] = pc[s] /\ terminated'[s] = terminated[s]
                                   /\ session'[s] = session[s] /\ results'[s] = results[s]
                                   /\ nbTask'[s] = nbTask[s]
      BY <1>t, <1>1 DEF SetProblem, TypeOK, Goto
    <2>2. \A s \in Rank : session[s] \in Nat
      BY <1>t DEF TypeOK
    <2>3. QED
      BY <2>1, <2>2 DEF SessionInv
  <1>2. ASSUME NEW r \in Rank, Program(r) \/ SubmitArrived(r),
               ~ \E n \in TaskCounts[r] : SetProblem(r, n)
        PROVE  SessionInv'
    <2>1. /\ UNCHANGED <<session, terminated, nbTask>>
          /\ \A s \in Rank : results[s] \subseteq results'[s]
          /\ \A s \in Rank : pc'[s] = pc[s] \/ s = r
          /\ pc[r] \in {"idle", "barrier"} /\ pc'[r] \notin {"idle", "barrier"}
               => \A s \in Rank : session[s] >= session[r]
      BY <1>t, <1>2, SessionFrame
    <2>2. ASSUME NEW s \in Rank, results[s] = 0 .. nbTask[s] - 1
          PROVE  results'[s] = 0 .. nbTask'[s] - 1
      <3>1. results'[s] \subseteq 0 .. nbTask'[s] - 1
        <4>1. ASSUME NEW i \in results'[s] PROVE i \in 0 .. nbTask'[s] - 1
          <5>1. i \in Int
            BY <1>t DEF TypeOK
          <5>2. <<"user", s>> \in Places(s, i)'
            BY DEF Places, AllPlaces, UsersWith
          <5>3. QED
            BY <1>t, <5>1, <5>2 DEF PlaceInv, OnePlace
        <4>2. QED
          BY <4>1
      <3>2. QED
        BY <2>1, <2>2, <3>1
    <2>3. QED
      BY <2>1, <2>2 DEF SessionInv
  <1>3. CASE DetectTermination
    <2>1. /\ UNCHANGED <<pc, session, results, nbTask>>
          /\ \A r \in Rank : pc[r] \notin {"idle", "barrier"} /\ nbResult[r] = nbTask[r]
      BY <1>3 DEF DetectTermination, resultVars
    <2>2. \A r \in Rank : results[r] = 0 .. nbTask[r] - 1
      BY <1>t, <2>1 DEF CountIsExact
    <2>3. \A r, s \in Rank : session[s] >= session[r]
      BY <2>1 DEF SessionInv
    <2>4. \A r \in Rank : terminated'[r] = TRUE
      BY <1>3 DEF DetectTermination
    <2>5. QED
      BY <2>1, <2>2, <2>3, <2>4 DEF SessionInv
  <1>4. CASE UNCHANGED vars
    BY <1>4 DEF vars, resultVars, SessionInv
  <1>5. QED
    BY <1>1, <1>2, <1>3, <1>4 DEF Next, Stop, Program

-----------------------------------------------------------------------------
(* What the pool sees: todo and done, task by task *)

TodoAt(s) == {p \in Rank \X Int : InDequeue(s, p[1], p[2]) \/ InSegment(s, p[1], p[2])}

DoneAll == {p \in Rank \X Int : \/ \E s \in Rank : InTmp(s, p[1], p[2])
                                \/ \E b \in inTransit : InBatch(b, p[1], p[2])}

LEMMA RunOfTasks ==
  ASSUME NEW o \in Rank, NEW end \in Int, NEW nb \in Int
  PROVE  /\ TasksOfRun(o, end, nb) = {p \in Rank \X Int : o = p[1] /\ p[2] \in Run(end, nb)}
         /\ TasksOfRun(o, end, nb) \subseteq Rank \X Int
  BY DEF TasksOfRun, Run

LEMMA TodoIs == TypeOK => poolTodo = [s \in Rank |-> TodoAt(s)]
  <1> SUFFICES ASSUME TypeOK, NEW s \in Rank PROVE poolTodo[s] = TodoAt(s)
    BY DEF poolTodo
  <1> DEFINE D == TasksOfRun(dq[s].owner, dq[s].end, NbDequeue(s))
             S == TasksOfRun(seg[s].owner, seg[s].end, seg[s].nb)
  <1>1. /\ dq[s].owner \in Rank /\ dq[s].end \in Int /\ NbDequeue(s) \in Int
        /\ seg[s].owner \in Rank /\ seg[s].end \in Int /\ seg[s].nb \in Int
    BY CapacityAssumption DEF TypeOK, NbDequeue
  <1>2. /\ D = {p \in Rank \X Int : dq[s].owner = p[1] /\ p[2] \in Run(dq[s].end, NbDequeue(s))}
        /\ S = {p \in Rank \X Int : seg[s].owner = p[1] /\ p[2] \in Run(seg[s].end, seg[s].nb)}
    BY <1>1, RunOfTasks
  <1>3. poolTodo[s] = D \cup IF SegmentLive(s) THEN S ELSE {}
    BY DEF poolTodo
  <1> HIDE DEF D, S
  <1>4. QED
    BY <1>2, <1>3 DEF TodoAt, InDequeue, InSegment

\* A tmp segment that has results names the rank that owns them.
LEMMA TmpOwner ==
  ASSUME ControlInv, AlignInv, NEW r \in Rank
  PROVE  /\ tmp[r].nb # 0 => tmp[r].owner \in Rank
         /\ tmp[r].nb \in Nat /\ tmp[r].last \in Int
  <1>1. tmp[r].nb \in Nat /\ tmp[r].last \in Int /\ dq[r].owner \in Rank
    BY CapacityAssumption DEF ControlInv, TypeOK
  <1>2. tmp[r].nb # 0 => Batching(r)
    BY <1>1 DEF ControlInv, LocalInv
  <1>3. QED
    BY <1>1, <1>2 DEF AlignInv, Aligned, BatchAligned

LEMMA DoneIs == FullTaskInv => poolDone = DoneAll
  <1> SUFFICES ASSUME ControlInv, AlignInv, PlaceInv PROVE poolDone = DoneAll
    BY DEF FullTaskInv
  <1>1. ASSUME NEW r \in Rank
        PROVE  TasksOfRun(tmp[r].owner, tmp[r].last, tmp[r].nb)
                 = {p \in Rank \X Int : InTmp(r, p[1], p[2])}
    <2>1. tmp[r].nb \in Nat /\ tmp[r].last \in Int
      BY TmpOwner
    <2>2. CASE tmp[r].nb = 0
      <3>1. Run(tmp[r].last, tmp[r].nb) = {}
        BY <2>1, <2>2, EmptyRun
      <3>2. QED
        BY <3>1 DEF TasksOfRun, InTmp
    <2>3. CASE tmp[r].nb # 0
      <3>1. tmp[r].owner \in Rank
        BY <2>3, TmpOwner
      <3>2. QED
        BY <2>1, <3>1, RunOfTasks DEF InTmp
    <2>4. QED
      BY <2>2, <2>3
  <1>2. ASSUME NEW b \in inTransit
        PROVE  TasksOfRun(b.owner, b.first + b.nb, b.nb)
                 = {p \in Rank \X Int : InBatch(b, p[1], p[2])}
    <2>1. b.owner \in Rank /\ b.first + b.nb \in Int /\ b.nb \in Int
      BY DEF PlaceInv, ControlInv, TypeOK, Batch
    <2>2. QED
      BY <2>1, RunOfTasks DEF InBatch
  <1> DEFINE TmpRuns   == {TasksOfRun(tmp[r].owner, tmp[r].last, tmp[r].nb) : r \in Rank}
             BatchRuns == {TasksOfRun(b.owner, b.first + b.nb, b.nb) : b \in inTransit}
  <1>3. poolDone = (UNION TmpRuns) \cup (UNION BatchRuns)
    BY DEF poolDone
  <1>4. \A p : p \in UNION TmpRuns <=>
                 \E r \in Rank : p \in TasksOfRun(tmp[r].owner, tmp[r].last, tmp[r].nb)
    OBVIOUS
  <1>5. \A p : p \in UNION BatchRuns <=>
                 \E b \in inTransit : p \in TasksOfRun(b.owner, b.first + b.nb, b.nb)
    OBVIOUS
  <1>6. \A p : p \in poolDone <=> p \in DoneAll
    <2>1. \A p : p \in UNION TmpRuns <=> p \in Rank \X Int /\ \E r \in Rank : InTmp(r, p[1], p[2])
      BY <1>1, <1>4
    <2>2. \A p : p \in UNION BatchRuns
                   <=> p \in Rank \X Int /\ \E b \in inTransit : InBatch(b, p[1], p[2])
      BY <1>2, <1>5
    <2> HIDE DEF TmpRuns, BatchRuns
    <2>3. \A p : p \in DoneAll <=> /\ p \in Rank \X Int
                                   /\ \/ \E r \in Rank : InTmp(r, p[1], p[2])
                                      \/ \E b \in inTransit : InBatch(b, p[1], p[2])
      BY Zenon DEF DoneAll
    <2>4. \A p : p \in poolDone <=> p \in UNION TmpRuns \/ p \in UNION BatchRuns
      BY <1>3
    <2>5. QED
      BY <2>1, <2>2, <2>3, <2>4, Zenon
  <1>7. QED
    BY <1>6

-----------------------------------------------------------------------------
(* From the places of a task to the sets of the pool *)

Tasks == Rank \X Int

\* What the pool sees of the places P of a task.
AsTodo(P, s) == <<"dequeue", s>> \in P \/ <<"segment", s>> \in P
AsDone(P)    == (\E s \in Rank : <<"tmp", s>> \in P) \/ \E b : <<"batch", b>> \in P

LEMMA PlaceViews ==
  ASSUME NEW o, NEW i
  PROVE  /\ \A s \in Rank : AsTodo(Places(o, i), s) <=> InDequeue(s, o, i) \/ InSegment(s, o, i)
         /\ AsDone(Places(o, i)) <=> \/ \E s \in Rank : InTmp(s, o, i)
                                     \/ \E b \in inTransit : InBatch(b, o, i)
  <1>1. Places(o, i) = ({"dequeue"} \X DequeuesWith(o, i)) \cup ({"segment"} \X SegmentsWith(o, i))
                        \cup ({"tmp"} \X TmpsWith(o, i)) \cup ({"batch"} \X BatchesWith(o, i))
                        \cup ({"user"} \X UsersWith(o, i))
    BY DEF Places, AllPlaces
  <1>2. \A x : /\ <<"dequeue", x>> \in Places(o, i) <=> x \in DequeuesWith(o, i)
               /\ <<"segment", x>> \in Places(o, i) <=> x \in SegmentsWith(o, i)
               /\ <<"tmp", x>> \in Places(o, i) <=> x \in TmpsWith(o, i)
               /\ <<"batch", x>> \in Places(o, i) <=> x \in BatchesWith(o, i)
    BY <1>1
  <1>3. \A s \in Rank : /\ InDequeue(s, o, i) <=> s \in DequeuesWith(o, i)
                        /\ InSegment(s, o, i) <=> s \in SegmentsWith(o, i)
                        /\ InTmp(s, o, i) <=> s \in TmpsWith(o, i)
    BY DEF DequeuesWith, SegmentsWith, TmpsWith
  <1>4. \A b : b \in inTransit /\ InBatch(b, o, i) <=> b \in BatchesWith(o, i)
    BY DEF BatchesWith
  <1>5. QED
    BY <1>2, <1>3, <1>4 DEF AsTodo, AsDone

\* The places of all tasks, and the pool that they make.
placeOf == [t \in Tasks |-> Places(t[1], t[2])]

TodoOf(P) == [s \in Rank |-> {t \in Tasks : AsTodo(P[t], s)}]
DoneOf(P) == {t \in Tasks : AsDone(P[t])}

Single(P) == \A t \in Tasks : \A p \in P[t] : P[t] = {p}

LEMMA PoolIs ==
  FullTaskInv => poolTodo = TodoOf(placeOf) /\ poolDone = DoneOf(placeOf) /\ Single(placeOf)
  <1> SUFFICES ASSUME FullTaskInv
               PROVE  poolTodo = TodoOf(placeOf) /\ poolDone = DoneOf(placeOf) /\ Single(placeOf)
    OBVIOUS
  <1>1. poolTodo = [s \in Rank |-> TodoAt(s)] /\ poolDone = DoneAll
    BY TodoIs, DoneIs DEF FullTaskInv, ControlInv
  <1>2. ASSUME NEW t \in Tasks
        PROVE  /\ \A s \in Rank : AsTodo(placeOf[t], s)
                                    <=> InDequeue(s, t[1], t[2]) \/ InSegment(s, t[1], t[2])
               /\ AsDone(placeOf[t]) <=> \/ \E s \in Rank : InTmp(s, t[1], t[2])
                                         \/ \E b \in inTransit : InBatch(b, t[1], t[2])
    <2>1. placeOf[t] = Places(t[1], t[2])
      BY DEF placeOf
    <2>2. QED
      BY <2>1, PlaceViews
  <1>3. \A s \in Rank : TodoAt(s) = {t \in Tasks : AsTodo(placeOf[t], s)}
    BY <1>2 DEF TodoAt, Tasks
  <1>4. DoneAll = {t \in Tasks : AsDone(placeOf[t])}
    BY <1>2 DEF DoneAll, Tasks
  <1>5. Single(placeOf)
    <2>1. ASSUME NEW t \in Tasks, NEW p \in Places(t[1], t[2])
          PROVE  Places(t[1], t[2]) = {p}
      <3>1. OnePlace(t[1], t[2])
        BY DEF FullTaskInv, PlaceInv, Tasks
      <3>2. QED
        BY <3>1, <2>1 DEF OnePlace
    <2>2. QED
      BY <2>1 DEF Single, placeOf
  <1>6. QED
    BY <1>1, <1>3, <1>4, <1>5 DEF TodoOf, DoneOf

LEMMA PoolIsNext ==
  FullTaskInv' => /\ poolTodo' = TodoOf(placeOf') /\ poolDone' = DoneOf(placeOf')
                  /\ Single(placeOf')
  <1>1. FullTaskInv'
          => (poolTodo = TodoOf(placeOf) /\ poolDone = DoneOf(placeOf) /\ Single(placeOf))'
    BY PoolIs, PTL
  <1>2. QED
    BY <1>1 DEF TodoOf, DoneOf, Single, AsTodo, AsDone

-----------------------------------------------------------------------------
(* What the moves of tasks are to the pool *)

LEMMA ViewOfPlace ==
  ASSUME NEW x, NEW s \in Rank
  PROVE  /\ AsTodo({<<"dequeue", x>>}, s) <=> x = s
         /\ AsTodo({<<"segment", x>>}, s) <=> x = s
         /\ ~ AsTodo({<<"tmp", x>>}, s) /\ ~ AsTodo({<<"batch", x>>}, s) /\ ~ AsTodo({<<"user", x>>}, s)
         /\ ~ AsDone({<<"dequeue", x>>}) /\ ~ AsDone({<<"segment", x>>}) /\ ~ AsDone({<<"user", x>>})
         /\ AsDone({<<"tmp", s>>}) /\ AsDone({<<"batch", x>>})
  BY DEF AsTodo, AsDone

LEMMA MovedOnly ==
  ASSUME NEW P, NEW Q, Single(P)
  PROVE  \A t \in Tasks : \A p, q : Moves(P[t], Q[t], p, q) => P[t] = {p} /\ Q[t] = {q}
  BY DEF Moves, Single

\* the moves the pool does not see
Unseen(P, Q) ==
  \/ Q = P
  \/ \E r \in Rank : \/ Moves(P, Q, <<"segment", r>>, <<"dequeue", r>>)
                     \/ Moves(P, Q, <<"dequeue", r>>, <<"segment", r>>)
                     \/ \E b : Moves(P, Q, <<"tmp", r>>, <<"batch", b>>)

LEMMA PoolUnchanged ==
  ASSUME NEW P, NEW Q, Single(P), \A t \in Tasks : Unseen(P[t], Q[t])
  PROVE  TodoOf(Q) = TodoOf(P) /\ DoneOf(Q) = DoneOf(P)
  <1>1. ASSUME NEW t \in Tasks, NEW s \in Rank
        PROVE  /\ AsTodo(Q[t], s) <=> AsTodo(P[t], s)
               /\ AsDone(Q[t]) <=> AsDone(P[t])
    <2>1. ASSUME NEW r \in Rank, NEW b, NEW p, NEW q, Moves(P[t], Q[t], p, q),
                 \/ p = <<"segment", r>> /\ q = <<"dequeue", r>>
                 \/ p = <<"dequeue", r>> /\ q = <<"segment", r>>
                 \/ p = <<"tmp", r>> /\ q = <<"batch", b>>
          PROVE  /\ AsTodo(Q[t], s) <=> AsTodo(P[t], s)
                 /\ AsDone(Q[t]) <=> AsDone(P[t])
      <3>1. P[t] = {p} /\ Q[t] = {q}
        BY SMTT(30), <2>1, MovedOnly
      <3>2. /\ AsTodo({q}, s) <=> AsTodo({p}, s)
            /\ AsDone({q}) <=> AsDone({p})
        BY <2>1, ViewOfPlace
      <3>3. QED
        BY <3>1, <3>2
    <2>2. CASE Q[t] = P[t]
      BY <2>2
    <2>3. Unseen(P[t], Q[t])
      OBVIOUS
    <2>4. QED
      BY <2>1, <2>2, <2>3 DEF Unseen
  <1>2. \E s : s \in Rank
    BY RankAssumption DEF Rank
  <1>3. QED
    BY <1>1, <1>2 DEF TodoOf, DoneOf

\* The task d of r is done.
LEMMA PoolDoes ==
  ASSUME NEW P, NEW Q, Single(P), NEW r \in Rank, NEW d \in Tasks,
         Moves(P[d], Q[d], <<"dequeue", r>>, <<"tmp", r>>),
         \A t \in Tasks \ {d} : Q[t] = P[t]
  PROVE  /\ d \in TodoOf(P)[r]
         /\ TodoOf(Q) = [TodoOf(P) EXCEPT ![r] = @ \ {d}]
         /\ DoneOf(Q) = DoneOf(P) \cup {d}
  <1>1. P[d] = {<<"dequeue", r>>} /\ Q[d] = {<<"tmp", r>>}
    BY SMTT(30), MovedOnly
  <1>2. ASSUME NEW s \in Rank
        PROVE  (AsTodo(P[d], s) <=> s = r) /\ ~ AsTodo(Q[d], s)
    <2>1. (AsTodo({<<"dequeue", r>>}, s) <=> r = s) /\ ~ AsTodo({<<"tmp", r>>}, s)
      BY ViewOfPlace
    <2>2. QED
      BY <1>1, <2>1
  <1>3. AsDone(Q[d])
    <2>1. AsDone({<<"tmp", r>>})
      BY ViewOfPlace
    <2>2. QED
      BY <1>1, <2>1
  <1>4. \A s \in Rank : TodoOf(Q)[s] = IF s = r THEN TodoOf(P)[s] \ {d} ELSE TodoOf(P)[s]
    BY <1>2 DEF TodoOf
  <1>5. d \in TodoOf(P)[r]
    BY <1>2 DEF TodoOf
  <1>6. DoneOf(Q) = DoneOf(P) \cup {d}
    BY <1>3 DEF DoneOf
  <1>7. QED
    BY <1>4, <1>5, <1>6 DEF TodoOf

\* Results S of r, all in its tmp segment or in one batch, are submitted.
LEMMA PoolDelivers ==
  ASSUME NEW P, NEW Q, Single(P), NEW r \in Rank, NEW S \in SUBSET Tasks,
         NEW p, p = <<"tmp", r>> \/ \E b : p = <<"batch", b>>,
         \A t \in S : Moves(P[t], Q[t], p, <<"user", r>>),
         \A t \in Tasks \ S : Q[t] = P[t]
  PROVE  S \subseteq DoneOf(P) /\ TodoOf(Q) = TodoOf(P) /\ DoneOf(Q) = DoneOf(P) \ S
  <1>1. ASSUME NEW t \in S, NEW s \in Rank
        PROVE  /\ ~ AsTodo(P[t], s) /\ ~ AsTodo(Q[t], s)
               /\ AsDone(P[t]) /\ ~ AsDone(Q[t])
    <2>1. P[t] = {p} /\ Q[t] = {<<"user", r>>}
      BY SMTT(30), MovedOnly
    <2>2. ~ AsTodo({p}, s) /\ AsDone({p})
      BY ViewOfPlace
    <2>3. ~ AsTodo({<<"user", r>>}, s) /\ ~ AsDone({<<"user", r>>})
      BY ViewOfPlace
    <2>4. QED
      BY <2>1, <2>2, <2>3
  <1>2. QED
    BY <1>1 DEF TodoOf, DoneOf

\* A theft moves the tasks S of the victim's segment to those of the thief.
LEMMA PoolSteals ==
  ASSUME NEW P, NEW Q, Single(P), NEW r \in Rank, NEW v \in Rank, v # r, NEW S \in SUBSET Tasks,
         \A t \in S : Moves(P[t], Q[t], <<"segment", v>>, <<"segment", r>>),
         \A t \in Tasks \ S : Q[t] = P[t],
         TodoOf(P)[r] = {}
  PROVE  /\ S \subseteq TodoOf(P)[v]
         /\ TodoOf(Q) = [TodoOf(P) EXCEPT ![v] = @ \ S, ![r] = S]
         /\ DoneOf(Q) = DoneOf(P)
  <1>1. ASSUME NEW t \in S, NEW s \in Rank
        PROVE  /\ AsTodo(P[t], s) <=> s = v
               /\ AsTodo(Q[t], s) <=> s = r
               /\ ~ AsDone(P[t]) /\ ~ AsDone(Q[t])
    <2>1. Moves(P[t], Q[t], <<"segment", v>>, <<"segment", r>>)
      OBVIOUS
    <2>2. P[t] = {<<"segment", v>>} /\ Q[t] = {<<"segment", r>>}
      BY <2>1 DEF Moves, Single
    <2>3. /\ AsTodo({<<"segment", v>>}, s) <=> v = s
          /\ AsTodo({<<"segment", r>>}, s) <=> r = s
          /\ ~ AsDone({<<"segment", v>>}) /\ ~ AsDone({<<"segment", r>>})
      BY ViewOfPlace
    <2>4. QED
      BY <2>2, <2>3
  <1>2. \A s \in Rank : TodoOf(Q)[s] = IF s = r THEN S
                                       ELSE IF s = v THEN TodoOf(P)[v] \ S ELSE TodoOf(P)[s]
    <2>1. \A t \in Tasks : ~ AsTodo(P[t], r)
      BY DEF TodoOf
    <2>2. QED
      BY <1>1, <2>1 DEF TodoOf
  <1>3. QED
    BY ZenonT(60), <1>1, <1>2 DEF TodoOf, DoneOf

-----------------------------------------------------------------------------
(* The steps of the protocol, seen from the pool *)

LEMMA PlaceOfTask ==
  \A t \in Tasks : /\ placeOf[t] = Places(t[1], t[2]) /\ placeOf'[t] = Places(t[1], t[2])'
                   /\ t[1] \in Rank /\ t[2] \in Int /\ t = <<t[1], t[2]>>
  BY DEF placeOf, Tasks

\* The tasks of a new problem are to be done by the rank that sets it, which had none.
LEMMA PoolBegins ==
  ASSUME FullTaskInv, FullTaskInv', NEW r \in Rank, NEW n \in TaskCounts[r], SetProblem(r, n)
  PROVE  /\ poolTodo' = [poolTodo EXCEPT ![r] = {r} \X (0 .. n - 1)]
         /\ poolDone' = poolDone
  <1>n. n \in Nat
    BY CountsAssumption
  <1>1. ASSUME NEW o \in Rank, NEW i \in Int, NEW s \in Rank
        PROVE  /\ InDequeue(s, o, i)' \/ InSegment(s, o, i)'
                    <=> IF s = r THEN o = r /\ i \in 0 .. n - 1
                        ELSE InDequeue(s, o, i) \/ InSegment(s, o, i)
               /\ InTmp(s, o, i)' <=> InTmp(s, o, i)
    <2>1. /\ DequeuesWith(o, i)' = IF o = r /\ i \in 0 .. n - 1 THEN DequeuesWith(o, i) \cup {r}
                                                                ELSE DequeuesWith(o, i)
          /\ SegmentsWith(o, i)' = SegmentsWith(o, i)
          /\ TmpsWith(o, i)' = TmpsWith(o, i)
          /\ r \notin DequeuesWith(o, i) /\ r \notin SegmentsWith(o, i)
      BY ProblemMoves DEF FullTaskInv
    <2>2. /\ InDequeue(s, o, i) <=> s \in DequeuesWith(o, i)
          /\ InSegment(s, o, i) <=> s \in SegmentsWith(o, i)
          /\ InTmp(s, o, i) <=> s \in TmpsWith(o, i)
          /\ InDequeue(s, o, i)' <=> s \in DequeuesWith(o, i)'
          /\ InSegment(s, o, i)' <=> s \in SegmentsWith(o, i)'
          /\ InTmp(s, o, i)' <=> s \in TmpsWith(o, i)'
      BY DEF DequeuesWith, SegmentsWith, TmpsWith
    <2>3. QED
      BY <2>1, <2>2
  <1>2. \A o, i : \A b : InBatch(b, o, i)' <=> InBatch(b, o, i)
    BY DEF InBatch
  <1>3. inTransit' = inTransit
    BY DEF SetProblem
  <1>4. /\ poolTodo = [s \in Rank |-> TodoAt(s)] /\ poolDone = DoneAll
        /\ poolTodo' = [s \in Rank |-> TodoAt(s)'] /\ poolDone' = DoneAll'
    <2>1. FullTaskInv => poolTodo = [s \in Rank |-> TodoAt(s)] /\ poolDone = DoneAll
      BY TodoIs, DoneIs DEF FullTaskInv, ControlInv
    <2>2. FullTaskInv' => (poolTodo = [s \in Rank |-> TodoAt(s)] /\ poolDone = DoneAll)'
      BY <2>1, TodoIs, DoneIs, PTL DEF FullTaskInv, ControlInv
    <2>3. QED
      BY <2>1, <2>2
  <1>5. \A s \in Rank : TodoAt(s)' = IF s = r THEN {r} \X (0 .. n - 1) ELSE TodoAt(s)
    <2>1. \A i \in 0 .. n - 1 : i \in Int
      BY <1>n
    <2>2. \A s \in Rank \ {r} : TodoAt(s)' = TodoAt(s)
      BY <1>1 DEF TodoAt
    <2>3. TodoAt(r)' = {r} \X (0 .. n - 1)
      BY <1>1, <2>1 DEF TodoAt
    <2>4. QED
      BY <2>2, <2>3
  <1>6. DoneAll' = DoneAll
    BY <1>1, <1>2, <1>3 DEF DoneAll
  <1>7. QED
    BY <1>4, <1>5, <1>6

\* The steps that the pool does not see.
LEMMA PoolStutters ==
  ASSUME FullTaskInv, FullTaskInv',
         \A o \in Rank : \A i \in Int : Unseen(Places(o, i), Places(o, i)')
  PROVE  UNCHANGED <<poolTodo, poolDone>>
  <1>1. \A t \in Tasks : Unseen(placeOf[t], placeOf'[t])
    BY PlaceOfTask
  <1>2. Single(placeOf)
    BY PoolIs
  <1>3. TodoOf(placeOf') = TodoOf(placeOf) /\ DoneOf(placeOf') = DoneOf(placeOf)
    BY <1>1, <1>2, PoolUnchanged
  <1>4. QED
    BY <1>3, PoolIs, PoolIsNext

LEMMA PoolQuiet ==
  ASSUME FullTaskInv, FullTaskInv', NEW r \in Rank, Program(r),
         \/ ParallelWork(r)
         \/ WorkBegin(r) \/ LockOwnSegment(r) \/ SwitchOnState(r) \/ ActiveWait(r)
         \/ PublishAfterSelfTheft(r, "begin_publish", "init")
         \/ PublishAfterSelfTheft(r, "self_publish", "loop")
         \/ PublishAfterRefill(r)
         \/ LoadBalancing(r) \/ (\E v \in Rank : TryLock(r, v))
         \/ UnlockVictim(r) \/ ReleaseOwn(r)
         \/ InitTmp(r) \/ ReadTasks(r) \/ Finish(r)
         \/ MoveSegmentToDequeue(r, "begin_move", "begin_publish")
         \/ MoveSegmentToDequeue(r, "self_move", "self_publish")
         \/ MoveDequeueToSegment(r)
         \/ (ReturnFullTmp(r) \/ LeaveLoop(r)) /\ (tmp[r].nb = 0 \/ tmp[r].owner # r)
  PROVE  UNCHANGED <<poolTodo, poolDone>>
  <1>c. ControlInv /\ ControlInv'
    BY DEF FullTaskInv
  <1> SUFFICES ASSUME NEW o \in Rank, NEW i \in Int
               PROVE  Unseen(Places(o, i), Places(o, i)')
    BY PoolStutters
  <1>1. CASE \/ ParallelWork(r)
             \/ WorkBegin(r) \/ LockOwnSegment(r) \/ SwitchOnState(r) \/ ActiveWait(r)
             \/ PublishAfterSelfTheft(r, "begin_publish", "init")
             \/ PublishAfterSelfTheft(r, "self_publish", "loop")
             \/ PublishAfterRefill(r)
             \/ LoadBalancing(r) \/ (\E v \in Rank : TryLock(r, v))
             \/ UnlockVictim(r) \/ ReleaseOwn(r)
    BY <1>c, <1>1, WordPlaces DEF Unseen
  <1>2. CASE InitTmp(r) \/ ReadTasks(r) \/ Finish(r)
    BY <1>c, <1>2, StillPlaces DEF Unseen
  <1>3. CASE \/ MoveSegmentToDequeue(r, "begin_move", "begin_publish")
             \/ MoveSegmentToDequeue(r, "self_move", "self_publish")
    BY <1>c, <1>3, SelfTheftPlaces DEF Unseen
  <1>4. CASE MoveDequeueToSegment(r)
    BY <1>c, <1>4, RefillPlaces DEF Unseen
  <1>5. CASE (ReturnFullTmp(r) \/ LeaveLoop(r)) /\ (tmp[r].nb = 0 \/ tmp[r].owner # r)
    <2>1. IF ~ InTmp(r, o, i) THEN Places(o, i)' = Places(o, i)
          ELSE IF tmp[r].owner = r THEN Moves(Places(o, i), Places(o, i)', <<"tmp", r>>, <<"user", r>>)
          ELSE \E b : Moves(Places(o, i), Places(o, i)', <<"tmp", r>>, <<"batch", b>>)
      BY <1>c, <1>5, PushPlaces
    <2>2. tmp[r].nb = 0 => ~ InTmp(r, o, i)
      BY <1>c, EmptyRun DEF InTmp, ControlInv, TypeOK
    <2>3. QED
      BY <1>5, <2>1, <2>2 DEF Unseen
  <1>6. QED
    BY <1>1, <1>2, <1>3, <1>4, <1>5

LEMMA PoolDoesTask ==
  ASSUME FullTaskInv, FullTaskInv', NEW r \in Rank, DoNextTask(r)
  PROVE  \E d \in poolTodo[r] : /\ poolTodo' = [poolTodo EXCEPT ![r] = @ \ {d}]
                                /\ poolDone' = poolDone \cup {d}
  <1>p. Program(r)
    BY DEF Program, Work
  <1>d. PICK d \in Tasks : d = <<dq[r].owner, dq[r].end - 1>>
    <2>1. dq[r].owner \in Rank /\ dq[r].end - 1 \in Int
      BY DEF FullTaskInv, ControlInv, TypeOK
    <2>2. QED
      BY <2>1 DEF Tasks
  <1>1. ASSUME NEW t \in Tasks
        PROVE  IF t = d THEN Moves(placeOf[t], placeOf'[t], <<"dequeue", r>>, <<"tmp", r>>)
                        ELSE placeOf'[t] = placeOf[t]
    <2>1. IF t[2] = dq[r].end - 1 /\ t[1] = dq[r].owner
          THEN Moves(Places(t[1], t[2]), Places(t[1], t[2])', <<"dequeue", r>>, <<"tmp", r>>)
          ELSE Places(t[1], t[2])' = Places(t[1], t[2])
      BY <1>p, PlaceOfTask, DonePlaces DEF FullTaskInv
    <2>2. t = d <=> t[2] = dq[r].end - 1 /\ t[1] = dq[r].owner
      BY <1>d, PlaceOfTask
    <2>3. QED
      BY <2>1, <2>2, PlaceOfTask
  <1>2. Single(placeOf)
    BY PoolIs
  <1>3. /\ d \in TodoOf(placeOf)[r]
        /\ TodoOf(placeOf') = [TodoOf(placeOf) EXCEPT ![r] = @ \ {d}]
        /\ DoneOf(placeOf') = DoneOf(placeOf) \cup {d}
    BY <1>1, <1>2, PoolDoes
  <1>4. QED
    BY <1>3, PoolIs, PoolIsNext

LEMMA RunDelivered ==
  ASSUME NEW r \in Rank, NEW end \in Int, NEW nb \in Nat \ {0}
  PROVE  LET S == {t \in Tasks : t[1] = r /\ t[2] \in Run(end, nb)} IN
         S # {} /\ {t[2] : t \in S} = Run(end, nb) /\ \A t \in S : t[1] = r
  <1> DEFINE S == {t \in Tasks : t[1] = r /\ t[2] \in Run(end, nb)}
  <1>1. \A i \in Run(end, nb) : <<r, i>> \in S
    BY DEF Tasks, Run
  <1>2. end - 1 \in Run(end, nb)
    BY DEF Run
  <1>3. {t[2] : t \in S} = Run(end, nb)
    <2>1. \A i \in Run(end, nb) : \E t \in S : i = t[2]
      BY <1>1
    <2>2. \A t \in S : t[2] \in Run(end, nb)
      OBVIOUS
    <2> HIDE DEF S
    <2>3. QED
      BY <2>1, <2>2
  <1>4. S # {}
    BY <1>1, <1>2
  <1>5. QED
    BY <1>3, <1>4

\* The results of the own tasks in a tmp segment are submitted at once.
LEMMA PoolDeliversOwn ==
  ASSUME FullTaskInv, FullTaskInv', NEW r \in Rank, ReturnFullTmp(r) \/ LeaveLoop(r),
         tmp[r].nb # 0, tmp[r].owner = r
  PROVE  \E S \in SUBSET poolDone :
           /\ S # {} /\ \A t \in S : t[1] = r
           /\ poolTodo' = poolTodo /\ poolDone' = poolDone \ S
           /\ results' = [results EXCEPT ![r] = @ \cup {t[2] : t \in S}]
  <1>p. Program(r) /\ PushTmpResults(r)
    BY DEF Program, Work, ReturnFullTmp, LeaveLoop
  <1>t. TypeOK /\ tmp[r].last \in Int /\ tmp[r].nb \in Nat \ {0}
    BY CapacityAssumption DEF FullTaskInv, ControlInv, TypeOK
  <1>s. PICK S : S = {t \in Tasks : t[1] = r /\ t[2] \in Run(tmp[r].last, tmp[r].nb)}
    OBVIOUS
  <1>1. ASSUME NEW t \in Tasks
        PROVE  IF t \in S THEN Moves(placeOf[t], placeOf'[t], <<"tmp", r>>, <<"user", r>>)
                          ELSE placeOf'[t] = placeOf[t]
    <2>1. IF ~ InTmp(r, t[1], t[2]) THEN Places(t[1], t[2])' = Places(t[1], t[2])
          ELSE IF tmp[r].owner = r
          THEN Moves(Places(t[1], t[2]), Places(t[1], t[2])', <<"tmp", r>>, <<"user", r>>)
          ELSE \E b : Moves(Places(t[1], t[2]), Places(t[1], t[2])', <<"tmp", r>>, <<"batch", b>>)
      BY <1>p, PlaceOfTask, PushPlaces DEF FullTaskInv
    <2>2. t \in S <=> InTmp(r, t[1], t[2])
      BY <1>s DEF InTmp
    <2>3. QED
      BY <2>1, <2>2, PlaceOfTask
  <1>2. Single(placeOf)
    BY PoolIs
  <1>3. /\ S \subseteq DoneOf(placeOf)
        /\ TodoOf(placeOf') = TodoOf(placeOf) /\ DoneOf(placeOf') = DoneOf(placeOf) \ S
    <2>1. S \in SUBSET Tasks
      BY <1>s
    <2>2. QED
      BY SMTT(30), <1>1, <1>2, <2>1, PoolDelivers
  <1>4. S # {} /\ {t[2] : t \in S} = Run(tmp[r].last, tmp[r].nb) /\ \A t \in S : t[1] = r
    BY <1>t, <1>s, RunDelivered
  <1>5. results' = [results EXCEPT ![r] = @ \cup Run(tmp[r].last, tmp[r].nb)]
    BY <1>p, <1>t, PushedResults
  <1>6. QED
    BY <1>3, <1>4, <1>5, PoolIs, PoolIsNext

\* A batch reaches the owner of its tasks.
LEMMA PoolDeliversBatch ==
  ASSUME FullTaskInv, FullTaskInv', NEW r \in Rank, SubmitArrived(r)
  PROVE  \E S \in SUBSET poolDone :
           /\ S # {} /\ \A t \in S : t[1] = r
           /\ poolTodo' = poolTodo /\ poolDone' = poolDone \ S
           /\ results' = [results EXCEPT ![r] = @ \cup {t[2] : t \in S}]
  <1>t. TypeOK
    BY DEF FullTaskInv, ControlInv
  <1>b. PICK b \in inTransit : /\ b.owner = r /\ SubmitResults(r, b.first, b.nb)
                               /\ inTransit' = inTransit \ {b}
    BY DEF SubmitArrived
  <1>n. b.first + b.nb \in Int /\ b.nb \in Nat \ {0}
    BY <1>t DEF FullTaskInv, PlaceInv, TypeOK, Batch
  <1>s. PICK S : S = {t \in Tasks : t[1] = r /\ t[2] \in Run(b.first + b.nb, b.nb)}
    OBVIOUS
  <1>1. ASSUME NEW t \in Tasks
        PROVE  IF t \in S THEN Moves(placeOf[t], placeOf'[t], <<"batch", b>>, <<"user", r>>)
                          ELSE placeOf'[t] = placeOf[t]
    <2>1. IF InBatch(b, t[1], t[2])
          THEN Moves(Places(t[1], t[2]), Places(t[1], t[2])', <<"batch", b>>, <<"user", r>>)
          ELSE Places(t[1], t[2])' = Places(t[1], t[2])
      BY <1>t, <1>b, PlaceOfTask, ArrivalPlaces
    <2>2. t \in S <=> InBatch(b, t[1], t[2])
      BY <1>b, <1>s DEF InBatch
    <2>3. QED
      BY <2>1, <2>2, PlaceOfTask
  <1>2. Single(placeOf)
    BY PoolIs
  <1>3. /\ S \subseteq DoneOf(placeOf)
        /\ TodoOf(placeOf') = TodoOf(placeOf) /\ DoneOf(placeOf') = DoneOf(placeOf) \ S
    <2>1. S \in SUBSET Tasks
      BY <1>s
    <2>2. QED
      BY <1>1, <1>2, <2>1, PoolDelivers
  <1>4. S # {} /\ {t[2] : t \in S} = Run(b.first + b.nb, b.nb) /\ \A t \in S : t[1] = r
    BY <1>n, <1>s, RunDelivered
  <1>5. results' = [results EXCEPT ![r] = @ \cup Run(b.first + b.nb, b.nb)]
    BY <1>b DEF SubmitResults
  <1>6. QED
    BY <1>3, <1>4, <1>5, PoolIs, PoolIsNext

\* A thief that has read the metadata of its victim's segment has the tasks.
LEMMA PoolStealsSegment ==
  ASSUME FullTaskInv, FullTaskInv', NEW r \in Rank, ReadMetadata(r)
  PROVE  \E v \in Rank : \E S \in SUBSET poolTodo[v] :
           /\ v # r /\ poolTodo[r] = {}
           /\ poolTodo' = [poolTodo EXCEPT ![v] = @ \ S, ![r] = S]
           /\ poolDone' = poolDone
  <1>c. ControlInv /\ ControlInv' /\ TypeOK
    BY DEF FullTaskInv, ControlInv
  <1>p. Program(r)
    BY DEF Program, Steal
  <1>v. PICK v \in Rank : v = target[r]
    BY <1>c DEF TypeOK
  <1>s. PICK S : S = {t \in Tasks : InSegment(v, t[1], t[2])}
    OBVIOUS
  <1>0. v # r /\ pc[r] = "read_metadata" /\ ~ SegmentLive(r)
    BY <1>c, <1>v, TheftSegments
  <1>1. ASSUME NEW t \in Tasks
        PROVE  IF t \in S THEN Moves(placeOf[t], placeOf'[t], <<"segment", v>>, <<"segment", r>>)
                          ELSE placeOf'[t] = placeOf[t]
    <2>1. IF InSegment(target[r], t[1], t[2])
          THEN Moves(Places(t[1], t[2]), Places(t[1], t[2])', <<"segment", target[r]>>, <<"segment", r>>)
          ELSE Places(t[1], t[2])' = Places(t[1], t[2])
      BY <1>c, <1>p, PlaceOfTask, TheftPlaces
    <2>2. t \in S <=> InSegment(v, t[1], t[2])
      BY <1>s
    <2>3. QED
      BY <1>v, <2>1, <2>2, PlaceOfTask
  <1>2. Single(placeOf)
    BY PoolIs
  <1>3. poolTodo[r] = {}
    <2>1. NbDequeue(r) = 0
      BY <1>0, <1>c DEF ControlInv, LocalInv, NoWork
    <2>2. \A o, i : ~ InDequeue(r, o, i) /\ ~ InSegment(r, o, i)
      BY <1>0, <1>c, <2>1, EmptyRun DEF InDequeue, InSegment, TypeOK
    <2>3. QED
      BY <1>c, <2>2, TodoIs DEF TodoAt
  <1>4. /\ S \subseteq TodoOf(placeOf)[v]
        /\ TodoOf(placeOf') = [TodoOf(placeOf) EXCEPT ![v] = @ \ S, ![r] = S]
        /\ DoneOf(placeOf') = DoneOf(placeOf)
    <2>1. S \in SUBSET Tasks /\ TodoOf(placeOf)[r] = {}
      BY <1>s, <1>3, PoolIs
    <2>2. QED
      BY SMTT(30), <1>0, <1>1, <1>2, <2>1, PoolSteals
  <1>5. QED
    BY <1>0, <1>3, <1>4, PoolIs, PoolIsNext

-----------------------------------------------------------------------------
(* The theorem *)

LEMMA PoolInit == Init => Pool!Init
  <1> SUFFICES ASSUME Init PROVE Pool!Init
    OBVIOUS
  <1>1. Pool!Rank = Rank
    BY DEF Pool!Rank, Rank
  <1>2. FullTaskInv
    BY ControlInit, AlignInit, PlaceInit, CountInit DEF FullTaskInv
  <1>3. \A o, i : \A s \in Rank : ~ InDequeue(s, o, i) /\ ~ InSegment(s, o, i) /\ ~ InTmp(s, o, i)
    <2>1. Run(0, 0) = {} /\ 0 - 0 = 0
      BY EmptyRun
    <2>2. QED
      BY <2>1 DEF Init, InDequeue, InSegment, InTmp, NbDequeue, Dequeue, Segment, TmpResults
  <1>4. poolTodo = [s \in Rank |-> {}]
    BY <1>2, <1>3, TodoIs DEF TodoAt, FullTaskInv, ControlInv
  <1>5. poolDone = {}
    BY <1>2, <1>3, DoneIs DEF DoneAll, Init
  <1>6. QED
    BY <1>1, <1>4, <1>5 DEF Init, Pool!Init

LEMMA PoolNext ==
  FullTaskInv /\ FullTaskInv' /\ SessionInv /\ [Next]_vars => [Pool!Next]_(Pool!vars)
  <1> SUFFICES ASSUME FullTaskInv, FullTaskInv', SessionInv, [Next]_vars
               PROVE  [Pool!Next]_(Pool!vars)
    OBVIOUS
  <1> DEFINE running == [r \in Rank |-> pc[r] # "idle"]
  <1>r. Pool!Rank = Rank
    BY DEF Pool!Rank, Rank
  <1>t. TypeOK /\ TypeOK'
    BY DEF FullTaskInv, ControlInv
  <1>d. poolTodo = [s \in Rank |-> poolTodo[s]]
    BY DEF poolTodo
  <1>1. ASSUME NEW r \in Rank, NEW n \in TaskCounts[r], SetProblem(r, n)
        PROVE  Pool!Begin(r, n)
    <2>1. /\ poolTodo' = [poolTodo EXCEPT ![r] = {r} \X (0 .. n - 1)]
          /\ poolDone' = poolDone
      BY <1>1, PoolBegins
    <2>2. ~ running[r] /\ running' = [running EXCEPT ![r] = TRUE]
      BY ZenonT(60), <1>t, <1>1 DEF SetProblem, Goto, TypeOK
    <2>3. QED
      BY <1>1, <2>1, <2>2 DEF SetProblem, Pool!Begin, Pool!TasksOf
  <1>2. ASSUME NEW r \in Rank, DoNextTask(r)
        PROVE  Pool!Do(r)
    <2>1. PICK d \in poolTodo[r] : /\ poolTodo' = [poolTodo EXCEPT ![r] = @ \ {d}]
                                   /\ poolDone' = poolDone \cup {d}
      BY <1>2, PoolDoesTask
    <2>2. running[r] /\ running' = running
      <3>1. pc[r] = "loop" /\ \E to \in {"lock", "switch"} : pc' = [pc EXCEPT ![r] = to]
        BY <1>2 DEF DoNextTask, Goto
      <3>2. \A s \in Rank : pc'[s] # "idle" <=> pc[s] # "idle"
        BY <1>t, <3>1 DEF TypeOK
      <3>3. QED
        BY <3>1, <3>2
    <2>3. QED
      BY <1>2, <2>1, <2>2 DEF DoNextTask, Pool!Do, resultVars
  <1>3. ASSUME NEW r \in Rank, SubmitArrived(r) \/ (/\ ReturnFullTmp(r) \/ LeaveLoop(r)
                                                    /\ tmp[r].nb # 0 /\ tmp[r].owner = r)
        PROVE  \E S \in SUBSET poolDone : Pool!Deliver(r, S)
    <2>1. PICK S \in SUBSET poolDone :
            /\ S # {} /\ \A t \in S : t[1] = r
            /\ poolTodo' = poolTodo /\ poolDone' = poolDone \ S
            /\ results' = [results EXCEPT ![r] = @ \cup {t[2] : t \in S}]
      BY <1>3, PoolDeliversOwn, PoolDeliversBatch
    <2>2. /\ running[r] /\ running' = running
          /\ UNCHANGED <<nbTask, session>>
      BY <1>t, <1>3 DEF SubmitArrived, ReturnFullTmp, LeaveLoop, Goto, TypeOK
    <2>3. QED
      BY <2>1, <2>2 DEF Pool!Deliver
  <1>4. ASSUME NEW r \in Rank, ReadMetadata(r)
        PROVE  \/ \E v \in Rank : \E S \in SUBSET poolTodo[v] : Pool!Steal(r, v, S)
               \/ UNCHANGED <<poolTodo, poolDone, results, nbTask, running, session>>
    <2>1. PICK v \in Rank : \E S \in SUBSET poolTodo[v] :
            /\ v # r /\ poolTodo[r] = {}
            /\ poolTodo' = [poolTodo EXCEPT ![v] = @ \ S, ![r] = S]
            /\ poolDone' = poolDone
      BY <1>4, PoolStealsSegment
    <2>2. PICK S \in SUBSET poolTodo[v] :
            /\ v # r /\ poolTodo[r] = {}
            /\ poolTodo' = [poolTodo EXCEPT ![v] = @ \ S, ![r] = S]
            /\ poolDone' = poolDone
      BY <2>1
    <2>3. /\ running[r] /\ running' = running
          /\ UNCHANGED <<results, nbTask, session>>
      BY <1>t, <1>4 DEF ReadMetadata, Goto, TypeOK, resultVars
    <2>4. CASE S = {}
      <3>1. \A s \in Rank : poolTodo'[s] = poolTodo[s]
        BY <1>d, <2>2, <2>4
      <3>2. poolTodo' = poolTodo
        BY <1>d, <2>2, <3>1
      <3>3. QED
        BY <2>2, <2>3, <3>2
    <2>5. CASE S # {}
      BY <2>2, <2>3, <2>5 DEF Pool!Steal
    <2>6. QED
      BY <2>4, <2>5
  <1>5. ASSUME NEW r \in Rank, Finish(r)
        PROVE  Pool!End(r)
    <2>1. UNCHANGED <<poolTodo, poolDone>>
      BY <1>5, PoolQuiet DEF Program
    <2>2. /\ running[r] /\ running' = [running EXCEPT ![r] = FALSE]
          /\ UNCHANGED <<results, nbTask, session>>
      BY ZenonT(60), <1>t, <1>5 DEF Finish, Goto, TypeOK
    <2>3. \A o \in Rank : session[o] = session[r] => results[o] = 0 .. nbTask[o] - 1
      BY <1>5 DEF SessionInv, Finish
    <2>4. QED
      BY <1>r, <2>1, <2>2, <2>3 DEF Pool!End, Pool!Complete
  <1>6. ASSUME NEW r \in Rank,
               \/ ParallelWork(r)
               \/ WorkBegin(r) \/ LockOwnSegment(r) \/ SwitchOnState(r) \/ ActiveWait(r)
               \/ PublishAfterSelfTheft(r, "begin_publish", "init")
               \/ PublishAfterSelfTheft(r, "self_publish", "loop")
               \/ PublishAfterRefill(r)
               \/ LoadBalancing(r) \/ (\E v \in Rank : TryLock(r, v))
               \/ UnlockVictim(r) \/ ReleaseOwn(r)
               \/ InitTmp(r) \/ ReadTasks(r)
               \/ MoveSegmentToDequeue(r, "begin_move", "begin_publish")
               \/ MoveSegmentToDequeue(r, "self_move", "self_publish")
               \/ MoveDequeueToSegment(r)
               \/ (ReturnFullTmp(r) \/ LeaveLoop(r)) /\ (tmp[r].nb = 0 \/ tmp[r].owner # r)
        PROVE  UNCHANGED <<poolTodo, poolDone, results, nbTask, running, session>>
    <2>1. UNCHANGED <<poolTodo, poolDone>>
      BY <1>6, PoolQuiet DEF Program, Work, Steal
    <2>2. UNCHANGED <<results, nbTask, session>> /\ \E from \in Step \ {"idle"} : \E to \in Step \ {"idle"} : Goto(r, from, to)
      <3>1. CASE \/ ParallelWork(r) \/ WorkBegin(r) \/ LockOwnSegment(r) \/ SwitchOnState(r)
                 \/ ActiveWait(r) \/ InitTmp(r)
        BY <3>1 DEF ParallelWork, WorkBegin, LockOwnSegment, SwitchOnState, ActiveWait, InitTmp,
                    resultVars, Step
      <3>2. CASE \/ PublishAfterSelfTheft(r, "begin_publish", "init")
                 \/ PublishAfterSelfTheft(r, "self_publish", "loop")
                 \/ PublishAfterRefill(r)
                 \/ MoveSegmentToDequeue(r, "begin_move", "begin_publish")
                 \/ MoveSegmentToDequeue(r, "self_move", "self_publish")
                 \/ MoveDequeueToSegment(r)
        BY <3>2 DEF PublishAfterSelfTheft, PublishAfterRefill, MoveSegmentToDequeue,
                    MoveDequeueToSegment, resultVars, Step
      <3>3. CASE \/ LoadBalancing(r) \/ (\E v \in Rank : TryLock(r, v))
                 \/ UnlockVictim(r) \/ ReleaseOwn(r) \/ ReadTasks(r)
        BY <3>3 DEF LoadBalancing, TryLock, UnlockVictim, ReleaseOwn, ReadTasks, resultVars, Step
      <3>4. CASE (ReturnFullTmp(r) \/ LeaveLoop(r)) /\ (tmp[r].nb = 0 \/ tmp[r].owner # r)
        BY <3>4 DEF ReturnFullTmp, LeaveLoop, PushTmpResults, Step
      <3>5. QED
        BY <1>6, <3>1, <3>2, <3>3, <3>4
    <2>3. running' = running
      BY <1>t, <2>2 DEF Goto, TypeOK
    <2>4. QED
      BY <2>1, <2>2, <2>3
  <1>7. ASSUME DetectTermination \/ UNCHANGED vars
        PROVE  UNCHANGED <<poolTodo, poolDone, results, nbTask, running, session>>
    <2>1. UNCHANGED <<pc, state, seg, dq, tmp, target, nbTask, results, inTransit, session>>
      BY <1>7 DEF DetectTermination, vars, taskVars, resultVars
    <2>2. UNCHANGED <<poolTodo, poolDone>>
      BY <2>1 DEF poolTodo, poolDone, NbDequeue, SegmentLive, Reading
    <2>3. running' = running
      BY <2>1
    <2>4. QED
      BY <2>1, <2>2, <2>3
  <1>8. Next \/ UNCHANGED vars
    OBVIOUS
  <1>9. ASSUME UNCHANGED <<poolTodo, poolDone, results, nbTask, running, session>>
        PROVE  UNCHANGED Pool!vars
    BY <1>9, <1>r DEF Pool!vars
  <1>10. ASSUME NEW r \in Rank, Program(r)
         PROVE  [Pool!Next]_(Pool!vars)
    BY <1>r, <1>1, <1>2, <1>3, <1>4, <1>5, <1>6, <1>9, <1>10 DEF Program, Work, Steal, Pool!Next
  <1>11. QED
    BY <1>r, <1>3, <1>7, <1>8, <1>9, <1>10 DEF Next, Stop, Pool!Next

\* Thefts are atomic for who looks at the tasks: through the lock words, the two reads of a theft
\* and the copies between dequeues and segments, a task is done once, by the rank that holds it,
\* its result reaches its owner once, and parallel_work returns when all results are there.
THEOREM ProtocolImplementsPool == Spec => ImplementsTaskPool
  <1>1. Init => SessionInv
    BY SessionInit
  <1>2. FullTaskInv /\ FullTaskInv' /\ SessionInv /\ [Next]_vars => SessionInv'
    BY SessionNext
  <1>3. QED
    BY <1>1, <1>2, PoolInit, PoolNext, FullTaskCorrect, PTL
       DEF Spec, ImplementsTaskPool, Pool!Spec

-----------------------------------------------------------------------------
(* Work requesting *)

\* A request that is not answered: the thief goes round its loop.
Miss(r) ==
  /\ Goto(r, "select", "thief")
  /\ UNCHANGED <<taskVars, tmp, target, resultVars, terminated, session>>

-----------------------------------------------------------------------------
(* A miss keeps the invariants of TaskStealing *)

LEMMA MissControl ==
  ASSUME ControlInv, NEW r \in Rank, Miss(r)
  PROVE  ControlInv'
  <1> USE DEF ControlInv
  <1>1. /\ pc[r] = "select" /\ pc' = [pc EXCEPT ![r] = "thief"]
        /\ UNCHANGED <<state, seg, dq, tmp, target, nbTask, results, nbResult, inTransit,
                       terminated, session>>
    BY DEF Miss, Goto, taskVars, resultVars
  <1>2. TypeOK'
    BY <1>1 DEF TypeOK, Step
  <1>3. \A s \in Rank \ {r} : pc'[s] = pc[s]
    BY <1>1 DEF TypeOK
  <1>4. pc'[r] = "thief"
    BY <1>1 DEF TypeOK
  <1>5. \A s \in Rank : /\ Holds(s)' <=> Holds(s)
                        /\ Own(s)' <=> Own(s)
                        /\ Open(s)' <=> Open(s)
                        /\ NoWork(s)' <=> NoWork(s)
                        /\ Batching(s)' <=> Batching(s)
    BY <1>1, <1>3, <1>4 DEF Holds, Own, Open, NoWork, Batching
  <1>6. \A s \in Rank : \A p \in Step \ {"select", "thief"} : pc'[s] = p <=> pc[s] = p
    BY <1>1, <1>3, <1>4
  <1>7. LockInv'
    <2>1. \A t \in Rank : Holds(t)' => target'[t] # t /\ state'[target'[t]] = t
      BY <1>1, <1>5 DEF LockInv
    <2>2. \A s \in Rank : state[s] \in Rank => (Holds(state[s])' <=> Holds(state[s]))
      BY <1>1, <1>5 DEF Holds
    <2>3. ASSUME NEW s \in Rank
          PROVE  /\ state'[s] \in Rank \ {s} => Holds(state[s])' /\ target'[state'[s]] = s
                 /\ Own(s)' => state'[s] = s
                 /\ state'[s] = s => Own(s)' \/ pc'[s] = "switch"
                 /\ state'[s] = TASK_AVAILABLE => Open(s)'
                 /\ state'[s] \in Rank \ {s} => Open(s)' \/ pc'[s] = "wait"
                 /\ state'[s] = FREE_FOR_COPY =>
                      Open(s)' \/ pc'[s] \in {"refill", "refill_publish", "wait"}
                 /\ pc'[s] \in {"refill", "refill_publish"} => state'[s] = FREE_FOR_COPY
                 /\ pc'[s] \in {"init", "loop", "switch"} /\ NbDequeue(s)' = 0
                      => state'[s] # TASK_AVAILABLE
      BY <1>1, <1>3, <1>4, <1>5, <2>2 DEF LockInv, NbDequeue
    <2>4. QED
      BY <1>1, <2>1, <2>3 DEF LockInv, Holds
  <1>8. LocalInv'
    BY <1>1, <1>3, <1>4, <1>5 DEF LocalInv, NbDequeue
  <1>9. QED
    BY <1>2, <1>7, <1>8

LEMMA MissData ==
  ASSUME FullTaskInv, SessionInv, NEW r \in Rank, Miss(r)
  PROVE  /\ FullTaskInv' /\ SessionInv'
         /\ UNCHANGED <<poolTodo, poolDone, results, nbTask, session>>
         /\ UNCHANGED [s \in Rank |-> pc[s] # "idle"]
  <1>1. /\ pc[r] = "select" /\ pc' = [pc EXCEPT ![r] = "thief"]
        /\ UNCHANGED <<state, seg, dq, tmp, target, nbTask, results, nbResult, inTransit,
                       terminated, session>>
    BY DEF Miss, Goto, taskVars, resultVars
  <1>2. TypeOK /\ ControlInv
    BY DEF FullTaskInv, ControlInv
  <1>3. (\A s \in Rank \ {r} : pc'[s] = pc[s]) /\ pc'[r] = "thief"
    BY <1>1, <1>2 DEF TypeOK
  <1>4. ControlInv'
    BY <1>2, MissControl
  <1>5. \A s \in Rank : SegmentLive(s)' <=> SegmentLive(s)
    BY <1>1, <1>3 DEF SegmentLive, Reading
  <1>6. \A s \in Rank : NbDequeue(s)' = NbDequeue(s)
    BY <1>1 DEF NbDequeue
  <1>7. AlignInv'
    <2>1. ASSUME NEW s \in Rank
          PROVE  Aligned(s)'
      <3>1. Aligned(s)
        BY DEF FullTaskInv, AlignInv
      <3>2. /\ Batching(s)' <=> Batching(s)
            /\ Below(s)' <=> Below(s)
            /\ pc'[s] = "read_tasks" <=> pc[s] = "read_tasks"
        BY <1>1, <1>3 DEF Batching, Below, Open
      <3>3. QED
        BY <1>1, <1>5, <1>6, <3>1, <3>2
           DEF Aligned, DequeueAligned, BatchAligned, BelowAligned, SegmentAligned, CopyAligned
    <2>2. QED
      BY <2>1 DEF AlignInv
  <1>8. \A o, i : Places(o, i)' = Places(o, i)
    <2>1. \A s \in Rank : \A o, i : /\ InDequeue(s, o, i)' <=> InDequeue(s, o, i)
                                    /\ InSegment(s, o, i)' <=> InSegment(s, o, i)
                                    /\ InTmp(s, o, i)' <=> InTmp(s, o, i)
      BY <1>1, <1>5, <1>6 DEF InDequeue, InSegment, InTmp
    <2>2. \A o, i : /\ DequeuesWith(o, i)' = DequeuesWith(o, i)
                    /\ SegmentsWith(o, i)' = SegmentsWith(o, i)
                    /\ TmpsWith(o, i)' = TmpsWith(o, i)
                    /\ BatchesWith(o, i)' = BatchesWith(o, i)
                    /\ UsersWith(o, i)' = UsersWith(o, i)
      BY <1>1, <2>1 DEF DequeuesWith, SegmentsWith, TmpsWith, BatchesWith, UsersWith, InBatch
    <2>3. QED
      BY <2>2 DEF Places
  <1>9. PlaceInv'
    BY <1>1, <1>8 DEF FullTaskInv, PlaceInv, OnePlace
  <1>10. CountInv'
    BY <1>1, <1>3 DEF FullTaskInv, CountInv
  <1>11. SessionInv'
    BY <1>1, <1>3 DEF SessionInv
  <1>12. UNCHANGED <<poolTodo, poolDone>>
    <2>1. poolTodo' = poolTodo
      BY <1>1, <1>5, <1>6 DEF poolTodo
    <2>2. poolDone' = poolDone
      BY <1>1 DEF poolDone
    <2>3. QED
      BY <2>1, <2>2
  <1>13. \A s \in Rank : pc'[s] # "idle" <=> pc[s] # "idle"
    BY <1>1, <1>3
  <1>14. QED
    BY <1>1, <1>4, <1>7, <1>9, <1>10, <1>11, <1>12, <1>13 DEF FullTaskInv

-----------------------------------------------------------------------------
(* What holds with requests *)

\* With requests a segment with tasks has its owner's, and is published, locked by its owner, or
\* about to be published; no step of a theft is ever reached.
AtHome(r) ==
  /\ pc[r] \notin {"begin_move", "begin_publish", "read_metadata", "read_tasks", "unlock", "release"}
  /\ dq[r].owner = r /\ tmp[r].owner \in {r, NoRank}
  /\ seg[r].nb > 0 => /\ seg[r].owner = r
                      /\ state[r] \in {TASK_AVAILABLE, r} \/ pc[r] = "refill_publish"

HomeInv == algorithm = "WORK_REQUESTING" => inTransit = {} /\ \A r \in Rank : AtHome(r)

\* The pointer of the virtual table is what every request compares, and no request adds to the
\* count of stolen tasks.
WordInv ==
  /\ algorithm \in Algorithm
  /\ VtableIntact /\ OnlyHitsCount
  /\ stolen \in [Rank -> Int]

RequestInv == FullTaskInv /\ SessionInv /\ HomeInv /\ WordInv

LEMMA RequestInit == RequestingInit => RequestInv
  <1> SUFFICES ASSUME RequestingInit PROVE RequestInv
    OBVIOUS
  <1>1. Init
    BY DEF RequestingInit
  <1>2. FullTaskInv /\ SessionInv
    BY <1>1, ControlInit, AlignInit, PlaceInit, CountInit, SessionInit DEF FullTaskInv
  <1>3. HomeInv
    BY <1>1 DEF Init, HomeInv, AtHome, Segment, Dequeue, TmpResults
  <1>4. WordInv
    BY DEF RequestingInit, WordInv, VtableIntact, OnlyHitsCount
  <1>5. QED
    BY <1>2, <1>3, <1>4 DEF RequestInv

\* The thief's own segment is empty, so that the request it sends adds nothing, and the word it
\* asks for is no lock word: it misses.
LEMMA RequestIsMiss ==
  ASSUME RequestInv, NEW r \in Rank, NEW v \in Rank, Request(r, v)
  PROVE  /\ Miss(r)
         /\ UNCHANGED <<algorithm, first_word>>
         /\ stolen' = [stolen EXCEPT ![r] = @ + 0]
  <1>1. RequestWord(v) # TASK_AVAILABLE
    BY RankAssumption DEF RequestInv, WordInv, VtableIntact, RequestWord, VTABLE, TASK_AVAILABLE
  <1>2. seg[r].nb = 0
    <2>1. /\ TypeOK /\ LockInv /\ AtHome(r)
          /\ pc[r] = "select"
      BY DEF RequestInv, FullTaskInv, ControlInv, HomeInv, Request, Goto
    <2>2. /\ state[r] # TASK_AVAILABLE
          /\ state[r] # r
      BY <2>1 DEF LockInv, Own, Open
    <2>3. ~ seg[r].nb > 0
      BY <2>1, <2>2 DEF AtHome
    <2>4. seg[r].nb \in 0 .. SegmentMax
      BY <2>1 DEF TypeOK
    <2>5. QED
      BY <2>3, <2>4, CapacityAssumption
  <1>3. QED
    BY <1>1, <1>2 DEF Request, Miss, Stolen

LEMMA MissHome ==
  ASSUME RequestInv, NEW r \in Rank, Miss(r), UNCHANGED <<algorithm, first_word>>,
         stolen' = [stolen EXCEPT ![r] = @ + 0]
  PROVE  HomeInv' /\ WordInv'
  <1>1. /\ pc[r] = "select" /\ pc' = [pc EXCEPT ![r] = "thief"]
        /\ UNCHANGED <<state, seg, dq, tmp, inTransit>>
    BY DEF Miss, Goto, taskVars, resultVars
  <1>2. (\A s \in Rank \ {r} : pc'[s] = pc[s]) /\ pc'[r] = "thief"
    BY <1>1 DEF RequestInv, FullTaskInv, ControlInv, TypeOK
  <1>3. HomeInv'
    BY <1>1, <1>2 DEF RequestInv, HomeInv, AtHome
  <1>4. stolen[r] = 0 /\ stolen' = stolen
    BY DEF RequestInv, WordInv, OnlyHitsCount
  <1>5. WordInv'
    BY <1>4 DEF RequestInv, WordInv, VtableIntact, OnlyHitsCount
  <1>6. QED
    BY <1>3, <1>5

\* A step that is none of a theft leaves the other ranks' lock words alone.
LEMMA OwnWordOnly ==
  ASSUME TypeOK, NEW r \in Rank, Program(r), pc[r] \notin {"select", "unlock"},
         NEW s \in Rank, s # r
  PROVE  state'[s] = state[s]
  <1> USE DEF TypeOK, Goto, taskVars, CompareAndSwap
  <1>1. CASE Work(r)
    BY <1>1 DEF Work, WorkBegin, MoveSegmentToDequeue, PublishAfterSelfTheft, InitTmp, ReturnFullTmp,
                DoNextTask, LockOwnSegment, SwitchOnState, MoveDequeueToSegment,
                PublishAfterRefill, LeaveLoop, ActiveWait
  <1>2. CASE Steal(r)
    BY <1>2 DEF Steal, LoadBalancing, TryLock, ReadMetadata, ReadTasks, UnlockVictim, ReleaseOwn
  <1>3. CASE \/ \E n \in TaskCounts[r] : SetProblem(r, n)
             \/ ParallelWork(r) \/ Finish(r)
    BY <1>3 DEF SetProblem, ParallelWork, Finish
  <1>4. QED
    BY <1>1, <1>2, <1>3 DEF Program

\* No step of the worker takes a task from home.
LEMMA HomeProgram ==
  ASSUME FullTaskInv, inTransit = {}, \A s \in Rank : AtHome(s),
         NEW r \in Rank, Program(r), pc[r] # "select"
  PROVE  inTransit' = {} /\ \A s \in Rank : AtHome(s)'
  <1>t. /\ ControlInv /\ TypeOK /\ LockInv /\ LocalInv /\ BatchAligned(r) /\ AtHome(r)
        /\ state[r] \notin Rank \ {r}
        /\ seg[r].nb \in Nat
    <2>1. /\ ControlInv /\ TypeOK /\ LockInv /\ LocalInv /\ BatchAligned(r) /\ AtHome(r)
      BY DEF FullTaskInv, ControlInv, AlignInv, Aligned
    <2>2. \A t \in Rank : ~ Holds(t)
      BY DEF Holds, AtHome
    <2>3. state[r] \notin Rank \ {r}
      BY <2>1, <2>2 DEF LockInv
    <2>4. seg[r].nb \in Nat
      BY <2>1, CapacityAssumption DEF TypeOK
    <2>5. QED
      BY <2>1, <2>3, <2>4
  <1>f. ASSUME NEW s \in Rank, s # r PROVE AtHome(s)'
    <2>1. state'[s] = state[s]
      BY <1>t, <1>f, OwnWordOnly DEF AtHome
    <2>2. pc'[s] = pc[s] /\ dq'[s] = dq[s] /\ tmp'[s] = tmp[s] /\ seg'[s] = seg[s]
      BY <1>t, <1>f, Frame
    <2>3. QED
      BY <1>t, <1>f, <2>1, <2>2 DEF AtHome
  <1>p. (ReturnFullTmp(r) \/ LeaveLoop(r)) => inTransit' = {}
    <2>1. pc[r] = "loop" => tmp[r].owner = dq[r].owner
      BY <1>t DEF BatchAligned, Batching
    <2>2. pc[r] = "loop" => tmp[r].owner = r
      BY <1>t, <2>1 DEF AtHome
    <2>3. QED
      BY <2>2 DEF ReturnFullTmp, LeaveLoop, PushTmpResults, Goto
  <1> USE WordFacts DEF Goto, AtHome, TypeOK, CompareAndSwap, Segment, Dequeue, TmpResults
  <1>1. ASSUME NEW n \in TaskCounts[r], SetProblem(r, n)
        PROVE  inTransit' = {} /\ AtHome(r)'
    <2>1. seg[r].nb = 0
      BY <1>1, <1>t DEF SetProblem, LocalInv
    <2>2. QED
      BY <1>1, <1>t, <2>1 DEF SetProblem
  <1>2. CASE ParallelWork(r) \/ LoadBalancing(r)
    BY <1>2, <1>t DEF ParallelWork, LoadBalancing, taskVars, resultVars
  <1>3. CASE Finish(r)
    BY <1>3, <1>t DEF Finish, ResetSegment
  <1>4. CASE WorkBegin(r)
    <2>1. state[r] = NO_TASK
      BY <1>4, <1>t, LockAssertsHold DEF WorkBegin, LockAsserts
    <2>2. ~ seg[r].nb > 0
      BY <1>4, <1>t, <2>1, CapacityAssumption DEF WorkBegin
    <2>3. QED
      BY <1>4, <1>t, <2>2 DEF WorkBegin, resultVars
  <1>5. CASE InitTmp(r) \/ SwitchOnState(r)
    <2>1. CASE InitTmp(r)
      BY <2>1, <1>t DEF InitTmp, FreshTmp, taskVars, resultVars
    <2>2. CASE SwitchOnState(r)
      BY <2>2, <1>t DEF SwitchOnState, taskVars, resultVars
    <2>3. QED
      BY <1>5, <2>1, <2>2
  <1>6. CASE ReturnFullTmp(r) \/ LeaveLoop(r)
    BY <1>6, <1>p, <1>t DEF ReturnFullTmp, LeaveLoop, FreshTmp, taskVars
  <1>7. CASE DoNextTask(r)
    BY <1>7, <1>t DEF DoNextTask, resultVars
  <1>8. CASE LockOwnSegment(r)
    BY <1>8, <1>t DEF LockOwnSegment, resultVars
  <1>9. CASE MoveDequeueToSegment(r)
    <2>1. /\ pc[r] = "refill" /\ pc' = [pc EXCEPT ![r] = "refill_publish"]
          /\ inTransit' = {} /\ tmp' = tmp
          /\ seg'[r].owner = r /\ dq'[r].owner = r
      BY <1>9, <1>t DEF MoveDequeueToSegment, resultVars
    <2>2. pc'[r] = "refill_publish"
      BY <1>t, <2>1
    <2>3. QED
      BY <1>f, <1>t, <2>1, <2>2 DEF AtHome
  <1>10. CASE PublishAfterRefill(r)
    <2>1. state[r] = FREE_FOR_COPY
      BY <1>10, <1>t DEF PublishAfterRefill, LockInv
    <2>2. QED
      BY <1>10, <1>t, <2>1 DEF PublishAfterRefill, resultVars
  <1>11. CASE MoveSegmentToDequeue(r, "self_move", "self_publish")
    <2>1. seg[r].nb > 0 /\ state[r] = r
      BY <1>11, <1>t DEF MoveSegmentToDequeue, LocalInv, LockInv, Own
    <2>2. /\ pc' = [pc EXCEPT ![r] = "self_publish"]
          /\ inTransit' = {} /\ tmp' = tmp /\ state' = state
          /\ seg'[r].owner = r /\ dq'[r].owner = r
      BY <1>11, <1>t, <2>1 DEF MoveSegmentToDequeue, resultVars
    <2>3. pc'[r] = "self_publish"
      BY <1>t, <2>2
    <2>4. QED
      BY <1>f, <1>t, <2>1, <2>2, <2>3 DEF AtHome
  <1>12. CASE PublishAfterSelfTheft(r, "self_publish", "loop")
    <2>1. state[r] = r
      BY <1>12, <1>t DEF PublishAfterSelfTheft, LockInv, Own
    <2>2. QED
      BY <1>12, <1>t, <2>1 DEF PublishAfterSelfTheft, resultVars
  <1>13. CASE ActiveWait(r)
    <2>1. ~ seg[r].nb > 0
      BY <1>13, <1>t DEF ActiveWait
    <2>2. QED
      BY <1>13, <1>t, <2>1 DEF ActiveWait, resultVars
  <1>14. CASE \/ MoveSegmentToDequeue(r, "begin_move", "begin_publish")
              \/ PublishAfterSelfTheft(r, "begin_publish", "init")
              \/ (\E v \in Rank : TryLock(r, v))
              \/ ReadMetadata(r) \/ ReadTasks(r) \/ UnlockVictim(r) \/ ReleaseOwn(r)
    BY <1>14, <1>t DEF MoveSegmentToDequeue, PublishAfterSelfTheft, TryLock, ReadMetadata,
                       ReadTasks, UnlockVictim, ReleaseOwn
  <1>15. inTransit' = {} /\ AtHome(r)'
    BY <1>1, <1>2, <1>3, <1>4, <1>5, <1>6, <1>7, <1>8, <1>9, <1>10, <1>11, <1>12, <1>13, <1>14
       DEF Program, Work, Steal
  <1>16. QED
    BY <1>f, <1>15

\* A step of the system is a miss or one of TaskStealing; either keeps the invariant.
LEMMA RequestNext ==
  RequestInv /\ [RequestingNext]_requestingVars =>
    RequestInv' /\ ([Next]_vars \/ \E r \in Rank : Miss(r))
  <1> SUFFICES ASSUME RequestInv, [RequestingNext]_requestingVars
               PROVE  RequestInv' /\ ([Next]_vars \/ \E r \in Rank : Miss(r))
    OBVIOUS
  <1>1. ASSUME NEW r \in Rank, NEW v \in Rank, Request(r, v)
        PROVE  RequestInv' /\ Miss(r)
    <2>1. /\ Miss(r)
          /\ UNCHANGED <<algorithm, first_word>>
          /\ stolen' = [stolen EXCEPT ![r] = @ + 0]
      BY <1>1, RequestIsMiss
    <2>2. HomeInv' /\ WordInv'
      BY <2>1, MissHome
    <2>3. FullTaskInv' /\ SessionInv'
      BY <2>1, MissData DEF RequestInv
    <2>4. QED
      BY <2>1, <2>2, <2>3 DEF RequestInv
  <1>2. ASSUME UNCHANGED requestVars, [Next]_vars,
               HomeInv'
        PROVE  RequestInv'
    <2>1. FullTaskInv'
      BY <1>2, ControlNext, AlignNext, PlaceNext, CountNext DEF RequestInv, FullTaskInv, ControlInv
    <2>2. SessionInv'
      BY <1>2, <2>1, SessionNext DEF RequestInv
    <2>3. WordInv'
      BY <1>2 DEF RequestInv, WordInv, requestVars, VtableIntact, OnlyHitsCount
    <2>4. QED
      BY <1>2, <2>1, <2>2, <2>3 DEF RequestInv
  <1>3. ASSUME NEW r \in Rank, pc[r] # "select" \/ algorithm = "WORK_STEALING",
               Program(r), UNCHANGED requestVars
        PROVE  HomeInv'
    <2>1. CASE algorithm = "WORK_REQUESTING"
      <3>1. inTransit' = {} /\ \A s \in Rank : AtHome(s)'
        BY <1>3, <2>1, HomeProgram DEF RequestInv, HomeInv
      <3>2. QED
        BY <3>1 DEF HomeInv
    <2>2. CASE algorithm # "WORK_REQUESTING"
      BY <1>3, <2>2 DEF HomeInv, requestVars
    <2>3. QED
      BY <2>1, <2>2
  <1>4. ASSUME NEW r \in Rank, SubmitArrived(r), UNCHANGED requestVars
        PROVE  HomeInv'
    BY <1>4 DEF RequestInv, HomeInv, requestVars, SubmitArrived
  <1>5. ASSUME DetectTermination \/ UNCHANGED vars, UNCHANGED requestVars
        PROVE  HomeInv'
    BY <1>5 DEF RequestInv, HomeInv, AtHome, requestVars, DetectTermination, vars, taskVars, resultVars
  <1>6. \/ \E r \in Rank : \E v \in Rank : Request(r, v)
        \/ /\ UNCHANGED requestVars
           /\ \/ \E r \in Rank : /\ pc[r] # "select" \/ algorithm = "WORK_STEALING"
                                 /\ Program(r)
              \/ \E r \in Rank : SubmitArrived(r)
              \/ DetectTermination
              \/ UNCHANGED vars
    BY DEF RequestingNext, SelectedStep, Stop, requestingVars
  <1>7. CASE \E r \in Rank : \E v \in Rank : Request(r, v)
    BY <1>1, <1>7
  <1>8. CASE /\ UNCHANGED requestVars
             /\ \/ \E r \in Rank : /\ pc[r] # "select" \/ algorithm = "WORK_STEALING"
                                   /\ Program(r)
                \/ \E r \in Rank : SubmitArrived(r)
                \/ DetectTermination
                \/ UNCHANGED vars
    <2>1. HomeInv'
      BY <1>3, <1>4, <1>5, <1>8
    <2>2. [Next]_vars
      BY <1>8 DEF Next
    <2>3. QED
      BY <1>2, <1>8, <2>1, <2>2
  <1>9. QED
    BY <1>6, <1>7, <1>8

LEMMA RequestCorrect == RequestingSpec => []RequestInv
  BY RequestInit, RequestNext, PTL DEF RequestingSpec

-----------------------------------------------------------------------------
\* With work requesting no task ever leaves the rank it was given to: every request is compared
\* with a pointer and misses, for any number of ranks; and what a miss adds to the count of
\* stolen tasks is nothing, because a thief's own segment is empty.
THEOREM RequestsMissAlways == RequestingSpec => []RequestsMiss
  <1>1. RequestInv => RequestsMiss
    <2> SUFFICES ASSUME RequestInv PROVE RequestsMiss
      OBVIOUS
    <2>1. ASSUME algorithm = "WORK_REQUESTING", NEW r \in Rank
          PROVE  /\ AtHome(r) /\ inTransit = {}
                 /\ state[r] \in {TASK_AVAILABLE, FREE_FOR_COPY, NO_TASK, r}
      <3>1. (\A t \in Rank : AtHome(t)) /\ inTransit = {} /\ TypeOK /\ LockInv
        BY <2>1 DEF RequestInv, HomeInv, FullTaskInv, ControlInv
      <3>2. \A t \in Rank : ~ Holds(t)
        BY <3>1 DEF AtHome, Holds
      <3>3. state[r] \in LockWord
        BY <3>1 DEF TypeOK
      <3>4. QED
        BY <3>1, <3>2, <3>3 DEF LockInv, LockWord
    <2>2. \E r : r \in Rank
      BY RankAssumption DEF Rank
    <2>3. TasksStayHome
      BY <2>1, <2>2 DEF TasksStayHome, AtHome
    <2>4. QED
      BY <2>3 DEF RequestInv, WordInv, RequestsMiss
  <1>2. QED
    BY <1>1, RequestCorrect, PTL

\* With either algorithm, chosen for the whole run, the tasks are those of the pool.
THEOREM RequestingImplementsPool == RequestingSpec => ImplementsTaskPool
  <1>1. RequestingInit => Pool!Init
    BY PoolInit DEF RequestingInit
  <1>2. RequestInv /\ RequestInv' /\ [RequestingNext]_requestingVars => [Pool!Next]_(Pool!vars)
    <2> SUFFICES ASSUME RequestInv, RequestInv', [RequestingNext]_requestingVars
                 PROVE  [Pool!Next]_(Pool!vars)
      OBVIOUS
    <2>1. [Next]_vars \/ \E r \in Rank : Miss(r)
      BY RequestNext
    <2>2. CASE [Next]_vars
      BY <2>2, PoolNext DEF RequestInv
    <2>3. CASE \E r \in Rank : Miss(r)
      <3>1. /\ UNCHANGED <<poolTodo, poolDone, results, nbTask, session>>
            /\ UNCHANGED [s \in Rank |-> pc[s] # "idle"]
        BY <2>3, MissData DEF RequestInv
      <3>2. QED
        BY <3>1 DEF Pool!vars
    <2>4. QED
      BY <2>1, <2>2, <2>3
  <1>3. QED
    BY <1>1, <1>2, RequestCorrect, PTL DEF RequestingSpec, ImplementsTaskPool, Pool!Spec
=============================================================================
