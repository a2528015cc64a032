------------------------- MODULE TerminationProofs -------------------------
(***************************************************************************)
(* Proofs about Termination, for every number of ranks and of sessions.    *)
(***************************************************************************)
EXTENDS TerminationInv, WellFoundedInduction, TLAPS

FullInv == TypeOK /\ IInv

\* Parents and children in the tree.
LEMMA TreeFacts ==
  /\ \A c \in Rank \ {0} :
       /\ Parent(c) \in Rank /\ Parent(c) < c
       /\ IsLeft(c)   => c = LeftChild(Parent(c))
       /\ ~ IsLeft(c) => c = RightChild(Parent(c))
  /\ \A p, c \in Rank :
       /\ c = LeftChild(p)  => c # 0 /\ Parent(c) = p /\ IsLeft(c)
       /\ c = RightChild(p) => c # 0 /\ Parent(c) = p /\ ~ IsLeft(c)
  /\ 0 \in Rank
  BY RankAssumption DEF Rank, Parent, LeftChild, RightChild, IsLeft

\* A property that each rank inherits from its parent holds for every rank
\* if it holds for the root: a smallest rank without it has a parent with it.
LEMMA FromTheRoot ==
  ASSUME NEW S \in SUBSET Rank, 0 \in S,
         \A c \in Rank \ {0} : Parent(c) \in S => c \in S
  PROVE  S = Rank
  <1> SUFFICES ASSUME Rank \ S # {} PROVE FALSE
    OBVIOUS
  <1>1. Rank \ S \subseteq Nat
    BY DEF Rank
  <1>2. PICK c \in Rank \ S : \A d \in Rank \ S : ~ (<<d, c>> \in OpToRel(<, Nat))
    BY <1>1, NatLessThanWellFounded, WFMin
  <1>3. c \in Rank \ {0} /\ Parent(c) \in Rank \ S /\ Parent(c) < c
    BY <1>2, TreeFacts
  <1>4. <<Parent(c), c>> \in OpToRel(<, Nat)
    BY <1>1, <1>3 DEF OpToRel
  <1>5. QED
    BY <1>2, <1>3, <1>4

\* When the root has both flags, every other rank has notified its parent.
LEMMA RootKnowsAll ==
  ASSUME FullInv, pc[0] = "work", left[0] = 1, right[0] = 1
  PROVE  \A s \in Rank : session[s] = session[0] /\ (s # 0 => reached[s])
  <1> DEFINE S == {s \in Rank : session[s] = session[0] /\ (s # 0 => reached[s])}
  <1>1. 0 \in S
    BY TreeFacts
  <1>2. ASSUME NEW c \in Rank \ {0}, Parent(c) \in S
        PROVE  c \in S
    <2>1. pc[Parent(c)] = "work" /\ left[Parent(c)] = 1 /\ right[Parent(c)] = 1
      BY <1>2 DEF FullInv, IInv, ReachedInv
    <2>2. session[c] = session[Parent(c)] /\ reached[c]
      BY <2>1, TreeFacts DEF FullInv, IInv, UpInv, Inside, FlagOf
    <2>3. QED
      BY <1>2, <2>2
  <1>3. S = Rank
    BY <1>1, <1>2, FromTheRoot
  <1>4. QED
    BY <1>3

LEMMA InvInit == Init => FullInv
  <1> SUFFICES ASSUME Init PROVE FullInv
    OBVIOUS
  <1>1. TypeOK
    BY SessionAssumption DEF Init, TypeOK, Phase, NoChild
  <1>2. BarrierInv /\ ReachedInv /\ DownInv /\ CompleteInv
    BY TreeFacts DEF Init, BarrierInv, ReachedInv, DownInv, CompleteInv, Ahead,
                     Inside, Awaits
  <1>3. UpInv
    BY TreeFacts DEF Init, UpInv, Ahead, Inside
  <1>4. QED
    BY <1>1, <1>2, <1>3 DEF FullInv, IInv

LEMMA InvNext == FullInv /\ [Next]_vars => FullInv'
  <1> SUFFICES ASSUME FullInv, [Next]_vars PROVE FullInv'
    OBVIOUS
  <1> USE TreeFacts, SessionAssumption DEF FullInv, TypeOK, Phase, IInv, flags
  <1>1. ASSUME NEW r \in Rank, NEW nothing \in BOOLEAN, SetProblem(r, nothing) PROVE FullInv'
    <2>1. TypeOK'
      BY <1>1 DEF SetProblem, ResetFlags, NoChild, UpInv, DownInv, FlagOf, Inside, Ahead, Awaits
    <2>2. BarrierInv'
      BY <1>1 DEF SetProblem, ResetFlags, NoChild, BarrierInv
    <2>3. ReachedInv'
      BY <1>1 DEF SetProblem, ResetFlags, NoChild, ReachedInv
    <2>4. UpInv'
      <3> SUFFICES ASSUME NEW c \in Rank \ {0}
                   PROVE  /\ Inside(Parent(c))' =>
                               (FlagOf(c)' = 1 <=> /\ session'[c] = session'[Parent(c)]
                                                  /\ reached'[c])
                          /\ pc'[c] = "work" /\ Ahead(c)' => reached'[c]
                          /\ pc'[c] = "barrier" => ~ Ahead(c)'
        BY DEF UpInv
      <3>1. Parent(c) \in Rank /\ Parent(c) # c
        BY DEF Rank
      <3>2. CASE r = c
        <4>1. ~ reached[c] /\ session[c] <= session[Parent(c)] + 1
          BY <1>1, <3>1, <3>2 DEF SetProblem, ReachedInv, BarrierInv
        <4>2. UNCHANGED FlagOf(c) /\ (Inside(Parent(c)) => FlagOf(c) # 1)
          BY <1>1, <3>1, <3>2, <4>1
             DEF SetProblem, ResetFlags, UpInv, FlagOf
        <4>3. QED
          BY <1>1, <3>1, <3>2, <4>1, <4>2
             DEF SetProblem, Inside, Ahead, BarrierInv
      <3>3. CASE r = Parent(c)
        <4>1. FlagOf(c)' = 0
          BY <1>1, <3>1, <3>3 DEF SetProblem, ResetFlags, NoChild, FlagOf
        <4>2. reached[c] => session[c] <= session[r]
          BY <1>1, <3>1, <3>3 DEF ReachedInv, BarrierInv
        <4>3. QED
          BY SMTT(30), <1>1, <3>1, <3>3, <4>1, <4>2
             DEF SetProblem, Inside, Ahead, UpInv, BarrierInv
      <3>4. CASE r # c /\ r # Parent(c)
        BY <1>1, <3>1, <3>4
           DEF SetProblem, ResetFlags, UpInv, FlagOf, Inside, Ahead
      <3>5. QED
        BY <3>2, <3>3, <3>4
    <2>5. DownInv'
      BY <1>1 DEF SetProblem, ResetFlags, NoChild, DownInv, UpInv, FlagOf, Inside, Ahead, Awaits, BarrierInv, ReachedInv
    <2>6. CompleteInv'
      BY SMTT(30), <1>1 DEF SetProblem, ResetFlags, NoChild, CompleteInv, Inside, BarrierInv
    <2>7. QED
      BY <2>1, <2>2, <2>3, <2>4, <2>5, <2>6
  <1>2. ASSUME NEW r \in Rank, ParallelWork(r) PROVE FullInv'
    <2>1. TypeOK'
      BY <1>2 DEF ParallelWork, UpInv, DownInv, FlagOf, Inside, Ahead, Awaits
    <2>2. BarrierInv'
      BY <1>2 DEF ParallelWork, BarrierInv
    <2>3. ReachedInv'
      BY <1>2 DEF ParallelWork, ReachedInv
    <2>4. UpInv'
      BY <1>2 DEF ParallelWork, UpInv, FlagOf, Inside, Ahead, BarrierInv, ReachedInv
    <2>5. DownInv'
      BY <1>2 DEF ParallelWork, DownInv, UpInv, FlagOf, Inside, Ahead, Awaits, BarrierInv, ReachedInv
    <2>6. CompleteInv'
      BY <1>2 DEF ParallelWork, CompleteInv, Inside, BarrierInv
    <2>7. QED
      BY <2>1, <2>2, <2>3, <2>4, <2>5, <2>6
  <1>3. ASSUME NEW r \in Rank, LastResult(r) PROVE FullInv'
    <2>1. TypeOK'
      BY <1>3 DEF LastResult, UpInv, DownInv, FlagOf, Inside, Ahead, Awaits
    <2>2. BarrierInv'
      BY <1>3 DEF LastResult, BarrierInv
    <2>3. ReachedInv'
      BY <1>3 DEF LastResult, ReachedInv
    <2>4. UpInv'
      BY <1>3 DEF LastResult, UpInv, FlagOf, Inside, Ahead, BarrierInv, ReachedInv
    <2>5. DownInv'
      BY <1>3 DEF LastResult, DownInv, UpInv, FlagOf, Inside, Ahead, Awaits, BarrierInv, ReachedInv
    <2>6. CompleteInv'
      BY <1>3 DEF LastResult, CompleteInv, Inside, BarrierInv
    <2>7. QED
      BY <2>1, <2>2, <2>3, <2>4, <2>5, <2>6
  <1>4. ASSUME NEW r \in Rank, NotifyParent(r) PROVE FullInv'
    <2>0. FlagOf(r) = 0
      <3>1. r \in Rank \ {0} /\ pc[r] = "work" /\ ~ reached[r]
        BY <1>4 DEF NotifyParent
      <3>2. ~ Ahead(r) /\ session[Parent(r)] >= session[r]
        BY <3>1 DEF UpInv, BarrierInv
      <3>3. Inside(Parent(r)) /\ FlagOf(r) # 1
        BY <3>1, <3>2 DEF UpInv, Ahead
      <3>4. QED
        BY <3>1, <3>3 DEF FlagOf
    <2>1. TypeOK'
      BY <1>4, <2>0 DEF NotifyParent, FetchAdd, FlagOf
    <2>2. BarrierInv'
      BY <1>4 DEF NotifyParent, SubtreesTerminated, FetchAdd, BarrierInv
    <2>3. ReachedInv'
      BY <1>4, <2>0
         DEF NotifyParent, SubtreesTerminated, FetchAdd, ReachedInv, FlagOf
    <2>4. UpInv'
      BY <1>4 DEF NotifyParent, SubtreesTerminated, FetchAdd, UpInv, FlagOf, Inside, Ahead, BarrierInv, ReachedInv
    <2>5. DownInv'
      BY <1>4 DEF NotifyParent, SubtreesTerminated, FetchAdd, DownInv, UpInv, FlagOf, Inside, Ahead, Awaits, BarrierInv, ReachedInv
    <2>6. CompleteInv'
      BY <1>4 DEF NotifyParent, SubtreesTerminated, FetchAdd, CompleteInv, Inside, BarrierInv
    <2>7. QED
      BY <2>1, <2>2, <2>3, <2>4, <2>5, <2>6
  <1>5. ASSUME NEW r \in Rank, DetectAtRoot(r) PROVE FullInv'
    <2>1. TypeOK'
      BY <1>5 DEF DetectAtRoot, SubtreesTerminated, UpInv, DownInv, FlagOf, Inside, Ahead, Awaits
    <2>2. BarrierInv'
      BY <1>5 DEF DetectAtRoot, SubtreesTerminated, BarrierInv
    <2>3. ReachedInv'
      BY <1>5 DEF DetectAtRoot, SubtreesTerminated, ReachedInv
    <2>4. UpInv'
      BY <1>5 DEF DetectAtRoot, SubtreesTerminated, UpInv, FlagOf, Inside, Ahead, BarrierInv, ReachedInv
    <2>5. DownInv'
      BY <1>5 DEF DetectAtRoot, SubtreesTerminated, DownInv, UpInv, FlagOf, Inside, Ahead, Awaits, BarrierInv, ReachedInv
    <2>6. CompleteInv'
      <3>1. \A s \in Rank : complete[s]
        BY <1>5, RootKnowsAll DEF DetectAtRoot, SubtreesTerminated, ReachedInv
      <3>2. QED
        BY <1>5, <3>1 DEF DetectAtRoot, CompleteInv
    <2>7. QED
      BY <2>1, <2>2, <2>3, <2>4, <2>5, <2>6
  <1>6. ASSUME NEW r \in Rank, LearnTermination(r) PROVE FullInv'
    <2>1. TypeOK'
      BY <1>6 DEF LearnTermination, UpInv, DownInv, FlagOf, Inside, Ahead, Awaits
    <2>2. BarrierInv'
      BY <1>6 DEF LearnTermination, BarrierInv
    <2>3. ReachedInv'
      BY <1>6 DEF LearnTermination, ReachedInv
    <2>4. UpInv'
      BY <1>6 DEF LearnTermination, UpInv, FlagOf, Inside, Ahead, BarrierInv, ReachedInv, DownInv
    <2>5. DownInv'
      BY <1>6 DEF LearnTermination, DownInv, UpInv, FlagOf, Inside, Ahead, Awaits, BarrierInv, ReachedInv
    <2>6. CompleteInv'
      <3>1. r \in Rank \ {0} /\ Ahead(r)
        BY <1>6 DEF LearnTermination, ReachedInv, DownInv
      <3>2. \A s \in Rank : session[s] = session[r] => complete[s]
        BY <3>1 DEF Ahead, CompleteInv
      <3>3. QED
        BY <1>6, <3>2 DEF LearnTermination, CompleteInv, Inside
    <2>7. QED
      BY <2>1, <2>2, <2>3, <2>4, <2>5, <2>6
  <1>7. ASSUME NEW r \in Rank, SignalLeft(r) PROVE FullInv'
    <2>1. TypeOK'
      BY <1>7 DEF SignalLeft, FetchAdd, UpInv, DownInv, FlagOf, Inside, Ahead, Awaits
    <2>2. BarrierInv'
      BY <1>7 DEF SignalLeft, FetchAdd, BarrierInv
    <2>3. ReachedInv'
      BY <1>7 DEF SignalLeft, FetchAdd, ReachedInv
    <2>4. UpInv'
      BY <1>7 DEF SignalLeft, FetchAdd, UpInv, FlagOf, Inside, Ahead, BarrierInv, ReachedInv
    <2>5. DownInv'
      BY <1>7 DEF SignalLeft, FetchAdd, DownInv, UpInv, FlagOf, Inside, Ahead, Awaits, BarrierInv, ReachedInv
    <2>6. CompleteInv'
      BY <1>7 DEF SignalLeft, FetchAdd, CompleteInv, Inside, BarrierInv
    <2>7. QED
      BY <2>1, <2>2, <2>3, <2>4, <2>5, <2>6
  <1>8. ASSUME NEW r \in Rank, SignalRight(r) PROVE FullInv'
    <2>1. TypeOK'
      BY <1>8 DEF SignalRight, FetchAdd, UpInv, DownInv, FlagOf, Inside, Ahead, Awaits
    <2>2. BarrierInv'
      BY <1>8 DEF SignalRight, FetchAdd, BarrierInv
    <2>3. ReachedInv'
      BY <1>8 DEF SignalRight, FetchAdd, ReachedInv
    <2>4. UpInv'
      BY <1>8 DEF SignalRight, FetchAdd, UpInv, FlagOf, Inside, Ahead, BarrierInv, ReachedInv
    <2>5. DownInv'
      BY <1>8 DEF SignalRight, FetchAdd, DownInv, UpInv, FlagOf, Inside, Ahead, Awaits, BarrierInv, ReachedInv
    <2>6. CompleteInv'
      BY <1>8 DEF SignalRight, FetchAdd, CompleteInv, Inside, BarrierInv
    <2>7. QED
      BY <2>1, <2>2, <2>3, <2>4, <2>5, <2>6
  <1>9. ASSUME NEW r \in Rank, Finish(r) PROVE FullInv'
    <2>1. TypeOK'
      BY <1>9 DEF Finish, ResetFlags, NoChild, UpInv, DownInv, FlagOf, Inside, Ahead, Awaits
    <2>2. BarrierInv'
      BY <1>9 DEF Finish, ResetFlags, NoChild, BarrierInv
    <2>3. ReachedInv'
      BY <1>9 DEF Finish, ResetFlags, NoChild, ReachedInv
    <2>4. UpInv'
      BY <1>9 DEF Finish, ResetFlags, NoChild, UpInv, FlagOf, Inside, Ahead, BarrierInv, ReachedInv
    <2>5. DownInv'
      BY <1>9 DEF Finish, ResetFlags, NoChild, DownInv, UpInv, FlagOf, Inside, Ahead, Awaits, BarrierInv, ReachedInv
    <2>6. CompleteInv'
      BY <1>9 DEF Finish, ResetFlags, NoChild, CompleteInv, Inside, BarrierInv
    <2>7. QED
      BY <2>1, <2>2, <2>3, <2>4, <2>5, <2>6
  <1>10. CASE UNCHANGED vars
    BY <1>10 DEF vars, BarrierInv, ReachedInv, UpInv, DownInv, CompleteInv, Inside, Ahead, Awaits, FlagOf
  <1>11. QED
    BY <1>1, <1>2, <1>3, <1>4, <1>5, <1>6, <1>7, <1>8, <1>9, <1>10 DEF Next, Program, Stop

LEMMA InvCorrect == Spec => []FullInv
  BY InvInit, InvNext, PTL DEF Spec

-----------------------------------------------------------------------------
(* The results *)

\* The flags of a session only take the values 0 and 1.
THEOREM TypeCorrect == Spec => []TypeOK
  <1>1. FullInv => TypeOK
    BY DEF FullInv
  <1>2. QED
    BY <1>1, InvCorrect, PTL

\* A rank that is told to leave its session may leave it: every rank is in
\* the same session, or has left it, and has all of its results.
THEOREM TerminationIsSafe == Spec => []SafeTermination
  <1>1. FullInv => SafeTermination
    BY DEF FullInv, IInv, BarrierInv, CompleteInv, SafeTermination, Leaving, Inside
  <1>2. QED
    BY <1>1, InvCorrect, PTL

\* The assertions of termination_detection never fail, and a signal always
\* finds its rank waiting for it in the same session.
THEOREM AssertsHold == Spec => []FlagAsserts
  <1>1. FullInv => FlagAsserts
    <2> SUFFICES ASSUME FullInv PROVE FlagAsserts
      OBVIOUS
    <2>1. pc[0] = "work" => ~ reached[0]
      BY TreeFacts DEF FullInv, IInv, ReachedInv
    <2>2. ASSUME NEW r \in Rank, NEW c \in Rank,
                 \/ pc[r] = "signal_left"  /\ c = LeftChild(r)
                 \/ pc[r] = "signal_right" /\ c = RightChild(r)
                 \/ pc[r] = "signal_left"  /\ c = RightChild(r)
          PROVE  global[c] = 0 /\ pc[c] = "work" /\ session[c] = session[r]
      <3>1. c \in Rank \ {0} /\ Parent(c) = r /\ Awaits(c)
        BY <2>2, TreeFacts DEF Awaits
      <3>2. QED
        BY <3>1 DEF FullInv, IInv, DownInv
    <2>3. QED
      BY <2>1, <2>2 DEF FlagAsserts
  <1>2. QED
    BY <1>1, InvCorrect, PTL

\* The flags a rank reads in a session were raised in that session.
THEOREM FlagsAreFresh == Spec => []FlagsOfThisSession
  <1>1. FullInv => FlagsOfThisSession
    <2> SUFFICES ASSUME FullInv, NEW r \in Rank, NEW c \in Rank,
                        c \in {LeftChild(r), RightChild(r)},
                        pc[r] \in {"barrier", "work"}
                 PROVE  (IF IsLeft(c) THEN left[r] ELSE right[r]) = 1
                          <=> session[c] = session[r] /\ reached[c]
      BY DEF FlagsOfThisSession
    <2>1. c \in Rank \ {0} /\ Parent(c) = r
      BY TreeFacts
    <2>2. QED
      BY <2>1 DEF FullInv, IInv, UpInv, FlagOf, Inside
  <1>2. QED
    BY <1>1, InvCorrect, PTL

LEMMA AbstractInit == Init => Abstract!Init
  BY DEF Init, Abstract!Init, Rank, Abstract!Rank

LEMMA AbstractNext ==
  FullInv /\ FullInv' /\ [Next]_vars => [Abstract!Next]_(Abstract!vars)
  <1> SUFFICES ASSUME FullInv, FullInv', [Next]_vars
               PROVE  [Abstract!Next]_(Abstract!vars)
    OBVIOUS
  <1> DEFINE inside == {r \in Rank : pc[r] \in {"barrier", "work"}}
  <1>r. Abstract!Rank = Rank
    BY DEF Abstract!Rank, Rank
  <1>t. TypeOK /\ TypeOK'
    BY DEF FullInv
  <1> USE DEF TypeOK, Phase, Abstract!vars, flags
  <1>1. ASSUME NEW r \in Rank, NEW nothing \in BOOLEAN, SetProblem(r, nothing)
        PROVE  Abstract!Begin(r, nothing)
    BY <1>t, <1>r, <1>1 DEF SetProblem, Abstract!Begin
  <1>2. ASSUME NEW r \in Rank, LastResult(r)
        PROVE  Abstract!Complete(r)
    BY <1>t, <1>r, <1>2 DEF LastResult, Abstract!Complete
  <1>3. ASSUME NEW r \in Rank, DetectAtRoot(r) \/ LearnTermination(r)
        PROVE  Abstract!End(r)
    <2>1. /\ pc[r] = "work" /\ pc' = [pc EXCEPT ![r] = "signal_left"]
          /\ UNCHANGED <<session, complete>>
      BY <1>3 DEF DetectAtRoot, LearnTermination
    <2>2. \A s \in Rank : session'[s] >= session'[r]
      BY <2>1, <1>t DEF FullInv, IInv, BarrierInv
    <2>3. \A s \in Rank : session'[s] = session'[r] => complete'[s]
      BY <2>1, <1>t DEF FullInv, IInv, CompleteInv, Inside
    <2>4. inside' = inside \ {r}
      BY <2>1, <1>t
    <2>5. QED
      BY <1>r, <2>1, <2>2, <2>3, <2>4 DEF Abstract!End
  <1>4. ASSUME NEW r \in Rank,
               \/ ParallelWork(r) \/ NotifyParent(r) \/ SignalLeft(r)
               \/ SignalRight(r) \/ Finish(r)
        PROVE  UNCHANGED <<session, inside, complete>>
    BY <1>t, <1>4 DEF ParallelWork, NotifyParent, SignalLeft, SignalRight, Finish
  <1>5. CASE UNCHANGED vars
    BY <1>5 DEF vars
  <1>6. QED
    BY <1>r, <1>1, <1>2, <1>3, <1>4, <1>5
       DEF Next, Program, Stop, Abstract!Next

\* Detection by the tree is detection by an observer of all ranks: each step
\* of the protocol is a step of Sessions or changes nothing that it sees.
THEOREM TreeImplementsSessions == Spec => ImplementsSessions
  BY AbstractInit, AbstractNext, InvCorrect, PTL
     DEF Spec, ImplementsSessions, Abstract!Spec

=============================================================================
