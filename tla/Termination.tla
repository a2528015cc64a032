---------------------------- MODULE Termination ----------------------------
(***************************************************************************)
(* Termination detection of TITUS_DLB: a binary tree over the ranks (the   *)
(* children of r are 2r+1 and 2r+2).  A rank that has all of its results   *)
(* and both flags of its children adds 1 to its flag in the result segment *)
(* of its parent; the root, then each rank in turn, adds 1 to the global   *)
(* flag of its children.  The flags are remote atomic counters; they are   *)
(* reset by set_problem (before its barrier) and by the end of the session.*)
(*                                                                         *)
(* Which results arrive when is left open (LastResult); each call of       *)
(* gaspi_atomic_fetch_add is a step.                                       *)
(***************************************************************************)
EXTENDS Integers

CONSTANTS
  NbRanks,      \* number of ranks of the job
  MaxSessions   \* bound: calls of set_problem and parallel_work per rank

Rank == 0 .. NbRanks - 1

ASSUME RankAssumption    == NbRanks \in Nat \ {0}
ASSUME SessionAssumption == MaxSessions \in Nat

VARIABLES
  pc,        \* pc[r]: where rank r is in its session
  session,   \* session[r]: calls of set_problem made by r
  complete,  \* complete[r]: nb_result = nb_usr_results in this session
  left,      \* left[r]: left_child_subtree_termination of r
  right,     \* right[r]: right_child_subtree_termination of r
  global,    \* global[r]: global_termination_detected of r
  reached    \* reached[r]: the static subtree_termintion_reached of process r

flags == <<left, right, global>>
vars  == <<pc, session, complete, left, right, global, reached>>

-----------------------------------------------------------------------------
(* Helpers *)

LeftChild(r)  == 2 * r + 1
RightChild(r) == 2 * r + 2
Parent(r)     == (r - 1) \div 2

IsLeft(r) == r % 2 = 1

\* gaspi_atomic_fetch_add of 1 to a flag of rank r, if there is such a rank
FetchAdd(flag, r) == IF r \in Rank THEN [flag EXCEPT ![r] = @ + 1] ELSE flag

\* a child that does not exist has terminated
NoChild(c) == IF c \in Rank THEN 0 ELSE 1

\* mutant: only the global flag is reset
ResetGlobalOnly(r) ==
  /\ UNCHANGED <<left, right>>
  /\ global' = [global EXCEPT ![r] = 0]

\* MetadataResult::reset
ResetFlags(r) ==
  /\ left'   = [left EXCEPT ![r] = NoChild(LeftChild(r))]
  /\ right'  = [right EXCEPT ![r] = NoChild(RightChild(r))]
  /\ global' = [global EXCEPT ![r] = 0]

\* mutant: one child is enough
OneSubtree(r) == complete[r] /\ (left[r] = 1 \/ right[r] = 1)

\* termination_detection is called, and both subtrees have terminated
SubtreesTerminated(r) == complete[r] /\ left[r] = 1 /\ right[r] = 1

-----------------------------------------------------------------------------
(* The program of rank r *)

SetProblem(r, nothing) ==
  /\ pc[r] = "idle" /\ session[r] < MaxSessions
  /\ pc'       = [pc EXCEPT ![r] = "barrier"]
  /\ session'  = [session EXCEPT ![r] = @ + 1]
  /\ complete' = [complete EXCEPT ![r] = nothing]
  /\ ResetFlags(r)
  /\ UNCHANGED reached

\* mutant: set_problem has no barrier
NoBarrier(r) ==
  /\ pc[r] = "barrier"
  /\ pc' = [pc EXCEPT ![r] = "work"]
  /\ UNCHANGED <<session, complete, flags, reached>>

\* the barrier of set_problem opens
ParallelWork(r) ==
  /\ pc[r] = "barrier"
  /\ \A s \in Rank : session[s] >= session[r]
  /\ pc' = [pc EXCEPT ![r] = "work"]
  /\ UNCHANGED <<session, complete, flags, reached>>

\* r submits the last result it waits for
LastResult(r) ==
  /\ pc[r] = "work" /\ ~ complete[r]
  /\ complete' = [complete EXCEPT ![r] = TRUE]
  /\ UNCHANGED <<pc, session, flags, reached>>

\* notify toward root
NotifyParent(r) ==
  /\ pc[r] = "work" /\ r # 0
  /\ SubtreesTerminated(r) /\ ~ reached[r]
  /\ reached' = [reached EXCEPT ![r] = TRUE]
  /\ left'  = IF IsLeft(r) THEN FetchAdd(left, Parent(r)) ELSE left
  /\ right' = IF IsLeft(r) THEN right ELSE FetchAdd(right, Parent(r))
  /\ UNCHANGED <<pc, session, complete, global>>

\* notify toward leafs: the root detects, the others are told
DetectAtRoot(r) ==
  /\ pc[r] = "work" /\ r = 0
  /\ SubtreesTerminated(r)
  /\ pc' = [pc EXCEPT ![r] = "signal_left"]
  /\ UNCHANGED <<session, complete, flags, reached>>

\* mutant: the static variable is not reset for the next session
LearnKeepsReached(r) ==
  /\ pc[r] = "work"
  /\ complete[r] /\ reached[r] /\ global[r] = 1
  /\ pc' = [pc EXCEPT ![r] = "signal_left"]
  /\ UNCHANGED <<session, complete, flags, reached>>

LearnTermination(r) ==
  /\ pc[r] = "work"
  /\ complete[r] /\ reached[r] /\ global[r] = 1
  /\ reached' = [reached EXCEPT ![r] = FALSE]
  /\ pc' = [pc EXCEPT ![r] = "signal_left"]
  /\ UNCHANGED <<session, complete, flags>>

SignalLeft(r) ==
  /\ pc[r] = "signal_left"
  /\ pc' = [pc EXCEPT ![r] = "signal_right"]
  /\ global' = FetchAdd(global, LeftChild(r))
  /\ UNCHANGED <<session, complete, left, right, reached>>

SignalRight(r) ==
  /\ pc[r] = "signal_right"
  /\ pc' = [pc EXCEPT ![r] = "finished"]
  /\ global' = FetchAdd(global, RightChild(r))
  /\ UNCHANGED <<session, complete, left, right, reached>>

\* context->reset(), and parallel_work returns
Finish(r) ==
  /\ pc[r] = "finished"
  /\ pc' = [pc EXCEPT ![r] = "idle"]
  /\ ResetFlags(r)
  /\ UNCHANGED <<session, complete, reached>>

Over == \A r \in Rank : pc[r] = "idle" /\ session[r] = MaxSessions

Stop == Over /\ UNCHANGED vars

Init ==
  /\ pc       = [r \in Rank |-> "idle"]
  /\ session  = [r \in Rank |-> 0]
  /\ complete = [r \in Rank |-> TRUE]
  /\ left     = [r \in Rank |-> NoChild(LeftChild(r))]
  /\ right    = [r \in Rank |-> NoChild(RightChild(r))]
  /\ global   = [r \in Rank |-> 0]
  /\ reached  = [r \in Rank |-> FALSE]

Program(r) ==
  \/ \E nothing \in BOOLEAN : SetProblem(r, nothing)
  \/ ParallelWork(r)
  \/ LastResult(r)
  \/ NotifyParent(r)
  \/ DetectAtRoot(r)
  \/ LearnTermination(r)
  \/ SignalLeft(r)
  \/ SignalRight(r)
  \/ Finish(r)

Next == (\E r \in Rank : Program(r)) \/ Stop

Spec == Init /\ [][Next]_vars

\* Every rank runs its own process, and its results arrive.
FairSpec == Spec /\ \A r \in Rank : WF_vars(Program(r))

-----------------------------------------------------------------------------
(* Properties *)

Phase == {"idle", "barrier", "work", "signal_left", "signal_right", "finished"}

\* A flag is 0 or 1: nobody notifies twice in a session.
TypeOK ==
  /\ pc       \in [Rank -> Phase]
  /\ session  \in [Rank -> 0 .. MaxSessions]
  /\ complete \in [Rank -> BOOLEAN]
  /\ left     \in [Rank -> {0, 1}]
  /\ right    \in [Rank -> {0, 1}]
  /\ global   \in [Rank -> {0, 1}]
  /\ reached  \in [Rank -> BOOLEAN]

\* r has been told that its session is over
Leaving(r) ==
  \/ pc[r] \in {"signal_left", "signal_right", "finished"}
  \/ pc[r] = "idle" /\ session[r] > 0

\* A rank leaves a session only when every rank is in this session (or has
\* left it too) with all of its results: detection never runs ahead of a
\* result, and a flag of one session never counts in another.
SafeTermination ==
  \A r, s \in Rank :
    Leaving(r) => /\ session[s] >= session[r]
                  /\ session[s] = session[r] => complete[s]

\* The assertions: the root never uses the static variable, and the global
\* flag a rank is about to raise is down.
FlagAsserts ==
  /\ pc[0] = "work" => ~ reached[0]
  /\ \A r, c \in Rank :
       \/ pc[r] = "signal_left"  /\ c = LeftChild(r)
       \/ pc[r] = "signal_right" /\ c = RightChild(r)
       \/ pc[r] = "signal_left"  /\ c = RightChild(r)
       => global[c] = 0 /\ pc[c] = "work" /\ session[c] = session[r]

\* The flags of r while it is in its session say what its children did in the
\* same session, not in the one before.
FlagsOfThisSession ==
  \A r, c \in Rank :
    /\ c \in {LeftChild(r), RightChild(r)}
    /\ pc[r] \in {"barrier", "work"}
    => ((IF IsLeft(c) THEN left[r] ELSE right[r]) = 1
          <=> session[c] = session[r] /\ reached[c])

\* Every rank leaves every session.
Completion == <>Over

-----------------------------------------------------------------------------
(* The abstract specification *)

Abstract == INSTANCE Sessions WITH
              inside <- {r \in Rank : pc[r] \in {"barrier", "work"}}

\* Seen from outside, the sessions end for each rank only when they may.
ImplementsSessions == Abstract!Spec

=============================================================================
