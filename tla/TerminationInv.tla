--------------------------- MODULE TerminationInv ---------------------------
(* The inductive invariant of Termination. *)
EXTENDS Termination

\* A rank that is not at the barrier of its session has passed it, or the
\* one of the session before, and sessions differ by one at most.
BarrierInv ==
  \A r, s \in Rank : /\ pc[r] # "barrier" => session[s] >= session[r]
                     /\ session[s] <= session[r] + 1

\* r is between set_problem and the end of parallel_work
Inside(r) == pc[r] \in {"barrier", "work"}

\* The parent has left the session that its child c is in
Ahead(c) ==
  LET p == Parent(c) IN
  \/ session[c] < session[p]
  \/ session[c] = session[p] /\ ~ Inside(p)

\* The flag that c raises
FlagOf(c) == IF IsLeft(c) THEN left[Parent(c)] ELSE right[Parent(c)]

\* Child c has not got its signal yet from a parent that is sending it
Awaits(c) ==
  LET p == Parent(c) IN
  \/ pc[p] = "signal_left"
  \/ pc[p] = "signal_right" /\ ~ IsLeft(c)

\* What a rank that has notified its parent is like
ReachedInv ==
  \A r \in Rank :
    reached[r] => /\ pc[r] = "work" /\ complete[r] /\ r # 0
                  /\ left[r] = 1 /\ right[r] = 1

\* Flags toward the root
UpInv ==
  \A c \in Rank \ {0} :
    /\ Inside(Parent(c)) =>
         (FlagOf(c) = 1 <=> session[c] = session[Parent(c)] /\ reached[c])
    /\ pc[c] = "work" /\ Ahead(c) => reached[c]
    /\ pc[c] = "barrier" => ~ Ahead(c)

\* Flags toward the leaves
DownInv ==
  /\ \A r \in Rank : pc[r] \in {"idle", "barrier"} => global[r] = 0
  /\ global[0] = 0
  /\ \A c \in Rank \ {0} :
       /\ pc[c] = "work" /\ global[c] = 1 => Ahead(c)
       /\ Awaits(c) => /\ global[c] = 0
                       /\ pc[c] = "work" /\ reached[c]
                       /\ session[c] = session[Parent(c)]

\* Nobody gets ahead of a rank that waits for results
CompleteInv ==
  \A r, s \in Rank :
    /\ ~ Inside(r) /\ session[s] = session[r] => complete[s]
    /\ session[s] < session[r] => complete[s]

IInv == BarrierInv /\ ReachedInv /\ UpInv /\ DownInv /\ CompleteInv
=============================================================================
