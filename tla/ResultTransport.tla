--------------------------- MODULE ResultTransport ---------------------------
(***************************************************************************)
(* What the return of results promises, without segments, locks or hops: a *)
(* rank hands a batch of results over once, the batch is in transit for a  *)
(* while, and the owner of its tasks submits it once.                      *)
(***************************************************************************)
CONSTANTS Batch, Owner, Problems

VARIABLES
  todo,      \* the batches that are still to be computed
  transit,   \* the batches on their way
  submitted  \* the batches in the array of their owner

vars == <<todo, transit, submitted>>

Init == todo \in Problems /\ transit = {} /\ submitted = {}

HandOver(b) ==
  /\ b \in todo
  /\ todo'    = todo \ {b}
  /\ transit' = transit \cup {b}
  /\ UNCHANGED submitted

\* one flush submits several batches, all of them of one owner
Submit(B) ==
  /\ B # {} /\ B \subseteq transit
  /\ \A b, c \in B : Owner[b] = Owner[c]
  /\ transit'   = transit \ B
  /\ submitted' = submitted \cup B
  /\ UNCHANGED todo

Next == (\E b \in Batch : HandOver(b)) \/ (\E B \in SUBSET transit : Submit(B))

Spec == Init /\ [][Next]_vars
=============================================================================
