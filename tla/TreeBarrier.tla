----------------------------- MODULE TreeBarrier -----------------------------
(***************************************************************************)
(* TITUS_DLB_impl::barrier_status: the barrier of a group for jobs without *)
(* a static GASPI infrastructure. Notifications climb the in-order tree    *)
(* from the leaves to the root and come down again; each wait may end by a *)
(* timeout, after which the caller tries the same barrier again. The first *)
(* barrier begins with a handshake of passive messages between neighbours. *)
(* The source keeps the class as a placeholder: TITUS_DLB_impl::barrier    *)
(* asserts false before it would use it.                                   *)
(***************************************************************************)
EXTENDS InfixTree, Sequences

CONSTANTS
    N,                  \* group_size, at least 2
    RanksInGroup,       \* ranks_in_group: the GASPI rank of each index in the group
    MaxBarriers         \* bound: barriers per rank

Index == 0 .. N - 1

ASSUME BarrierAssumption ==
    /\ N \in Nat \ {0, 1} /\ NoRank \notin Index
    /\ RanksInGroup \in [Index -> Nat]
    /\ MaxBarriers \in Nat

\* Every index computes its place in the tree for itself.
neighbors == [i \in Index |-> NodeOf(i, N)]
Parent == [i \in Index |-> neighbors[i].parent]
Left == [i \in Index |-> neighbors[i].left_child]
Right == [i \in Index |-> neighbors[i].right_child]
IsLeftChild(i) == is_left_child(neighbors[i])

VARIABLES
    timeouts,      \* whether the callers give a timeout that may run out
    pc,            \* where each rank is in barrier()
    handshake_ok, barrier_is_in_progress, left_child_ok, right_child_ok, \* the indices with the flag
    msg_sent, msg_recieved, \* the locals of the handshake: neighbours done
    passive,       \* passive messages <<from, to>> that nobody has received, by GASPI rank
    wire,          \* wire[i][id]: notification values on their way to i
    notification,  \* notification[i][id]: the value of i's notification id, 0 when not set
    entered, passed \* barriers begun and left with GASPI_SUCCESS

flags == <<barrier_is_in_progress, left_child_ok, right_child_ok>>
shake == <<timeouts, handshake_ok, msg_sent, msg_recieved, passive>>
signals == <<wire, notification>>
vars == <<pc, flags, shake, signals, entered, passed>>

\* parent_notification_id and the two after it
FromParent == 0
FromLeft == 1
FromRight == 2

\* The rank that sends i the notifications with this id.
Sender(i, id) == IF id = FromParent THEN Parent[i] ELSE IF id = FromLeft THEN Left[i] ELSE Right[i]

Neighbors(i) == {Parent[i], Left[i], Right[i]} \ {NoRank}
Goto(i, label) == pc' = [pc EXCEPT ![i] = label]

Init ==
    /\ timeouts \in BOOLEAN
    /\ pc = [i \in Index |-> "out"]
    /\ handshake_ok = {} /\ barrier_is_in_progress = {}
    /\ left_child_ok = {} /\ right_child_ok = {}
    /\ msg_sent = [i \in Index |-> {}] /\ msg_recieved = [i \in Index |-> {}]
    /\ passive = {}
    /\ wire = [i \in Index |-> [id \in 0 .. 2 |-> <<>>]]
    /\ notification = [i \in Index |-> [id \in 0 .. 2 |-> 0]]
    /\ entered = [i \in Index |-> 0] /\ passed = [i \in Index |-> 0]

-----------------------------------------------------------------------------
(* init_barrier and the handshake. *)

\* mutant: a retry starts the barrier from the beginning
MutEnter(i) ==
    /\ pc[i] = "out"
    /\ passed[i] < MaxBarriers
    /\ left_child_ok' = left_child_ok \ {i} /\ right_child_ok' = right_child_ok \ {i}
    /\ barrier_is_in_progress' = barrier_is_in_progress \cup {i}
    /\ entered' = [entered EXCEPT ![i] = IF i \in barrier_is_in_progress THEN @ ELSE @ + 1]
    /\ Goto(i, IF i \in handshake_ok THEN "left" ELSE "handshake")
    /\ UNCHANGED <<shake, signals, passed>>

\* A call of barrier(): a new one unless the last one timed out. One that has notified its
\* parent goes straight to the wait for it.
Enter(i) ==
    /\ pc[i] = "out"
    /\ IF i \in barrier_is_in_progress
       THEN /\ Goto(i, IF i \in left_child_ok /\ i \in right_child_ok THEN "parent" ELSE "left")
            /\ UNCHANGED <<flags, entered>>
       ELSE /\ entered[i] < MaxBarriers
            /\ entered' = [entered EXCEPT ![i] = @ + 1]
            /\ left_child_ok' = left_child_ok \ {i} /\ right_child_ok' = right_child_ok \ {i}
            /\ barrier_is_in_progress' = barrier_is_in_progress \cup {i}
            /\ Goto(i, IF i \in handshake_ok THEN "left" ELSE "handshake")
    /\ UNCHANGED <<shake, signals, passed>>

\* gaspi_passive_send with GASPI_TEST, again in the next turn of the loop until it succeeds.
\* The neighbour's index in the group is used as its rank.
HandshakeSend(i) ==
    /\ pc[i] = "handshake"
    /\ \E n \in Neighbors(i) \ msg_sent[i] :
        /\ msg_sent' = [msg_sent EXCEPT ![i] = @ \cup {n}]
        /\ passive' = passive \cup {<<RanksInGroup[i], n>>}
    /\ UNCHANGED <<timeouts, pc, flags, handshake_ok, msg_recieved, signals, entered, passed>>

\* mutant: the message of a right child is dropped like a stranger's
MutHandshakeReceive(i) ==
    /\ pc[i] = "handshake"
    /\ \E m \in passive :
        /\ m[2] = RanksInGroup[i]
        /\ passive' = passive \ {m}
        /\ msg_recieved' = [msg_recieved EXCEPT ![i] = @ \cup ({m[1]} \cap (Neighbors(i) \ {Right[i]}))]
    /\ UNCHANGED <<timeouts, pc, flags, handshake_ok, msg_sent, signals, entered, passed>>
\* A message from somebody who is not a neighbour is dropped.
HandshakeReceive(i) ==
    /\ pc[i] = "handshake"
    /\ \E m \in passive :
        /\ m[2] = RanksInGroup[i]
        /\ passive' = passive \ {m}
        /\ msg_recieved' = [msg_recieved EXCEPT ![i] = @ \cup ({m[1]} \cap Neighbors(i))]
    /\ UNCHANGED <<timeouts, pc, flags, handshake_ok, msg_sent, signals, entered, passed>>

HandshakeDone(i) ==
    /\ pc[i] = "handshake"
    /\ msg_sent[i] = Neighbors(i) /\ msg_recieved[i] = Neighbors(i)
    /\ handshake_ok' = handshake_ok \cup {i}
    /\ Goto(i, "left")
    /\ UNCHANGED <<timeouts, flags, msg_sent, msg_recieved, passive, signals, entered, passed>>

-----------------------------------------------------------------------------
(* barrier(): from the leaves to the root, from the root to the leaves. *)

Waiting(i, id) == notification[i][id] = 0
Reset(i, id) == notification' = [notification EXCEPT ![i][id] = 0]

\* Whether the rank waits for a child: when it has one, and also when its flag is set.
WaitsLeft(i) == Left[i] /= NoRank \/ i \in left_child_ok
WaitsRight(i) == Right[i] /= NoRank \/ i \in right_child_ok

WaitLeft(i) ==
    /\ pc[i] = "left"
    /\ IF WaitsLeft(i) THEN ~ Waiting(i, FromLeft) /\ Reset(i, FromLeft) ELSE UNCHANGED notification
    /\ left_child_ok' = left_child_ok \cup {i}
    /\ Goto(i, "right")
    /\ UNCHANGED <<barrier_is_in_progress, right_child_ok, shake, wire, entered, passed>>

\* mutant: the right subtree is not waited for when the left one has answered
MutWaitRight(i) ==
    /\ pc[i] = "right"
    /\ right_child_ok' = right_child_ok \cup {i}
    /\ Goto(i, "up")
    /\ UNCHANGED <<barrier_is_in_progress, left_child_ok, shake, signals, entered, passed>>

WaitRight(i) ==
    /\ pc[i] = "right"
    /\ IF WaitsRight(i) THEN ~ Waiting(i, FromRight) /\ Reset(i, FromRight) ELSE UNCHANGED notification
    /\ right_child_ok' = right_child_ok \cup {i}
    /\ Goto(i, "up")
    /\ UNCHANGED <<barrier_is_in_progress, left_child_ok, shake, wire, entered, passed>>

Notify(w, i, to, id) ==
    IF to = NoRank THEN w ELSE [w EXCEPT ![to][id] = Append(@, RanksInGroup[i] + 1)]

NotifyUp(i) ==
    /\ pc[i] = "up"
    /\ wire' = Notify(wire, i, Parent[i], IF IsLeftChild(i) THEN FromLeft ELSE FromRight)
    /\ Goto(i, "parent")
    /\ UNCHANGED <<flags, shake, notification, entered, passed>>

WaitParent(i) ==
    /\ pc[i] = "parent"
    /\ IF Parent[i] /= NoRank THEN ~ Waiting(i, FromParent) /\ Reset(i, FromParent) ELSE UNCHANGED notification
    /\ Goto(i, "down")
    /\ UNCHANGED <<flags, shake, wire, entered, passed>>

NotifyDown(i) ==
    /\ pc[i] = "down"
    /\ wire' = Notify(Notify(wire, i, Left[i], FromParent), i, Right[i], FromParent)
    /\ barrier_is_in_progress' = barrier_is_in_progress \ {i}
    /\ passed' = [passed EXCEPT ![i] = @ + 1]
    /\ Goto(i, "out")
    /\ UNCHANGED <<left_child_ok, right_child_ok, shake, notification, entered>>

\* gaspi_notify_waitsome runs out of time, and barrier() returns what it returned.
Timeout(i) ==
    /\ timeouts
    /\ \/ pc[i] = "left" /\ WaitsLeft(i) /\ Waiting(i, FromLeft)
       \/ pc[i] = "right" /\ WaitsRight(i) /\ Waiting(i, FromRight)
       \/ pc[i] = "parent" /\ Parent[i] /= NoRank /\ Waiting(i, FromParent)
    /\ Goto(i, "out")
    /\ UNCHANGED <<flags, shake, signals, entered, passed>>

\* A notification arrives: it replaces the value that is there.
Arrive(i, id) ==
    /\ wire[i][id] /= <<>>
    /\ notification' = [notification EXCEPT ![i][id] = Head(wire[i][id])]
    /\ wire' = [wire EXCEPT ![i][id] = Tail(@)]
    /\ UNCHANGED <<pc, flags, shake, entered, passed>>

Step(i) ==
    \/ Enter(i) \/ HandshakeDone(i)
    \/ WaitLeft(i) \/ WaitRight(i) \/ NotifyUp(i) \/ WaitParent(i) \/ NotifyDown(i)

Next ==
    \/ \E i \in Index : Step(i) \/ HandshakeSend(i) \/ HandshakeReceive(i) \/ Timeout(i)
    \/ \E i \in Index : \E id \in 0 .. 2 : Arrive(i, id)

Spec == Init /\ [][Next]_vars

\* Every rank runs and calls again after a timeout, a passive send that is tried again and
\* again succeeds, and what was sent arrives. No wait has to time out.
FairSpec ==
    /\ Spec
    /\ \A i \in Index : WF_vars(Step(i)) /\ WF_vars(HandshakeSend(i)) /\ WF_vars(HandshakeReceive(i))
    /\ \A i \in Index : \A id \in 0 .. 2 : WF_vars(Arrive(i, id))

-----------------------------------------------------------------------------
\* The variables keep their types.
TypeOK ==
    /\ timeouts \in BOOLEAN
    /\ pc \in [Index -> {"out", "handshake", "left", "right", "up", "parent", "down"}]
    /\ handshake_ok \subseteq Index /\ barrier_is_in_progress \subseteq Index
    /\ left_child_ok \subseteq Index /\ right_child_ok \subseteq Index
    /\ msg_sent \in [Index -> SUBSET Index] /\ msg_recieved \in [Index -> SUBSET Index]
    /\ notification \in [Index -> [0 .. 2 -> Nat]]
    /\ entered \in [Index -> 0 .. MaxBarriers] /\ passed \in [Index -> 0 .. MaxBarriers]

\* The assertions of barrier(): a notification that is waited for carries the rank of the child
\* or of the parent that its id stands for.
ValueAsserts ==
    \A i \in Index : \A id \in 0 .. 2 :
        notification[i][id] /= 0 =>
            /\ Sender(i, id) /= NoRank
            /\ notification[i][id] = RanksInGroup[Sender(i, id)] + 1

\* No notification is sent while the last one with its id is still on its way or not yet reset:
\* it would be lost, and a rank that waits for two of them would wait for ever. This is what
\* notifying "up once per barrier session" is for, and it must survive timeouts and retries.
NoNotificationLost ==
    \A i \in Index : \A id \in 0 .. 2 :
        Len(wire[i][id]) + (IF notification[i][id] = 0 THEN 0 ELSE 1) <= 1

\* A rank shakes hands with neighbours that it has computed for itself. In trees of all sizes up
\* to MaxSize those are the ranks that shake hands with it, and the tree spans the group.
TreeIsRight == (\E i \in Index : pc[i] = "handshake") => TreesAreRight

\* The notifications mean what their receivers take them for, and none is lost.
NotificationsAreSound == TypeOK /\ ValueAsserts /\ NoNotificationLost

\* A rank is out of the barrier, with success, only when every rank of the group has entered it.
B == INSTANCE Barrier WITH Members <- Index
ImplementsBarrier == B!Spec

\* Without timeouts everybody gets through all barriers, the handshake of the first included.
Completion == ~ timeouts => <>(\A i \in Index : passed[i] = MaxBarriers)
=============================================================================
