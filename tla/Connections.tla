----------------------------- MODULE Connections -----------------------------
(***************************************************************************)
(* A context before it works: its segments and queues, the ranks it        *)
(* registers to, set_problem, and the dummy notifications that open a      *)
(* segment to thieves. After them the ranks work, here only by notifying   *)
(* each other of results, and check their queues when they have finished.  *)
(***************************************************************************)
EXTENDS Integers, Sequences, FiniteSets

CONSTANTS
    NbRanks,
    Dvs,       \* Dvs[r]: the ranks that the constructor of r's DVS context registers to
    Dynamic,   \* gaspi_config_build_infrastructure = GASPI_TOPOLOGY_DYNAMIC (else STATIC)
    QueueNum,  \* gaspi_queue_num
    QueueMax,  \* gaspi_queue_size_max
    MaxContexts, MaxProblems, MaxPushes \* bounds: contexts, problems per context, results per problem

Rank == 0 .. NbRanks - 1
Queue == 0 .. QueueNum - 1

ASSUME ConnectionsAssumption ==
    /\ NbRanks \in Nat \ {0} /\ Dynamic \in BOOLEAN
    /\ QueueNum \in Nat \ {0} /\ QueueMax \in Nat \ {0, 1}
    /\ MaxContexts \in Nat /\ MaxProblems \in Nat \ {0} /\ MaxPushes \in Nat
    /\ Dvs \in [Rank -> SUBSET Rank]
    /\ \A r, s \in Rank : s \in Dvs[r] <=> r \in Dvs[s]

\* The four segments of context c are 4 * c + kind; its three queues begin at 3 * c.
TASK == 0
RESULT == 1
TMP == 2
SCRATCH == 3
SegmentId(c, kind) == 4 * c + kind
queue_result(c) == 3 * c + 1

VARIABLES
    context,    \* context[r]: the id of r's context, -1 when it has none
    problems,   \* problems[r]: set_problem calls on it
    todo,       \* todo[r]: what is left of the constructor or of set_problem; <<>> outside of them
    mode,       \* mode[r]: "user", "work", "dead", or inside a step: "collective", "notify", "wait"
    calls,      \* calls[r]: collective calls entered
    next,       \* next[r]: the loop variable of open_segment_to_thieves
    registrations_status, \* the ranks r is registered to
    created,    \* created[r]: its segments
    queue,      \* queue[r][q]: requests posted to q and not waited for
    wire,       \* notifications on their way
    notified,   \* notified[r]: notifications that have arrived at r and are not reset
    pushes      \* pushes[r]: results r has sent since set_problem

program == <<context, problems, todo, mode, calls, next>>
memory == <<registrations_status, created>>
network == <<queue, wire, notified>>
vars == <<program, memory, network, pushes>>

Init ==
    /\ context = [r \in Rank |-> -1] /\ problems = [r \in Rank |-> 0]
    /\ todo = [r \in Rank |-> <<>>] /\ mode = [r \in Rank |-> "user"]
    /\ calls = [r \in Rank |-> 0] /\ next = [r \in Rank |-> 0]
    /\ registrations_status = [r \in Rank |-> {}] /\ created = [r \in Rank |-> {}]
    /\ queue = [r \in Rank |-> [q \in Queue |-> 0]]
    /\ wire = {} /\ notified = [r \in Rank |-> {}]
    /\ pushes = [r \in Rank |-> 0]

Is(r, m, step) == mode[r] = m /\ todo[r] /= <<>> /\ Head(todo[r])[1] = step
Kind(r) == Head(todo[r])[2]
Segment(r) == SegmentId(context[r], Kind(r))
To(r, m) == mode' = [mode EXCEPT ![r] = m] /\ UNCHANGED todo
Done(r) == mode' = [mode EXCEPT ![r] = "user"] /\ todo' = [todo EXCEPT ![r] = Tail(@)]

-----------------------------------------------------------------------------
(* The constructor of a context and set_problem. *)

TaskSegmentSteps == <<<<"create", TASK>>, <<"tree", TASK>>, <<"barrier", TASK>>, <<"dvs", TASK>>>>

NewContext(r) ==
    /\ mode[r] = "user" /\ todo[r] = <<>>
    /\ context[r] + 1 < MaxContexts
    /\ context[r] >= 0 => problems[r] = MaxProblems
    /\ context' = [context EXCEPT ![r] = @ + 1]
    /\ problems' = [problems EXCEPT ![r] = 0]
    /\ registrations_status' = [registrations_status EXCEPT ![r] = {}]
    /\ todo' = [todo EXCEPT ![r] = TaskSegmentSteps]
    /\ UNCHANGED <<mode, calls, next, created, network, pushes>>

\* mutant: the result segment is opened last
MutOpenSteps == <<<<"open", TASK>>, <<"open", TMP>>, <<"open", RESULT>>>>
OpenSteps == <<<<"open", RESULT>>, <<"open", TMP>>, <<"open", TASK>>>>

\* The first problem of a context creates the other segments, and forces the connections.
SetProblemSteps(first) ==
    (IF first THEN <<<<"create", RESULT>>, <<"create", TMP>>, <<"create", SCRATCH>>>> ELSE <<>>)
    \o <<<<"barrier", TASK>>>>
    \o (IF first /\ Dynamic THEN OpenSteps ELSE <<>>) \o <<<<"work", TASK>>>>

SetProblem(r) ==
    /\ mode[r] = "user" /\ todo[r] = <<>>
    /\ context[r] >= 0 /\ problems[r] < MaxProblems
    /\ problems' = [problems EXCEPT ![r] = @ + 1]
    /\ pushes' = [pushes EXCEPT ![r] = 0]
    /\ todo' = [todo EXCEPT ![r] = SetProblemSteps(problems[r] = 0)]
    /\ UNCHANGED <<context, mode, calls, next, memory, network>>

\* gaspi_segment_create and gaspi_barrier over GASPI_GROUP_ALL: nobody leaves before all are in.
EnterCollective(r) ==
    /\ \/ Is(r, "user", "create") /\ created' = [created EXCEPT ![r] = @ \cup {Segment(r)}]
       \/ Is(r, "user", "barrier") /\ UNCHANGED created
    /\ calls' = [calls EXCEPT ![r] = @ + 1]
    /\ To(r, "collective")
    /\ UNCHANGED <<context, problems, next, registrations_status, network, pushes>>

LeaveCollective(r) ==
    /\ mode[r] = "collective"
    /\ \A s \in Rank : calls[s] >= calls[r]
    /\ Done(r)
    /\ UNCHANGED <<context, problems, calls, next, memory, network, pushes>>

\* register_to_rank for the rank itself, its parent and its children in the termination tree
Tree(r) == {r} \cup ({2 * r + 1, 2 * r + 2} \cap Rank) \cup (IF r = 0 THEN {} ELSE {(r - 1) \div 2})

Register(r) ==
    /\ \/ Is(r, "user", "tree") /\ registrations_status' = [registrations_status EXCEPT ![r] = Tree(r)]
       \/ Is(r, "user", "dvs") /\ registrations_status' = [registrations_status EXCEPT ![r] = @ \cup Dvs[r]]
    /\ Done(r)
    /\ UNCHANGED <<context, problems, calls, next, created, network, pushes>>

-----------------------------------------------------------------------------
(* open_segment_to_thieves *)

OpenSegment(r) ==
    /\ Is(r, "user", "open")
    /\ next' = [next EXCEPT ![r] = 0]
    /\ To(r, "notify")
    /\ UNCHANGED <<context, problems, calls, memory, network, pushes>>

\* wait_if_queue_full: the wait, once it succeeds, has emptied the queue.
Full(size, request) == size + request >= QueueMax

Post(r, q, n) == [queue EXCEPT ![r][q] = (IF Full(@, n) THEN 0 ELSE @) + n]
Notification(r, seg, to, id, value) ==
    [from |-> r, to |-> to, segment |-> seg, id |-> id, value |-> value]

\* mutant: the loop variable is not incremented for a rank that is skipped
MutDummyNotify(r) ==
    /\ mode[r] = "notify" /\ next[r] < NbRanks
    /\ IF next[r] \in registrations_status[r]
       THEN /\ next' = [next EXCEPT ![r] = @ + 1]
            /\ queue' = Post(r, 0, 1)
            /\ wire' = wire \cup {Notification(r, Segment(r), next[r], r, 1)}
       ELSE UNCHANGED <<next, queue, wire>>
    /\ UNCHANGED <<context, problems, todo, mode, calls, memory, notified, pushes>>
\* One turn of the first loop: a dummy notification on queue 0, whose id is the sender's rank.
DummyNotify(r) ==
    /\ mode[r] = "notify" /\ next[r] < NbRanks
    /\ next' = [next EXCEPT ![r] = @ + 1]
    /\ IF next[r] \in registrations_status[r]
       THEN /\ queue' = Post(r, 0, 1)
            /\ wire' = wire \cup {Notification(r, Segment(r), next[r], r, 1)}
       ELSE UNCHANGED <<queue, wire>>
    /\ UNCHANGED <<context, problems, todo, mode, calls, memory, notified, pushes>>

\* gaspi_wait(arg): the queue that is waited for has the number of the segment. Waiting for a
\* queue that does not exist fails, and SUCCESS_OR_DIE ends the process.
WaitQueue(r) ==
    /\ mode[r] = "notify" /\ next[r] = NbRanks
    /\ IF Segment(r) \in Queue
       THEN queue' = [queue EXCEPT ![r][Segment(r)] = 0] /\ To(r, "wait")
       ELSE To(r, "dead") /\ UNCHANGED queue
    /\ next' = [next EXCEPT ![r] = 0]
    /\ UNCHANGED <<context, problems, calls, memory, wire, notified, pushes>>

\* One turn of the second loop: the notification of a registered rank, and its reset.
DummyWait(r) ==
    /\ mode[r] = "wait" /\ next[r] < NbRanks
    /\ next' = [next EXCEPT ![r] = @ + 1]
    /\ IF next[r] \in registrations_status[r]
       THEN \E n \in notified[r] : /\ n.segment = Segment(r) /\ n.id = next[r]
                                   /\ notified' = [notified EXCEPT ![r] = @ \ {n}]
       ELSE UNCHANGED notified
    /\ UNCHANGED <<context, problems, todo, mode, calls, memory, queue, wire, pushes>>

SegmentIsOpen(r) ==
    /\ mode[r] = "wait" /\ next[r] = NbRanks
    /\ Done(r)
    /\ UNCHANGED <<context, problems, calls, next, memory, network, pushes>>

\* A notification arrives, and replaces one with its id that is still there.
Arrive(n) ==
    /\ n \in wire
    /\ wire' = wire \ {n}
    /\ notified' = [notified EXCEPT ![n.to] = {o \in @ : o.segment /= n.segment \/ o.id /= n.id} \cup {n}]
    /\ UNCHANGED <<program, memory, queue, pushes>>

-----------------------------------------------------------------------------
(* parallel_work *)

Work(r) ==
    /\ Is(r, "user", "work")
    /\ To(r, "work")
    /\ UNCHANGED <<context, problems, calls, next, memory, network, pushes>>

\* The ranks that termination detection has let go.
Finished(r) ==
    {s \in Rank : todo[s] = <<>> \/ problems[s] /= problems[r] \/ context[s] /= context[r]}

ResultsFor(s) ==
    {n \in wire : n.to = s /\ n.value = 2} \cup {n \in notified[s] : n.value = 2}

\* try_push_vector_elt_to: results for a registered rank, written and notified under the lock of
\* its result segment, as its first element (id 0); the queue is waited for. The value of such
\* a notification, a number of elements, is 2 here to tell it from a dummy one.
Push(r, s) ==
    /\ mode[r] = "work" /\ s \in registrations_status[r] \ {r}
    /\ pushes[r] < MaxPushes /\ Finished(r) = {} /\ ResultsFor(s) = {}
    /\ pushes' = [pushes EXCEPT ![r] = @ + 1]
    /\ queue' = [queue EXCEPT ![r][queue_result(context[r])] = 0]
    /\ wire' = wire \cup {Notification(r, SegmentId(context[r], RESULT), s, 0, 2)}
    /\ UNCHANGED <<program, memory, notified>>

TakeResults(r) ==
    /\ mode[r] = "work"
    /\ \E n \in notified[r] : /\ n.segment = SegmentId(context[r], RESULT) /\ n.id = 0
                              /\ notified' = [notified EXCEPT ![r] = @ \ {n}]
    /\ UNCHANGED <<program, memory, queue, wire, pushes>>

\* Termination detection lets a rank finish when everybody has begun and nothing is under way.
\* The four queues it then looks at have the numbers of its segments.
Finish(r) ==
    /\ mode[r] = "work"
    /\ \A s \in Rank : ResultsFor(s) = {} /\ (mode[s] = "work" \/ s \in Finished(r))
    /\ IF \A kind \in {TASK, RESULT, TMP, SCRATCH} :
            /\ SegmentId(context[r], kind) \in Queue
            /\ queue[r][SegmentId(context[r], kind)] = 0
       THEN Done(r) ELSE To(r, "dead")
    /\ UNCHANGED <<context, problems, calls, next, memory, network, pushes>>

\* The program stops when it has done what it wanted.
Over == \A r \in Rank : /\ mode[r] = "user" /\ todo[r] = <<>>
                        /\ context[r] = MaxContexts - 1 /\ problems[r] = MaxProblems
Stop == Over /\ UNCHANGED vars

Step(r) ==
    \/ NewContext(r) \/ SetProblem(r) \/ EnterCollective(r) \/ LeaveCollective(r) \/ Register(r)
    \/ OpenSegment(r) \/ DummyNotify(r) \/ WaitQueue(r) \/ DummyWait(r) \/ SegmentIsOpen(r)
    \/ Work(r) \/ TakeResults(r) \/ Finish(r)

Next ==
    \/ \E r \in Rank : Step(r) \/ \E s \in Rank : Push(r, s)
    \/ \E n \in wire : Arrive(n)
    \/ Stop

Spec == Init /\ [][Next]_vars

\* Every rank runs its program and what was sent arrives; nobody has to push results.
FairSpec ==
    /\ Spec
    /\ \A r \in Rank : WF_vars(Step(r))
    /\ WF_vars(\E n \in wire : Arrive(n))

-----------------------------------------------------------------------------
\* The variables keep their types.
TypeOK ==
    /\ context \in [Rank -> -1 .. MaxContexts - 1] /\ problems \in [Rank -> 0 .. MaxProblems]
    /\ mode \in [Rank -> {"user", "collective", "notify", "wait", "work", "dead"}]
    /\ calls \in [Rank -> Nat] /\ next \in [Rank -> 0 .. NbRanks]
    /\ registrations_status \in [Rank -> SUBSET Rank]
    /\ created \in [Rank -> SUBSET Nat]
    /\ queue \in [Rank -> [Queue -> Nat]]
    /\ pushes \in [Rank -> 0 .. MaxPushes]

\* The assertion of open_segment_to_thieves, val == 1: a handshake takes no notification of
\* results for a dummy one, though both use the ids from 0 on of the result segment and the
\* ranks leave set_problem at different times.
DummiesAreDummies ==
    \A r \in Rank : Is(r, "wait", "open") /\ next[r] \in registrations_status[r] =>
        \A n \in notified[r] : n.segment = Segment(r) /\ n.id = next[r] => n.value = 1

\* And no rank takes a dummy notification for results; none is left when the work begins.
ResultsAreResults ==
    \A r \in Rank : mode[r] = "work" => \A n \in notified[r] : n.value = 2 \/ n.segment /= SegmentId(context[r], RESULT)

\* The two kinds of notifications are kept apart.
NotificationsKeptApart == TypeOK /\ DummiesAreDummies /\ ResultsAreResults

\* A working rank finds every rank it is registered to registered to it (unless that rank has
\* finished and makes its next context), with all its segments there and the result segment
\* open, so whatever it steals from or pushes to is set up.
SetUpBeforeUse ==
    \A r \in Rank : mode[r] = "work" =>
        \A s \in registrations_status[r] :
            /\ context[s] = context[r] => r \in registrations_status[s]
            /\ \A kind \in TASK .. SCRATCH : SegmentId(context[r], kind) \in created[s]
            /\ Dynamic => \A n \in wire \cup notified[s] :
                              n.to = s /\ n.segment = SegmentId(context[r], RESULT) => n.value = 2

\* No queue is filled to its limit by the notifications of a handshake.
QueuesFit == \A r \in Rank : \A q \in Queue : queue[r][q] < QueueMax

\* ASSERT(qsize == 0) when parallel_work has finished: the queues a rank looks at exist and have
\* been waited for. They are found by the numbers of segments, and what a handshake posts goes to
\* queue 0: it is the order in which the segments are opened that empties it.
QueuesChecked == \A r \in Rank : mode[r] /= "dead"

\* No request is posted to a full queue and no queue is looked at that does not exist.
QueuesUsable == QueuesFit /\ QueuesChecked

\* Every rank gets through its contexts and problems; no handshake waits for ever.
SetupEnds == <>Over
=============================================================================
