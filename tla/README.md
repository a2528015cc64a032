# TITUS: a verification project

TITUS distributes tasks over the ranks of a GASPI job. Every rank works on its
own tasks; a rank without work steals a batch from another rank's memory with
one-sided reads, and the results of stolen tasks travel back to the rank that
owns the tasks. Nothing but compare-and-swap, fetch-and-add, remote reads and
writes, and notifications keeps the ranks apart. This directory holds TLA+
models of that protocol, TLC runs on small jobs, and proofs for jobs of any size.

File names below are relative to the repository's `src/` directory, and
`TITUS_DLB_` is left out of the names (`work_stealing.cpp` is
`TITUS_DLB_work_stealing.cpp`).

## 1. Inventory

| Component | State it keeps | Operations | Talks to |
|---|---|---|---|
| Task segments and work stealing (`work_on_my_dequeue`, `work_stealing`, `load_balancing`) | private dequeue; shared task segment with its lock word `state`; tmp segment | run a task, refill, self-theft, lock / read / unlock of a victim, active wait | the same segments of other ranks |
| Termination detection (`termination_detection`) | two subtree flags and a global flag in the result segment, a static flag | notify the parent, detect at the root, signal the children | parent and children of the rank, by remote fetch-and-add |
| Session (`context`: `set_problem`, `parallel_work`, `submit_results`, `reset`) | the user's result array, `nb_result`, `nb_usr_results`; the sizes of the segments; a second thread | begin a problem, size and create segments, count a result, end, kill what is late | all of the above; a barrier over all ranks |
| SegmentMetadata: buffered result segments (`buffered_segment_metadata`) | head, count and elements in the segment; elements set aside in local memory | reserve, write, notify, flush, route | the next hop of each result |
| Work requesting (`work_requesting`) | the lock word; a notification per rank | request, answer | a victim that must answer |
| GASPI initialisation, registration, barrier (`TITUS_DLB.cpp`, `context`) | registration table, queues, barrier status | register, open a segment to thieves, handshake, barrier with timeout | all ranks |
| DVS (victim_selector) | a graph on the ranks | select a victim, select the next hop, tree neighbours | work stealing, routing |
| Logger, TITUS_DBG | timers, counters, sessions | start, stop, aggregate, print | its own process |
| gaspi_tools | a queue; signal handlers | wait for room in a queue; pass a signal on and quit | all who post requests |
| C / Fortran interfaces, display | none | forward, print | |
| DLB_Bench | its task distribution | `set_problem`, `parallel_work`, again | the library |

What is hard about each, and what makes it correct:

* **Work stealing.** Owner and thieves race for one word, whose states say who
  may touch the segment: `TASK_AVAILABLE` (anyone may lock it), a rank (locked by
  it), `FREE_FOR_COPY` (robbed, the owner may refill), `NO_TASK`. The owner writes
  the segment without a lock when the word is `FREE_FOR_COPY`, a thief copies the
  word of its victim (its own rank) into its own segment, and the static type of
  a batch (`owner`, `end_task_id`, `nb_task`) must stay consistent with the data
  over refills, self-thefts and thefts of stolen batches. Correct means: each task
  runs once, its result is stored once in its slot, no segment is written under a
  reader, every assertion on lock words holds, and workers do not wait for ever.
* **Termination detection.** A rank enters detection when it has its own results;
  it must not leave before all have theirs, and the flags of consecutive sessions
  must not be confused although ranks leave a session at different times.
* **Result segments.** Several writers reserve room, then write, then notify; the
  owner must not flush what is not written, nor lose what it cannot send on.
* **Routing.** Every hop must come closer to the owner.
* **Sizes.** Capacities are quotients of byte sizes; zero is possible. A segment made
  for the first problem of a context is used for the next ones, which have other sizes.
* **Opening a segment.** Every rank notifies those it is registered to, under ids that
  results use as well, and through queues that are found by the numbers of segments.
* **Barrier.** A wait may time out in the middle, and the caller tries again.
* **Requests.** The other algorithm must not lose or misplace tasks either.
* **Logger.** Timers are started, stopped and reset in any order and sessions close over
  running ones; totals are merged from sorted maps whose keys change.
* **Victims and hops.** The library asks whatever DVS context a static pointer names; which
  ranks may be asked is recorded elsewhere, in the context of the library. A program that
  makes, swaps and deletes either kind must not part the two.

`PROJECT.json` lists the hazards one by one, at the line where each bites.

## 2. Plan

| # | Module | What | State |
|---|---|---|---|
| 1 | `TaskStealing`, `TaskPool` | work stealing, and the pool of tasks it implements | checked; every safety property proved, and the implementation |
| 2 | `Termination`, `Sessions` | tree detection, and the sessions it implements | checked, proved |
| 3 | `ResultBuffer`, `ResultTransport` | reservation, write, notification, flush and setting aside; and the set of batches in transit it implements | checked; every safety property proved, and the implementation |
| 4 | `SmallWorld` | symmetric neighbour graph, greedy next hop against ring distance | checked, proved |
| 5 | `WorkRequesting` | the other algorithm, composed with `TaskStealing` | checked, proved |
| 6 | `SegmentSizing` | capacities in bytes against the assertions of `set_problem` | checked, proved |
| 7 | `Connections` | registration, opening of segments, queues | checked, proved |
| 8 | `InfixTree`, `TreeBarrier`, `Barrier` | in-order tree; notification barrier with retries; and the barrier it implements | checked, proved |
| 9 | `Logger` | timers, sessions and totals | checked, proved |
| 10 | `VictimSelection` | DVS contexts, victims and hops, registrations | checked, proved |
| 11 | `ParallelWorkTimeout` | the thread that kills a late call | a finding |

The composition of `TaskStealing` with the tree of `Termination`, and with the routes of
`ResultBuffer`, is by abstraction: each shows the specification that the other
assumes (`Sessions`, `ResultTransport`).

## 3. Modules

### TaskStealing (the core)

| Variable | Code |
|---|---|
| `pc[r]` | where rank r is in `parallel_work`, `work_on_my_dequeue`, `work_stealing` |
| `state[r]` | `state` of r's `MetadataTask`; the special values are negative numbers |
| `seg[r]` | `owner_task_rank`, `nb_task`, `end_task_id` and (`base`) the task the data begins with |
| `dq[r]` | `Dequeue`: owner, head, tail, `end_task_id`, and the task at the start of the array |
| `tmp[r]` | `MetadataTmp`: owner, `last_result_id`, `nb_result` |
| `target[r]` | `target_rank` of the theft r is in |
| `nbTask`, `results`, `nbResult` | `nb_usr_results`, the filled slots of the user's array, `nb_result` |
| `inTransit` | batches on their way to their owner |
| `terminated`, `session` | detection has answered; calls of `set_problem` |

Steps are cut where another rank can interleave. An access to a lock word is a
step of its own; code that works on private data between two such accesses is
joined to one of them. A theft is: swap the victim's word, read the metadata (and
with it the word), read the rest (`SIZE_FIRST_READ`), unlock the victim, release
the own segment. The task identity in the model is a pair of owner and number;
what the task computes is left out. `base` is kept apart from `end` so that the
agreement of metadata and data is a property and not an assumption.

The tmp segment's flow is part of the worker's actions: `ReturnFullTmp` and
`LeaveLoop` contain `push_tmp_results`. Transport is abstract here: a batch stays
in `inTransit` until its owner submits it in one of its flushes, in any order.
Detection is the single action `DetectTermination`; module Termination justifies it.

`TaskPool` is the abstract specification: a task is held, done, delivered; a
theft is one step that moves tasks. The refinement mapping (end of TaskStealing)
takes a segment's tasks as held by its rank while `SegmentLive`: the theft happens
at `ReadMetadata`, when the metadata with the tasks' names reach the thief.

### Termination

One action per branch of `termination_detection`: `NotifyParent`, `DetectAtRoot`,
`LearnTermination`, then one step for each remote fetch-and-add to a child,
because the child may leave, and begin its next session as far as the barrier,
between the two. `LastResult` is the submission of a rank's last result;
`SetProblem` is the reset of the flags, before the barrier that `ParallelWork`
passes. `reached[r]` is the function's static variable, which no reset touches.
`Sessions` is what a caller sees: begin, complete, end.

### ResultBuffer

| Variable | Code |
|---|---|
| `pc[r]`, `ret[r]` | where rank r is in `return_results_buffered`, `push_tmp_results` and the flush they call; where the flush returns to |
| `tmp[r]` | the batch in the tmp segment |
| `state[r]` | `state` of r's `MetadataResult`: `SEGMENT_AVAILABLE`, `COPY_IN_PROGRESS` (the owner flushes), or a rank |
| `head[r]`, `count[r]` | `buffer_head` (from `buffer_tail` on) and `buffer_elt_count` |
| `mem[r]` | the memory after the metadata: which element begins at an offset |
| `notif[r]`, `index[r]` | GASPI notifications of r's segment; the loop variable of `wait_notifications_for_all_elts` |
| `wire` | `gaspi_write_list` and `gaspi_notify` that were posted and have not taken effect |
| `local[r]`, `onSegment[r]` | `local_transiting_results`, and those of its entries that point into the segment (`first == segment_id`) |
| `hops[r]` | the keys of the multimap the flush has still to visit |
| `seen[r]`, `selected[r]` | the copy `remote_bsm` of the metadata; `selected_elts_to_push` |

`return_results_buffered` is `ReturnResults`, `PushTmpResults`, the allocation in
the own segment (`TryAlloc` to `AllocWrite`, with the retry `AllocFailed`), and
`SecondPass`; `try_flush_buffer_elts_packed` is `LockOwn` to `UnlockOwn`, with
`TryLockTarget` to `Write` for each next hop. Lock, read, fetch-and-add, unlock and
write are steps of their own because other ranks see each of them; the two
fetch-and-adds are one step, since only the holder of the lock reads what they
change. A posted write takes effect as data first, then as notification (GASPI
orders the two on one queue); nothing else about delivery is assumed, in particular
`gaspi_wait` on the writer's side says nothing about it. Sizes are small numbers
that stand for `buffer_entry_size`; memory is kept by offset so that an element
written over another, or read before it is written, is visible. Which elements
`select_elts_to_push` takes depends on their order in the multimap: any maximal
choice that fits is allowed. `SizeOf`, the room of several batches, counts their `Units`,
so that what it adds up to follows from facts about cardinality. The next hop is the constant `NextHop`,
and `problem` the set of batches of this session, one of `Problems`.

`ResultTransport` is what the ends of a route see: a batch is handed over once, is
in transit, and is submitted once by its owner. This is the transport TaskStealing
assumes (`inTransit`, `SubmitArrived`).

### SmallWorld

`neighbors` is the array of sets of `d1_kleinberg_neighboring_generator`, `a` and
`i` the loop variables of `add_random_neighbors`; `at` and `dest` are a batch of
results and its owner. All ranks build the graph from the same seed, so there is one
graph; a draw of the generator is an arbitrary distance and sign. `Drawn` keeps the
unsigned arithmetic of the code: below 0 the sum wraps at 2^64, and unless the
number of ranks is a power of two, a rank may draw itself. `Candidates` and
`NextHop` are `get_closest_neighbor`. When no neighbour is at or above the
destination, the code dereferences `end()` before it compares; libstdc++ has the
number of elements of the set at that place, which `LowerBound` returns.

`ResultBuffer` takes the next hop as a constant: its assumption that the next hop of
a rank is another rank is `RoutesShorten`.

### WorkRequesting

`TaskStealing` with a variable `algorithm` and a thief's other way to ask: `Request` is
`work_requesting`. Its swap is addressed to offset 0 of the segment, where the object
in the segment has its virtual table pointer (`first_word`), and not to the lock word.
A pointer is none of the lock words, so each request misses, and the code behind a hit
(the wait for the victim's notification, `detection_request`'s answer) is never
reached. That is what `RequestsMiss` states, with what follows: nothing is balanced,
nothing is lost, and the count of stolen tasks, which is increased after a miss too,
stays right only because a thief's own segment is empty.

### SegmentSizing

One rank's sizes in bytes (all ranks compute the same): the constructor, `set_problem`
with its assertions, its `int` product and the reallocation of the dequeue's buffer, and
then how many tasks and results the work loop puts into each segment. Integers have the
width of the code in small (`IntRange`, `LongRange`); signed overflow wraps, as the
builds of the repository make it. `nb_result_max` may be negative for the smallest
segments, which in `unsigned` arithmetic is a huge number; and 0 leads to the assertion at the top of
the work loop (`dead`), which is what `CapacityAssumption` of `TaskStealing` excludes.

### Connections

What a context does before it works: `todo` is the rest of the constructor or of
`set_problem`, in the order of the source; `NewContext`, `Register`, `EnterCollective` /
`LeaveCollective` (segment creation and barriers), the two loops of
`open_segment_to_thieves` with one turn per step, and the final look at four queues.
Results appear only as what they share with the dummy notifications: segment, id and
queue (`Push`, `TakeResults`). Termination detection is a guard, `Finished`: that nobody is let
go before all are done is what `Termination` shows. Contexts are made one after the other and
a rank does not go back to an earlier one; with the library's own four queues there is but one
that works. `wait_if_queue_full`
empties the queue: its inner loop shadows the variables of the outer condition, so the
loop ends when `gaspi_wait` has succeeded.

### InfixTree, TreeBarrier, Barrier

`get_tree_neighbors` is a recursive function of rank, size and first rank, as in the
source; the tree is never stored. `TreeBarrier` extends `InfixTree`: `neighbors[i]` is what
index i computes for itself, and its links are where i signals. It is `barrier_status`: the
handshake by passive messages, the way up and the way down, `Timeout` at each of the three waits, and
`Enter`, which continues a barrier that timed out. `wire` holds notifications on their
way. The source keeps this class as a placeholder behind `ASSERT (false)`
(`TITUS_DLB.cpp:330`); the model is of what the class does. Two things it shows about
retries: one that timed out at the right child waits for the left child again, whose
notification has been consumed (`TITUS_DLB.cpp:264`), so that a barrier may never be
left; and nobody ever leaves too early, nor is a notification overwritten. The
handshake takes a neighbour's number in the group for its rank (`TITUS_DLB.cpp:185`),
which is right for the group of all ranks, the one of the run.

### Logger

`timer[e]` has the fields of an entry, `current_session`, `previous_sessions` and
`aggregated_sessions` are the maps of the class. `phase`, `due` and `closed` are not in
the code: they say what the program did, to compare the entries with. `end_session` is
`EndSession`, up to its loop, and one `MergeEntry` for each turn: the entry is finalized,
its clone goes into the snapshot, and the iterator `it` moves forward over the sorted map
of the totals, where the entry is added or inserted. `to_merge` holds the entries the loop
has not come to, `ahead` the keys that `it` has not passed. Each turn reads the clock
again, which may or may not have moved. No other call is made meanwhile.

### VictimSelection

One process: the choice is local, and the calls are the program's. A context of the
library, or of DVS, is the place it has in the order of their making;
`registrations_status[c]` is the set of ranks context c is registered to,
`DVS_context[c]` the DVS context it has, `dvs` the static `DVS_impl::context` that
`select_target_rank` and `select_next_hop_to` go through. Making a DVS context registers
the ranks it may choose with the context it is made for; `SetContext` and
`SetDvsContext` move the static pointer. `Graph` is any graph with the ring in it, such as
`SmallWorld` builds, and the next hop is that module's. Five things are assumed of the
program: it gives a context only DVS contexts that were made for it; it deletes only
those that no context has; it deletes no context of the library (whose destructor frees
nothing, `context.cpp:202`); it does not call `DVS::set_context` (`DVS.hpp:54`)
itself, which is public and would part `dvs` from the context in use, but only by way of
`TITUS_DLB::set_context` and `set_DVS_context`; and it calls none of this while the
library works. Left out:
the weighted tree, whose stub selects the rank itself, so that `load_balancing` would
recur for ever; and the constructor that reads a configuration file.

### ParallelWorkTimeout

The main thread, `kill_me_later`, and the signal handler `print_stacktrace_and_quit`,
which passes a signal on to the main thread and quits after a minute.

### Invariants, proofs, model-checking modules

`TaskStealingInv` and `TerminationInv` hold the inductive invariants of these components.
The theorems are in `TaskStealingProofs` (types, locks, numbers and data; each task in one
place, and the pool; then the same for the requests of `WorkRequesting`), `TerminationProofs`,
`SmallWorldProofs`, `ResultBufferProofs`, `TreeBarrierProofs`, `VictimSelectionProofs`,
`ConnectionsProofs` and `ProcessProofs` (what a process does on its own: `SegmentSizing` and
`Logger`), the last five with their inductive invariants; `TreeBarrierProofs` begins with
`InfixTree`. The modules whose names begin with `MC` hold the constants of the runs.

Definitions introduced by a comment that begins with `mutant:` are deliberately
wrong variants of the definition that follows them. No specification uses them;
substituting one makes a property fail, which shows that the property can.

## 4. Runs

| Run | Configuration | Instance | Question |
|---|---|---|---|
| `stealing` | `MCTaskStealing.cfg` | 3 ranks, 5 tasks on rank 0, room for 2 tasks and 2 results, 2 sessions, fairness; 57 894 states | do all orders of thefts, refills and self-thefts keep each task once, and does every session end? |
| `two_owners` | `MCWorkRequesting.cfg` | 2 ranks, 4 or 7 tasks on one and 0 or 3 on the other, room for 2 tasks and 3 results, 2 sessions, either algorithm; 24 506 states | results that return both ways, the capped refill, and what requests do instead |
| `termination` | `MCTermination.cfg` | 6 ranks, 2 sessions, fairness; 50 111 states | does anybody leave early, confuse sessions, or wait for ever? |
| `result_buffer` | `MCResultBuffer.cfg` | 3 ranks, 3 batches: both directions of a line, or two ranks that push to the third; 437 847 states | are results lost, doubled or read too early on the way? |
| `result_live` | `MCResultBufferLive.cfg` | 3 ranks on a line, 2 batches one way and one in place, fairness; 28 709 states | does every result arrive? |
| `small_world` | `MCSmallWorld.cfg` | 6 ranks, one random edge each; 260 792 states | is the next hop a neighbour, the closest one, and closer than before, in every graph? |
| `connections` | `MCConnections.cfg` | 3 ranks, the tree's links, one context with 2 problems, 4 queues of length 3, fairness; 150 453 states | are handshakes and results kept apart, the queues usable, and does the setup end? |
| `tree_barrier` | `MCTreeBarrier.cfg` | 4 ranks, 2 barriers, with and without timeouts; trees of 1 to 40 ranks; fairness; 17 224 states | is a barrier a barrier, also after a retry? does every tree fit together? |
| `segment_sizing` | `MCSegmentSizing.cfg` | segments of 7 to 18 bytes, tasks and results of 1 to 4, up to 9 tasks, 2 problems, an `int` of 40 values; 195 534 states | does what `set_problem` accepts stay in its memory? |
| `logger` | `MCLogger.cfg` | one timer of each kind and the session timer, 2 sessions, 18 ticks; 470 883 states | are counts, histograms and totals those of what was timed? |
| `victim_selection` | `MCVictimSelection.cfg` | 8 ranks, a ring with chords, 2 contexts, 4 DVS contexts, any order of the calls modelled; 1 854 states | do victims and hops stay among the ranks the current context is registered to? |
| `work_timeout_kill` | `ParallelWorkTimeoutKill.cfg` | 2 calls, 2 signals of the user | a finding: is only late work killed? |

Why these bounds: three ranks are the fewest with two thieves on one victim and
with a thief that is robbed of what it stole. Room for two tasks with five to
share makes the segment empty, hold one task (the edge of `NB_TASK_MIN`) and be
full, and seven tasks exceed twice its room, which takes the capped branch of the
refill. Room for two or three results makes the tmp segment fill during a batch.
The second session starts from whatever the first one left in the metadata. Six
ranks give a tree of three levels with a rank that has only a left child.

For the result segments, three ranks on a line are the fewest with a rank that
forwards; in a segment of size 4 with two elements at most, two batches of size 2
do not fit together (the comparison is strict) and three batches exceed the number
of elements, so reservations fail for either reason; two batches that the middle
rank pushes together share one notification; the fan-in makes the middle
rank find its own segment locked or full. A batch that is pushed twice over a
segment that was purged in between uses a notification id again.

Six ranks are the fewest with draws that make a rank its own neighbour in a place
where the read at `end()` matters (`HopIsRegistered` fails without its condition),
and one random edge per rank leaves graphs sparse enough for routes of several hops.
Jobs with fewer than `DVS_SW_SMALLEST_SIZE` (8) ranks do not use the small world; the
theorems cover the larger ones.

With three ranks in a tree two are not registered to each other, so the handshake skips
somebody; a queue of length 3 is full after two notifications, and four queues are as
many as one context's segments. Four ranks are the fewest whose in-order tree has three
levels; the second barrier meets what a retry of the first one left. The sizes of
`segment_sizing` are small multiples of the metadata's (3, 6, 5 and 2 for
the header of a result), so that every quotient is 0, 1 and more, and a second problem may
have larger or smaller tasks and results than the first. With `IntRange` = 40 the products of
20, 27 and 36 bytes of tasks wrap to negative numbers, as those from 2^31 on do; no product
reaches 40, so `ProductsFit` holds. If the product were compared as a signed number,
`MemoryFits` would fail. In `logger` two calls are 3 or 12 ticks apart and the histograms' first
bound is 2 ns: one delay of 3 ticks (1 ns) stays below the bound, two make 2 ns and meet it
(`log(0)`), and longer intervals reach every bucket. An entry may be registered before, between
and after sessions. Eight ranks are the fewest for which DVS makes a small world, and
four DVS contexts let each of two contexts have one of its own, swap it and lose it.

Bounds on the models are `Sessions`, `MaxSessions`, `MaxProblems`, `MaxContexts`, `MaxBarriers`,
`MaxDvs`, `MaxCalls` (how often something is made or begun), `MaxPushes`, `MaxTime`, `TaskCounts`, `SegmentMax`, `TmpMax`,
`NbRanks`; for the results `Batch`, `SegmentSize`, `MaxElts`; for the graph `Degree`; for the trees
`MaxSize`. Nothing else is bounded. A system that has done everything stutters in `Stop`, `Over` or
`Finished`, so TLC's deadlock check is on, but for three runs: `logger` stops when its time is over,
`victim_selection` when the program makes no more calls, and `tree_barrier` when the last
barrier is passed (that it is passed is `Completion`).

What each run checks:

* `stealing`: `EveryTaskOnce` (each task is in exactly one dequeue, segment, tmp segment,
  batch or result slot), `LockAsserts` (the assertions on lock words), `IdsMatchData` (names
  and data agree, results go to their slots), `CountIsExact` (a complete count means a
  complete array), `SegmentStable` (no write under a reader), `ImplementsTaskPool`, and
  `Completion`: every session of every rank ends.
* `two_owners`: `TypeOK`, `RequestsMiss`, and `ImplementsTaskPool` for either algorithm.
* `termination`: `TypeOK`, `SafeTermination`, `FlagAsserts`, `FlagsOfThisSession`,
  `ImplementsSessions`, `Completion`.
* `result_buffer`: `TypeOK`, `BufferAsserts` (the assertions of reserve, unlock, flush and
  submission), `NotificationsMatch` (a notification for each reservation, none left at a
  purge), `EveryBatchOnce` (a batch is in one place: in the tmp segment, under way, an element
  of a segment, set aside, or submitted), `QuietWhenComplete` (nothing is left in a result
  segment when the results are complete), `ImplementsTransport`. `result_live`: `AllSubmitted`.
* `small_world`: `TypeOK`, `NoOneWayEdge` (what `check_graph` looks for), `HopIsNearest`,
  `HopIsRegistered`, `HopIsCloser`.
* `connections`: `NotificationsKeptApart` (no dummy notification is taken for results, nor the
  reverse), `SetUpBeforeUse`, `QueuesUsable`, `SetupEnds`.
* `tree_barrier`: `NotificationsAreSound` (a notification is from whom its id says, and none is
  overwritten), `TreeIsRight` (links agree and reach every rank, for all sizes up to 40),
  `ImplementsBarrier`, `Completion` when no wait times out.
* `segment_sizing`: `MemoryFits`. `logger`: `TimersAreExact`, `AggregateIsSumOfSnapshots`.
  `victim_selection`: `SelectionIsUsable` (the DVS context that answers is alive and the
  current context's, and its victims and hops are registered).

Fairness: a rank is a process that the operating system schedules, so each rank's
program is weakly fair as a whole; nothing is assumed about which victim a thief
selects, nor that a compare and swap ever wins. `SubmitArrived` is strongly fair:
the owner flushes its result segment again and again, once around each of its
loops, and a batch that has arrived is in what it flushes. `DetectTermination` is
weakly fair because the tree's own liveness is checked in `termination`. A posted
notification arrives (weak fairness of `Arrive` in `Connections` and `TreeBarrier`), and a
passive message that is sent again and again is received; that anybody pushes results, or
that a wait times out, is not assumed.
In `ResultBuffer` the swaps of lock words are strongly fair: the owner repeats the
one on its own segment in a loop, and a flush that could not lock the next hop is
repeated with every round of the loop in `parallel_work`. For the latter this is an
assumption on timing, and it has a limit that the model shows: a rank holds its
own segment locked (`COPY_IN_PROGRESS`) while it tries the next hop's once, so two
neighbours that forward to each other and flush in lock-step fail for ever, and
strong fairness does not help because the target is never free at the moment of
the swap. `AllSubmitted` would fail in this way under `FairSpec` for flows in both
directions (already for one batch from rank 0 to 2 and one from 2 to 0); it is stated
for problems whose results move one way (`OneWay`), and `result_live` has one. In
the code the differing delays between flushes break the
symmetry. The counter `failed_push`, which ought to report such a situation, is set
to 0 at every call of the flush, so its assertion cannot fail.

**The finding.** `parallel_work` with a timeout starts a thread that sleeps and then kills
the process. When the work is done in time, `pthread_kill (killer_thread, SIGKILL)`
(`load_balancing.cpp:132`) is to be rid of that thread; but SIGKILL cannot be caught and ends
the process, whichever thread it is sent to. `KilledOnlyLate`, which says what the
thread's messages say, is violated by a call that ends in time.

**Other observations** made while modelling, none of them a run of its own:

* The timeout in microseconds is converted to the 32 bits of `usleep` (`load_balancing.cpp:90`).
* The session timer of the logger is added to the totals at each end of a session although it
  is cumulative (`TITUS_Logger.cpp:400`); `AggregateIsSumOfSnapshots` is what holds.
  `print_aggregated_sessions` prints the current session (`:429`), and `to_ns` has the
  frequency 2.4 GHz built in.
* The `int` product of `TITUS_DLB_context.cpp:444` wraps for 2^31 bytes of tasks and more. Below 2^32
  it is negative, so that the `realloc` fails and the job stops; from 2^32 on it may look
  small, and the tasks would be copied beyond the buffer (`ProductsFit` excludes it).
* A second context needs queues beyond the four there are (`context.cpp:265`, `:396`; the
  hypothesis `EnoughQueues`), and the
  tmp segment of the third has the number of the barrier's segment; the run of `Connections`
  has one context.
* A DVS mode with too few ranks for it falls back to random victims without a word, and a
  small world in which a rank is its own neighbour may send results to a rank that is not
  registered (the condition in `HopIsRegistered` and `HopsRegistered`).

## 5. Proofs

Assumptions are those the modules name: at least one rank, problems with a
natural number of tasks, segments with room for at least one task and one result; for the
results, finitely many batches, each of which fits into an empty result segment, and a next
hop that is another rank.
(The code does not check the room in full, see `SegmentSizing`.)

**TaskStealing.** `TypeCorrect` needs two facts beyond the types: what a refill or
a self-theft moves is bounded by what there is and by the room (`RefillBounds`,
`SelfTheftBounds`), and a result is added only to a tmp segment that is not full
(`RoomInTmp`). The assertions on lock words are not inductive; `LockInv` is what
they need: a word holds a thief's rank exactly while that thief is between lock
and unlock with this victim, a word holds its own rank only in the steps in which
the owner (or the thief, after copying it) has the segment, and `TASK_AVAILABLE`
occurs only in the steps of the work loop. `LocalInv` adds what a step knows of
dequeue, segment and tmp segment (the dequeue is empty when a thief goes out; a
published segment has tasks). `ControlInit` and `ControlNext` prove
`LockInv /\ LocalInv` inductive, with one step for each action; `LocksCorrect` and
`SegmentIsStable` follow, the latter because every action that writes a segment
excludes that a thief holds its word (`ClosedSegment`, `CopiedSegment`).

`NumbersMatchTasks` is about the data. What `IdsMatchData` says of
dequeues and published segments is not inductive: a self-theft makes the segment's
numbers the dequeue's while the tmp segment goes on counting, and a theft copies
metadata and data in two reads. `Aligned(r)` adds that the segment's tasks come just
before the dequeue's while the rank may get them back (`BelowAligned`), and that a thief
between its reads has its victim's metadata (`CopyAligned`). `Frame` says what a step
leaves of every other rank, so that `OthersAligned` needs nothing but
`SegmentIsStable`'s argument; for the rank that steps there is one lemma for each
kind of step: sessions, private data, lock words, moves between dequeue and
segment, and the two reads.

`TasksInOnePlace` goes by the places of one task: `Places(o, i)` is the
set of dequeues, live segments, tmp segments, batches and result slots that hold task i
of rank o, and `PlaceInv` says it is a singleton for the tasks of the problem and empty
otherwise. It is inductive only together with `ControlInv` and `AlignInv`: that the numbers
a refill names are the tasks it moves is alignment, and that a theft ends the life of
its victim's segment when that of the copy begins is the lock protocol. Each kind of step
has a lemma that says which place it takes a task from and which it puts it in
(`StaysOrMoves`); `PlacesMoved` does what these share. `CountIsExact` follows with
`CountInv`: what is submitted is nowhere else, hence not in the array yet, hence the
cardinality grows by what the counter is increased by (`ResultsCountedOnce`; finite sets
from the library's theorems).

`ProtocolImplementsPool` reads the pool off the places
(`PlaceViews`: held, done and delivered are three kinds of place), so that each step is
abstract work, delivery or theft because of what it does to places, and all other
steps stutter. Begin and end of a session need `SessionInv`: whoever leaves has all
results, and nobody begins a session before all have left the last.

**WorkRequesting.** A request that misses is a step of its own (`Miss`); `MissControl` and
`MissData` show that it keeps every invariant above, so that both algorithms implement the
pool (`RequestingImplementsPool`). `RequestsMissAlways` adds what holds when only requests
are made: no lock word ever holds another rank, and every task stays with its rank.

**Termination.** The inductive invariant relates flags to sessions: a flag toward the root is up
iff the child has notified in the parent's session (`UpInv`), a flag toward the leaves
is up only if the parent has left that session (`DownInv`), sessions differ by at
most one (`BarrierInv`). `SafeTermination` needs more: both flags of the root up
must imply that all ranks are complete. `FromTheRoot` is this step: if some rank
had not reached termination, take the least one; its parent is less, hence has
reached it, hence has both of its flags up, hence the child has reached it too. It
is a minimal-counterexample argument over the well-founded order of the ranks.
`TreeImplementsSessions` maps `inside` to the ranks at the barrier or at work and
shows that each action is a step of `Sessions` or a stutter.

**ResultBuffer.** The invariant has three layers. `BaseInv` holds types and locks: the lock word
of a segment names exactly the rank that is between lock and unlock there, or says that the
owner flushes (`LockInv`), so that what was read under the lock stays true until the unlock,
and what was selected fits (`SeenInv`).

The second layer, `IdInv`, is about notification ids, and uses an idea that comes back for the room. `Tiles(C, lo, hi)`
says that the intervals in C cover `lo .. hi` without gap or overlap. The ids between the one the flush
waits for and the count are tiled by what has been reserved and not yet posted, what is on the
wire, and what has been notified. Each step moves a tile from one kind to the next, adds one at
the end (a reservation) or takes the first (the wait), and one lemma does each of these. Once the flush has
waited for all there is no tile, hence nothing that could still come (`NothingComes`), and
the ids can begin anew: `NotificationsAreMatched`.

The third, `PlaceInv`, is about the data: the room from 0 to the head is tiled by elements, by writes under way and by
reservations not yet written (`SpaceInv`), so that no write meets an element, and elements without
anything under way stand back to back (`SettledIsReadable`, which is what the flush's loop
needs). `HolderInv` gives each batch one holder, by cases over the kinds of place; the step from
element to multimap needs `LocalInv`, which says what the multimap has while the owner flushes: entries on
the segment still are elements of it and have a hop to be served. `NumberInv` counts the batches
that are bound for a segment, which the code's counter must equal, for the assertion on the number of elements.
`BatchesAreInOnePlace`, `AssertionsHold` and `QuietWhenAllSubmitted` follow. For
`BuffersImplementTransport`, what is in transit is the problem without what is still to be computed and what
is submitted (`TransitIsRest`), so only `Compute` and the two submissions are steps of
`ResultTransport`, and every hop between them stutters.

**SmallWorld.** `CandidatesSuffice` is the heart: in any set of neighbours, one of the
successor, the predecessor, the lowest and the highest is at least as close to the
destination as any other (by cases on the side of the destination on which a
neighbour lies, and on the direction of the shorter way). `RingIsCloser` says that
one of the two neighbours on the ring is closer than the rank; with the invariant
that the ring's edges stay in the graph, every hop is closer (`RoutesShorten`).
`HopsAreRegistered` counts: a rank above whose neighbours the destination lies and
that is not its own neighbour has fewer neighbours than the destination's number, so
what is read at `end()` is not mistaken for it.

**TreeBarrier.** For each link of the tree and each direction the invariant counts what was
sent and what was used up, all barriers together; the difference is what is on the wire
or in the memory, 0 or 1 (`OneAtMost`), hence nothing is overwritten and each id means one
sender (`NotificationsSound`). The counts are those of `passed` and of the flags of a
barrier in progress, so a timeout and a retry change none of them. `AllHaveEntered`
follows a barrier that is complete at the root down the tree, and `TreeIsABarrier` shows the
implementation of `Barrier`. What these proofs need of the tree (links agree, children lie on
their side, every rank is below one root) is proved of the tree that `get_tree_neighbors` makes
for any number of ranks, so that the barrier's theorems assume nothing of it.

**InfixTree.** `Subtree(size, rank0)` says it of one subtree: its root is among its ranks, each
rank's links are in it and have their counterpart (`LinkOK`), and the ranks have levels, 0
at the root, one more than the parent's elsewhere, at most `Log2[size]` (`Levels`).
`SubtreesAreTrees` is an induction on the size, generalised over the first rank. `RootSplits` is
its arithmetic: the root of four ranks or more leaves ranks on both sides, and both sides have
a level less, because the left one gets what fits of the last level. `Under` and `Grown` put
two trees below the rank between them, whose number replaces `NoRank` as the parent of the two
roots. From the levels follow `EveryRankIsReached` (who climbs `Log2[size]` links is at the root) and
`TreeSpans` (what holds at the root and goes from parent to child holds everywhere).

That a function defined by recursion *is* what its equation says has to be proved too: the
equation must have a solution. `Recursion` shows that for any domain with a measure in the
natural numbers and any right-hand side that looks only at smaller arguments, which are
given as a function of functions; `POW2`, `Log2`, `get_tree_neighbors` and `Above` are instances. The
inductions are `AlongMeasure`, the same with a set in the place of the formula.

**VictimSelection.** `SelectionInv` says that a DVS context that is alive was made for a
context that is registered to all it may choose (`Matched`), that contexts have such
ones of their own (`Owned`), and that the static pointer follows (`Followed`).
`ChoicesAreRegistered` says what a DVS context may choose, and takes what it needs of the
next hop from `SmallWorldProofs`, instantiated with this process's graph.

**SegmentSizing.** `SizingInv` says that the tmp and the result segment are made together for the
same number of results (`MadeTogether`), and that what set_problem accepted is what the work
loop keeps (`WorkFits`). The heart is in the products: a quotient's multiple stays below the
dividend (`QuotientFits`), and the size of the buffer that the `int` product asks for is
either enough or so large that `realloc` fails (`NeededSuffices`). The latter needs
`ProductsFit`, the hypothesis of `AcceptedProblemsFit`: no problem has tasks of 2^32 bytes or more.

**Connections.** `SetupInv` has five parts. `ProgramInv` says which lists of steps may be left in
which problem and mode, so that every step of a rank leads to one of a dozen lists (the
lemmas whose names end in `Leads`). `LocalInv` counts: the collective calls of a rank are
those of its contexts and of what it has entered of the present one (`CallsFit`), and with
them come the segments it has created and the ranks it is registered to. `InStep` is what
a collective call promises, that nobody is a whole call ahead; hence where one rank works, all
have created and registered everything (`Together`, `LinksSetUp`). For the handshakes, `Sent` and
`Taken` say what two ranks have done about one segment of one context, read off their
programs: `HandshakeInv`, nothing is taken that was not sent, and `MessagesInv`, a dummy
notification that exists was sent and is not taken, and results are under way only to a result
segment that is open, while nobody has finished. That the result segment is opened
first is used twice: a rank that pushes has taken the
notifications of the *later* tmp segment, so that its receiver has sent them, and is through with
its result segment (`PushIsRight`, `WorkersAreSetUp`). `QueuesAreUsable` has the hypothesis
`EnoughQueues`, a queue for each segment of each context: for one context this is the assertion
`queue_num >= 4` of the initialisation, and more contexts need more queues (see the observations
above). `QueueInv` follows queue 0, where the requests of a handshake stay until the
first context's task segment, which is opened last, is waited for under the same number.

**Logger.** `DueTimeIsCounted` alone is not inductive: a call must know that the entry is
running exactly when the program thinks so (`PhaseIsRunning`) and that its time stamps are
not in the future (`TimesArePast`); then each operation is `Exact`, what it adds is what was
pending, and one lemma (`CalledKeeps`) carries that over to the step. For the merge,
`MergeIsInOrder` says that the entries still to come are in front of the iterator when the
totals have them, and are not in the new snapshot yet: that is why an `insert` never finds
its key and an `aggregate` never misses one. Sums are the sizes of sets (`Total`), so that
one more snapshot, or one more interval in a bucket, is a disjoint union. The delays and the
entries are any; that the clock moves between a start and the call after it is assumed
(`0` is not in `Delays`): a start and a stop at the same time stamp would leave the entry
stopped.

Only model-checked: liveness, which is out of the prover's reach, with fairness and
ENABLED. Every invariant and every safety property of the runs is a theorem.

## 6. Not modelled, and why

* Registration and connection calls of GASPI take effect at once, and
  `GASPI_TOPOLOGY_NONE` is left out of `Connections`. Failure of GASPI calls:
  `SUCCESS_OR_DIE` ends the job; no call is retried.
* Groups of one rank in `TreeBarrier`: they have nobody to notify.
* That the construction of the small world ends depends on the generator: a draw that
  adds nothing is repeated. The generator (TinyMT) is vendored.
* `d_reg_neighboring_generator` (random regular graphs), `global_try_lock`,
  `global_unlock`, the `wait_for_*` helpers, and the element-wise flush and push of the result
  segment (`try_flush_buffer_elts`, `insert_buffer_elt`,
  `try_push_local_transiting_results`) have no caller. The weighted tree selection of
  DVS is a stub.
* TaskStealing takes the transport of results as a set of batches that are
  delivered in any order, each once; `BuffersImplementTransport` proves that the result
  segments are such a transport.
* All ranks have the same sizes in `SegmentSizing`. Its `int` product wraps, in small, and the
  run has products that wrap below zero; those of 2^32 and more are left out (`ProductsFit`).
* In `Logger`: printing, the C wrappers, the timing of the logger itself (under `#ifdef`), theft
  histograms, and the entry class of a plain power histogram, which cannot be
  instantiated.
* DLB_Bench, a test driver: its distributions of tasks and its comparison of result files. How
  it uses the library is in `TaskStealing` (sessions one after the other).
* In `ParallelWorkTimeout`: what the handler prints; any of it may hang.
* C and Fortran wrappers, printing and display, TITUS_DBG, the printing of a stack trace: no state
  of the protocol.
