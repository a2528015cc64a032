---------------------------- MODULE ResultBuffer ----------------------------
(***************************************************************************)
(* The return of results: the result segment of every rank is a buffer in  *)
(* which other ranks reserve room under its lock word, and which they fill *)
(* and notify after they have unlocked it.  The owner flushes it: it waits *)
(* for the notifications of all that is reserved, submits its own results, *)
(* and pushes the others to the next hop on the way to their owner.  What  *)
(* the next hop has no room for is set aside in local memory.              *)
(*                                                                         *)
(* A batch (BufferElt) is a number; its size is in abstract units, as are  *)
(* the offsets in the segment, counted from buffer_tail.  A gaspi_write    *)
(* and the gaspi_notify after it are one message that takes effect in two  *)
(* steps, the data first.                                                  *)
(***************************************************************************)
EXTENDS Integers, FiniteSets, FiniteSetsExt

CONSTANTS
  NbRanks,      \* number of ranks of the job
  Batch,        \* batches of results
  Problems,     \* the problems to solve, each the set of its batches
  Maker,        \* Maker[b]: the rank that computes batch b
  Owner,        \* Owner[b]: the rank whose tasks they are
  Size,         \* Size[b]: buffer_entry_size of the batch
  NextHop,      \* NextHop[r][o]: where r sends the results of o (DVS)
  SegmentSize,  \* room for elements in a result segment
  MaxElts       \* MAX_BUFFER_ELTS

Rank == 0 .. NbRanks - 1

ASSUME RankAssumption  == NbRanks \in Nat \ {0}
ASSUME BatchAssumption == /\ IsFiniteSet(Batch) /\ Batch \subseteq Nat
                          /\ Problems \subseteq SUBSET Batch
                          /\ Maker \in [Batch -> Rank]
                          /\ Owner \in [Batch -> Rank]
ASSUME RouteAssumption == /\ NextHop \in [Rank -> [Rank -> Rank]]
                          /\ \A r \in Rank : \A o \in Rank \ {r} : NextHop[r][o] # r
\* an empty segment has room for any batch
ASSUME RoomAssumption  == /\ SegmentSize \in Nat \ {0} /\ MaxElts \in Nat \ {0}
                          /\ Size \in [Batch -> 1 .. SegmentSize - 1]

SEGMENT_AVAILABLE == -1
COPY_IN_PROGRESS  == -2
Free    == -1    \* a place of a segment where no element begins
NoBatch == -2

LockWord == Rank \cup {SEGMENT_AVAILABLE, COPY_IN_PROGRESS}

VARIABLES
  problem,   \* the batches of the problem that is solved
  pc,        \* pc[r]: the next step of rank r
  ret,       \* ret[r]: where r goes on after the flush
  todo,      \* the batches that are still to be computed
  tmp,       \* tmp[r]: the batch in the tmp segment of r
  state,     \* state[r]: the lock word of r's result segment
  head,      \* head[r]: buffer_head, the room that is reserved
  count,     \* count[r]: buffer_elt_count, the elements it is reserved for
  mem,       \* mem[r][i]: the batch whose element begins at offset i
  notif,     \* notif[r][i]: the value notified under id i, 0 if none
  wire,      \* writes and notifications that are under way
  local,     \* local[r]: local_transiting_results
  onSegment, \* onSegment[r]: those of them that point to r's segment
  index,     \* index[r]: the element r's flush waits for next
  hops,      \* hops[r]: the next hops r's flush has still to serve
  seen,      \* seen[r]: head and count that r has read under a lock, until used
  selected,  \* selected[r]: the batches r has found room for
  submitted  \* the batches in the array of their owner

batchVars   == <<problem, todo, tmp, submitted>>
segmentVars == <<head, count, mem>>
flushVars   == <<local, onSegment, index, hops>>
pushVars    == <<seen, selected>>
vars == <<problem, pc, ret, todo, tmp, state, head, count, mem, notif, wire, local,
          onSegment, index, hops, seen, selected, submitted>>

-----------------------------------------------------------------------------
(* Helpers *)

Goto(r, from, to) == pc[r] = from /\ pc' = [pc EXCEPT ![r] = to]

\* mutant: the word is written without being compared
BlindSwap(r, comp, new) == state' = [state EXCEPT ![r] = new]

CompareAndSwap(r, comp, new) ==
  state' = IF state[r] = comp THEN [state EXCEPT ![r] = new] ELSE state

\* the room that the batches B need: the sum of their sizes, counted unit by unit
Units(B) == UNION {{b} \X (1 .. Size[b]) : b \in B}
SizeOf(B) == Cardinality(Units(B))

\* the key of a batch in the multimap of rank r
Hop(r, b) == IF Owner[b] = r THEN r ELSE NextHop[r][Owner[b]]

LocalFor(r, t) == {b \in local[r] : Hop(r, b) = t}

\* the map is traversed in the order of its keys
Target(r) == Min(hops[r])

IsEmpty(r) == head[r] = 0 /\ local[r] = {}

NotEmpty(r) == ~ IsEmpty(r)

EmptySegment == [i \in 0 .. SegmentSize - 1 |-> Free]

\* begin() .. end()
Elements(r) == {mem[r][i] : i \in 0 .. head[r] - 1} \ {Free}

\* batch b of the batches B that are written one after the other from `at'
Offset(B, b, at) == at + SizeOf({c \in B : c < b})

Written(m, B, at) ==
  [i \in DOMAIN m |->
     IF i \in at .. at + SizeOf(B) - 1
     THEN IF \E b \in B : Offset(B, b, at) = i
          THEN CHOOSE b \in B : Offset(B, b, at) = i
          ELSE Free
     ELSE m[i]]

Message(to, B, s) ==
  [to |-> to, batches |-> B, at |-> s.head, id |-> s.count, arrived |-> FALSE]

\* mutant: the segment may be filled to its last byte
FitsExactly(B, s) == SizeOf(B) <= SegmentSize - s.head /\ Cardinality(B) <= MaxElts - s.count

\* select_elts_to_push goes through the elements and takes those that still
\* fit: together they fit, and none that is left does
Fits(B, s) == SizeOf(B) < SegmentSize - s.head /\ Cardinality(B) <= MaxElts - s.count

Selections(B, s) ==
  {S \in SUBSET B : /\ S = {} \/ Fits(S, s)
                    /\ \A b \in B \ S : ~ Fits(S \cup {b}, s)}

\* mutant: the multimap goes on pointing into the segment
KeepPointers(r, B) == UNCHANGED onSegment

\* batches of r that cannot be sent now are copied out of the segment
SetAside(r, B) == onSegment' = [onSegment EXCEPT ![r] = @ \ B]

\* locals that go out of scope
Unseen(r) == seen' = [seen EXCEPT ![r] = [head |-> 0, count |-> 0]]

Served(r) == hops' = [hops EXCEPT ![r] = @ \ {Target(r)}]

-----------------------------------------------------------------------------
(* return_results_buffered and push_tmp_results *)

\* the tmp segment is full, or the rank has no tasks left
Compute(r, b) ==
  /\ pc[r] = "idle" /\ tmp[r] = NoBatch
  /\ b \in todo /\ Maker[b] = r
  /\ todo' = todo \ {b}
  /\ tmp'  = [tmp EXCEPT ![r] = b]
  /\ UNCHANGED <<problem, pc, ret, state, segmentVars, notif, wire, flushVars, pushVars,
                 submitted>>

\* the first pass, if there is anything to flush
ReturnResults(r) ==
  /\ NotEmpty(r) \/ tmp[r] # NoBatch
  /\ Goto(r, "idle", IF NotEmpty(r) THEN "lock" ELSE "push_tmp")
  /\ ret' = [ret EXCEPT ![r] = IF NotEmpty(r) THEN "push_tmp" ELSE "idle"]
  /\ UNCHANGED <<batchVars, state, segmentVars, notif, wire, flushVars, pushVars>>

\* push_tmp_results: the batch is the rank's own, or must travel
PushTmpResults(r) ==
  /\ pc[r] = "push_tmp"
  /\ \/ /\ tmp[r] = NoBatch
        /\ pc' = [pc EXCEPT ![r] = "idle"]
        /\ UNCHANGED <<tmp, submitted>>
     \/ /\ tmp[r] # NoBatch /\ Owner[tmp[r]] = r
        /\ pc' = [pc EXCEPT ![r] = "second_pass"]
        /\ submitted' = submitted \cup {tmp[r]}
        /\ tmp' = [tmp EXCEPT ![r] = NoBatch]
     \/ /\ tmp[r] # NoBatch /\ Owner[tmp[r]] # r
        /\ pc' = [pc EXCEPT ![r] = "alloc"]
        /\ UNCHANGED <<tmp, submitted>>
  /\ UNCHANGED <<problem, ret, todo, state, segmentVars, notif, wire, flushVars, pushVars>>

\* try_remote_buffer_alloc on the own segment: lock ...
TryAlloc(r) ==
  /\ state[r] = SEGMENT_AVAILABLE
  /\ Goto(r, "alloc", "alloc_reserve")
  /\ CompareAndSwap(r, SEGMENT_AVAILABLE, r)
  /\ UNCHANGED <<ret, batchVars, segmentVars, notif, wire, flushVars, pushVars>>

\* ... or flush and try again
AllocFailed(r) ==
  /\ state[r] # SEGMENT_AVAILABLE
  /\ IF NotEmpty(r)
     THEN Goto(r, "alloc", "lock") /\ ret' = [ret EXCEPT ![r] = "alloc"]
     ELSE Goto(r, "alloc", "alloc") /\ UNCHANGED ret
  /\ UNCHANGED <<batchVars, state, segmentVars, notif, wire, flushVars, pushVars>>

AllocReserve(r) ==
  LET s == [head |-> head[r], count |-> count[r]] fits == Fits({tmp[r]}, s) IN
  /\ Goto(r, "alloc_reserve", IF fits THEN "alloc_unlock" ELSE "alloc_full")
  /\ IF fits THEN seen' = [seen EXCEPT ![r] = s] ELSE UNCHANGED seen
  /\ head'  = [head EXCEPT ![r] = IF fits THEN @ + Size[tmp[r]] ELSE @]
  /\ count' = [count EXCEPT ![r] = IF fits THEN @ + 1 ELSE @]
  /\ UNCHANGED <<ret, batchVars, state, mem, notif, wire, flushVars, selected>>

AllocUnlock(r) ==
  /\ \/ Goto(r, "alloc_unlock", "alloc_write") /\ UNCHANGED ret
     \/ /\ Goto(r, "alloc_full", "lock")
        /\ ret' = [ret EXCEPT ![r] = "alloc"]
  /\ CompareAndSwap(r, r, SEGMENT_AVAILABLE)
  /\ UNCHANGED <<batchVars, segmentVars, notif, wire, flushVars, pushVars>>

\* memcpy to the own segment, and a notification of one element
AllocWrite(r) ==
  /\ Goto(r, "alloc_write", "second_pass")
  /\ mem'  = [mem EXCEPT ![r] = Written(@, {tmp[r]}, seen[r].head)]
  /\ wire' = wire \cup {[Message(r, {tmp[r]}, seen[r]) EXCEPT !.arrived = TRUE]}
  /\ tmp'  = [tmp EXCEPT ![r] = NoBatch]
  /\ Unseen(r)
  /\ UNCHANGED <<problem, ret, todo, submitted, state, head, count, notif, flushVars, selected>>

SecondPass(r) ==
  /\ Goto(r, "second_pass", IF NotEmpty(r) THEN "lock" ELSE "idle")
  /\ ret' = [ret EXCEPT ![r] = "idle"]
  /\ UNCHANGED <<batchVars, state, segmentVars, notif, wire, flushVars, pushVars>>

-----------------------------------------------------------------------------
(* try_flush_buffer_elts_packed *)

\* the loop on the compare and swap ends
LockOwn(r) ==
  /\ state[r] = SEGMENT_AVAILABLE
  /\ Goto(r, "lock", "wait")
  /\ CompareAndSwap(r, SEGMENT_AVAILABLE, COPY_IN_PROGRESS)
  /\ UNCHANGED <<ret, batchVars, segmentVars, notif, wire, flushVars, pushVars>>

\* mutant: a notification counts for one element
WaitOneByOne(r) ==
  /\ pc[r] = "wait" /\ index[r] < count[r]
  /\ notif[r][index[r]] # 0
  /\ index' = [index EXCEPT ![r] = @ + 1]
  /\ notif' = [notif EXCEPT ![r][index[r]] = 0]
  /\ UNCHANGED <<pc, ret, batchVars, state, segmentVars, wire, local, onSegment, hops,
                 pushVars>>

WaitNotification(r) ==
  /\ pc[r] = "wait" /\ index[r] < count[r]
  /\ notif[r][index[r]] # 0
  /\ index' = [index EXCEPT ![r] = @ + notif[r][index[r]]]
  /\ notif' = [notif EXCEPT ![r][index[r]] = 0]
  /\ UNCHANGED <<pc, ret, batchVars, state, segmentVars, wire, local, onSegment, hops,
                 pushVars>>

\* all elements of the segment join the multimap
Aggregate(r) ==
  LET all == local[r] \cup Elements(r) IN
  /\ index[r] >= count[r]
  /\ Goto(r, "wait", "push")
  /\ local'     = [local EXCEPT ![r] = all]
  /\ onSegment' = [onSegment EXCEPT ![r] = Elements(r)]
  /\ hops'      = [hops EXCEPT ![r] = {Hop(r, b) : b \in all}]
  /\ index'     = [index EXCEPT ![r] = 0]
  /\ UNCHANGED <<ret, batchVars, state, segmentVars, notif, wire, pushVars>>

\* mutant: what was submitted is not erased from the multimap
SubmitAndKeep(r) ==
  LET mine == LocalFor(r, r) IN
  /\ hops[r] # {} /\ Target(r) = r
  /\ Goto(r, "push", "push")
  /\ submitted' = submitted \cup mine
  /\ Served(r)
  /\ UNCHANGED <<problem, ret, todo, tmp, state, segmentVars, notif, wire, local, onSegment,
                 index, pushVars>>

\* the destination is the rank itself
SubmitOwn(r) ==
  LET mine == LocalFor(r, r) IN
  /\ hops[r] # {} /\ Target(r) = r
  /\ Goto(r, "push", "push")
  /\ submitted' = submitted \cup mine
  /\ local'     = [local EXCEPT ![r] = @ \ mine]
  /\ onSegment' = [onSegment EXCEPT ![r] = @ \ mine]
  /\ Served(r)
  /\ UNCHANGED <<problem, ret, todo, tmp, state, segmentVars, notif, wire, index, pushVars>>

\* try_push_vector_elt_to: one attempt to lock the segment of the next hop
TryLockTarget(r) ==
  LET t == Target(r) IN
  /\ hops[r] # {} /\ t # r
  /\ pc[r] = "push"
  /\ CompareAndSwap(t, SEGMENT_AVAILABLE, r)
  /\ \/ /\ state[t] = SEGMENT_AVAILABLE
        /\ pc' = [pc EXCEPT ![r] = "select"]
        /\ UNCHANGED <<onSegment, hops>>
     \/ /\ state[t] # SEGMENT_AVAILABLE
        /\ SetAside(r, LocalFor(r, t)) /\ Served(r)
        /\ UNCHANGED pc
  /\ UNCHANGED <<ret, batchVars, segmentVars, notif, wire, local, index, pushVars>>

\* read_to_scratch, then select_elts_to_push
Select(r) ==
  LET t == Target(r) s == [head |-> head[t], count |-> count[t]] IN
  /\ Goto(r, "select", "reserve")
  /\ seen' = [seen EXCEPT ![r] = s]
  /\ \E S \in Selections(LocalFor(r, t), s) : selected' = [selected EXCEPT ![r] = S]
  /\ UNCHANGED <<ret, batchVars, state, segmentVars, notif, wire, flushVars>>

\* two fetch and adds; whoever reads both values holds the lock
Reserve(r) ==
  LET t == Target(r) IN
  /\ Goto(r, "reserve", "unlock_target")
  /\ head'  = [head EXCEPT ![t] = @ + SizeOf(selected[r])]
  /\ count' = [count EXCEPT ![t] = @ + Cardinality(selected[r])]
  /\ UNCHANGED <<ret, batchVars, state, mem, notif, wire, flushVars, pushVars>>

\* mutant: a full segment stays locked
UnlockIfReserved(r) ==
  /\ Goto(r, "unlock_target", "write")
  /\ IF selected[r] = {} THEN UNCHANGED state
     ELSE CompareAndSwap(Target(r), r, SEGMENT_AVAILABLE)
  /\ UNCHANGED <<ret, batchVars, segmentVars, notif, wire, flushVars, pushVars>>

UnlockTarget(r) ==
  /\ Goto(r, "unlock_target", "write")
  /\ CompareAndSwap(Target(r), r, SEGMENT_AVAILABLE)
  /\ UNCHANGED <<ret, batchVars, segmentVars, notif, wire, flushVars, pushVars>>

\* mutant: what did not fit is dropped
WriteDropsRest(r) ==
  LET t == Target(r) S == selected[r] IN
  /\ Goto(r, "write", "push")
  /\ wire'  = IF S = {} THEN wire ELSE wire \cup {Message(t, S, seen[r])}
  /\ local' = [local EXCEPT ![r] = @ \ LocalFor(r, t)]
  /\ SetAside(r, LocalFor(r, t)) /\ Served(r)
  /\ selected' = [selected EXCEPT ![r] = {}]
  /\ Unseen(r)
  /\ UNCHANGED <<ret, batchVars, state, segmentVars, notif, index>>

\* write_list and one notification for all; the rest is set aside
Write(r) ==
  LET t == Target(r) S == selected[r] IN
  /\ Goto(r, "write", "push")
  /\ wire'  = IF S = {} THEN wire ELSE wire \cup {Message(t, S, seen[r])}
  /\ local' = [local EXCEPT ![r] = @ \ S]
  /\ SetAside(r, LocalFor(r, t)) /\ Served(r)
  /\ selected' = [selected EXCEPT ![r] = {}]
  /\ Unseen(r)
  /\ UNCHANGED <<ret, batchVars, state, segmentVars, notif, index>>

Purge(r) ==
  /\ hops[r] = {}
  /\ Goto(r, "push", "unlock_own")
  /\ head'  = [head EXCEPT ![r] = 0]
  /\ count' = [count EXCEPT ![r] = 0]
  /\ mem'   = [mem EXCEPT ![r] = EmptySegment]
  /\ UNCHANGED <<ret, batchVars, state, notif, wire, flushVars, pushVars>>

UnlockOwn(r) ==
  /\ Goto(r, "unlock_own", ret[r])
  /\ ret' = [ret EXCEPT ![r] = "idle"]
  /\ CompareAndSwap(r, COPY_IN_PROGRESS, SEGMENT_AVAILABLE)
  /\ UNCHANGED <<batchVars, segmentVars, notif, wire, flushVars, pushVars>>

-----------------------------------------------------------------------------
(* GASPI: on one queue the data of a write arrive before the notification *)

DataArrive(m) ==
  /\ ~ m.arrived
  /\ mem'  = [mem EXCEPT ![m.to] = Written(@, m.batches, m.at)]
  /\ wire' = (wire \ {m}) \cup {[m EXCEPT !.arrived = TRUE]}
  /\ UNCHANGED <<pc, ret, batchVars, state, head, count, notif, flushVars, pushVars>>

NotificationArrives(m) ==
  /\ m.arrived
  /\ notif' = [notif EXCEPT ![m.to][m.id] = Cardinality(m.batches)]
  /\ wire'  = wire \ {m}
  /\ UNCHANGED <<pc, ret, batchVars, state, segmentVars, flushVars, pushVars>>

-----------------------------------------------------------------------------
\* every batch is with its owner and every rank has come to rest
Over == submitted = problem /\ \A r \in Rank : pc[r] = "idle" /\ IsEmpty(r)

Stop == Over /\ UNCHANGED vars

Init ==
  /\ problem \in Problems
  /\ pc        = [r \in Rank |-> "idle"]
  /\ ret       = [r \in Rank |-> "idle"]
  /\ todo      = problem
  /\ tmp       = [r \in Rank |-> NoBatch]
  /\ state     = [r \in Rank |-> SEGMENT_AVAILABLE]
  /\ head      = [r \in Rank |-> 0]
  /\ count     = [r \in Rank |-> 0]
  /\ mem       = [r \in Rank |-> EmptySegment]
  /\ notif     = [r \in Rank |-> [i \in 0 .. MaxElts - 1 |-> 0]]
  /\ wire      = {}
  /\ local     = [r \in Rank |-> {}]
  /\ onSegment = [r \in Rank |-> {}]
  /\ index     = [r \in Rank |-> 0]
  /\ hops      = [r \in Rank |-> {}]
  /\ seen      = [r \in Rank |-> [head |-> 0, count |-> 0]]
  /\ selected  = [r \in Rank |-> {}]
  /\ submitted = {}

Return(r) ==
  \/ \E b \in Batch : Compute(r, b)
  \/ ReturnResults(r)
  \/ PushTmpResults(r)
  \/ TryAlloc(r)
  \/ AllocFailed(r)
  \/ AllocReserve(r)
  \/ AllocUnlock(r)
  \/ AllocWrite(r)
  \/ SecondPass(r)

Flush(r) ==
  \/ LockOwn(r)
  \/ WaitNotification(r)
  \/ Aggregate(r)
  \/ SubmitOwn(r)
  \/ TryLockTarget(r)
  \/ Select(r)
  \/ Reserve(r)
  \/ UnlockTarget(r)
  \/ Write(r)
  \/ Purge(r)
  \/ UnlockOwn(r)

Deliver == \E m \in wire : DataArrive(m) \/ NotificationArrives(m)

Next == (\E r \in Rank : Return(r) \/ Flush(r)) \/ Deliver \/ Stop

Spec == Init /\ [][Next]_vars

\* Every rank runs its own process; the swap of a lock word that is tried
\* again and again, here by two loops of the owner, succeeds in the end.
Fairness ==
  /\ \A r \in Rank : /\ WF_vars(Return(r) \/ Flush(r))
                     /\ SF_vars(LockOwn(r)) /\ SF_vars(TryAlloc(r))
                     /\ SF_vars(TryLockTarget(r) /\ pc'[r] = "select")
  /\ WF_vars(Deliver)

FairSpec == Spec /\ Fairness

-----------------------------------------------------------------------------
(* Properties *)

Step == {"idle", "push_tmp", "alloc", "alloc_reserve", "alloc_unlock",
         "alloc_full", "alloc_write", "second_pass", "lock", "wait", "push",
         "select", "reserve", "unlock_target", "write", "unlock_own"}

Reservation == [head : 0 .. SegmentSize - 1, count : 0 .. MaxElts]

\* The variables have their types.  The reserved room never reaches the end
\* of the segment (an assertion of the flush), the number of elements stays
\* within MAX_BUFFER_ELTS.
TypeOK ==
  /\ problem   \in Problems
  /\ pc        \in [Rank -> Step]
  /\ ret       \in [Rank -> {"idle", "push_tmp", "alloc"}]
  /\ todo      \in SUBSET problem
  /\ tmp       \in [Rank -> Batch \cup {NoBatch}]
  /\ state     \in [Rank -> LockWord]
  /\ head      \in [Rank -> 0 .. SegmentSize - 1]
  /\ count     \in [Rank -> 0 .. MaxElts]
  /\ mem       \in [Rank -> [0 .. SegmentSize - 1 -> Batch \cup {Free}]]
  /\ notif     \in [Rank -> [0 .. MaxElts - 1 -> 0 .. MaxElts]]
  /\ wire      \in SUBSET [to : Rank, batches : SUBSET Batch,
                           at : 0 .. SegmentSize - 1, id : 0 .. MaxElts - 1,
                           arrived : BOOLEAN]
  /\ local     \in [Rank -> SUBSET Batch]
  /\ onSegment \in [Rank -> SUBSET Batch]
  /\ index     \in [Rank -> 0 .. MaxElts]
  /\ hops      \in [Rank -> SUBSET Rank]
  /\ seen      \in [Rank -> Reservation]
  /\ selected  \in [Rank -> SUBSET Batch]
  /\ submitted \in SUBSET problem

\* r holds the lock of t
Locking(r, t) ==
  \/ pc[r] \in {"select", "reserve", "unlock_target"} /\ t = Target(r)
  \/ pc[r] \in {"alloc_reserve", "alloc_unlock", "alloc_full"} /\ t = r

\* r's flush has its own segment
Flushing(r) == pc[r] \in {"wait", "push", "select", "reserve", "unlock_target",
                          "write", "unlock_own"}

\* ... and has taken the elements over into the multimap
Taken(r) == Flushing(r) /\ pc[r] # "wait"

\* The iteration from begin() meets an element at the end of every element
\* until it meets end().
Readable(r) ==
  /\ head[r] > 0 => mem[r][0] # Free
  /\ \A i \in 0 .. head[r] - 1 :
       mem[r][i] # Free =>
         LET next == i + Size[mem[r][i]] IN
         /\ next <= head[r]
         /\ next < head[r] => mem[r][next] # Free
         /\ \A j \in i + 1 .. next - 1 : mem[r][j] = Free

\* The assertions: a fetch and add returns what was read under the lock, an
\* unlock finds the word the lock left, the flush iterates over valid
\* elements only, and what it submits itself lies on the segment.
BufferAsserts ==
  \A r \in Rank :
    /\ pc[r] = "reserve" =>
         seen[r] = [head |-> head[Target(r)], count |-> count[Target(r)]]
    /\ \A t \in Rank : Locking(r, t) => state[t] = r
    /\ Flushing(r) => state[r] = COPY_IN_PROGRESS
    /\ pc[r] = "wait" /\ index[r] >= count[r]
         => Readable(r) /\ Cardinality(Elements(r)) = count[r]
    /\ pc[r] = "push" /\ hops[r] # {} /\ Target(r) = r
         => LocalFor(r, r) \subseteq onSegment[r]

\* A notification under id i of t will come: it is under way, or a rank has
\* made the reservation and has not posted it yet.
Expected(t, i) ==
  \/ \E m \in wire : m.to = t /\ m.id = i
  \/ \E r \in Rank :
       /\ seen[r].count = i
       /\ \/ pc[r] \in {"unlock_target", "write"} /\ selected[r] # {} /\ Target(r) = t
          \/ pc[r] \in {"alloc_unlock", "alloc_write"} /\ r = t

\* The flush waits under the ids that are really notified, once each, and
\* purges the segment only when none is left that could be mistaken for one
\* of the next filling.
NotificationsMatch ==
  \A r \in Rank :
    /\ pc[r] = "wait" /\ index[r] < count[r] =>
         notif[r][index[r]] # 0 \/ Expected(r, index[r])
    /\ Taken(r) => \A i \in DOMAIN notif[r] : notif[r][i] = 0 /\ ~ Expected(r, i)
    /\ \A i \in DOMAIN notif[r] : i >= count[r] => notif[r][i] = 0

\* Where batch b is
Places(b) ==
  {<<"tmp", r>>     : r \in {s \in Rank : tmp[s] = b}} \cup
  {<<"wire", m>>    : m \in {n \in wire : ~ n.arrived /\ b \in n.batches}} \cup
  {<<"segment", r>> : r \in {s \in Rank : b \in Elements(s) /\ (Taken(s) => b \in onSegment[s])}} \cup
  {<<"local", r>>   : r \in {s \in Rank : b \in local[s] \ onSegment[s]}} \cup
  (IF b \in todo THEN {<<"todo">>} ELSE {}) \cup
  (IF b \in submitted THEN {<<"submitted">>} ELSE {})

\* Whatever the order of reservations, writes, flushes and failed pushes, a
\* batch is in one place: nothing is purged that was not sent or set aside,
\* nothing sent twice, no element written over another.
EveryBatchOnce == \A b \in problem : \E p \in Places(b) : Places(b) = {p}

\* When every result is with its owner, a rank that goes back to its loop
\* finds its buffer as the assertions at the end of parallel_work and the
\* next set_problem need it: empty, unlocked, without notification.
QuietWhenComplete ==
  submitted = problem =>
    /\ wire = {}
    /\ \A r \in Rank : pc[r] = "idle" =>
         /\ IsEmpty(r) /\ state[r] = SEGMENT_AVAILABLE
         /\ \A i \in DOMAIN notif[r] : notif[r][i] = 0

\* All batches move in one direction, or are where they belong.
OneWay == \/ \A b \in problem : Maker[b] <= Owner[b]
          \/ \A b \in problem : Maker[b] >= Owner[b]

\* Every result reaches its owner, over intermediate segments that are full or locked, if no
\* two ranks forward results to each other: each keeps its own segment locked while it tries
\* the other's once.
AllSubmitted == OneWay => <>(submitted = problem)

-----------------------------------------------------------------------------
(* The abstract specification *)

InTransit(b) == \E p \in Places(b) : p[1] \in {"tmp", "wire", "segment", "local"}

Transport == INSTANCE ResultTransport WITH transit <- {b \in problem : InTransit(b)}

\* Seen from its ends, the return of results is a set of batches in transit.
ImplementsTransport == Transport!Spec

=============================================================================
