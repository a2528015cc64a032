------------------------- MODULE ResultBufferProofs -------------------------
(***************************************************************************)
(* Proofs about ResultBuffer, for any number of ranks, any batches, sizes  *)
(* and routes: types, locks and notifications (BaseInv, IdInv); then the   *)
(* room of a segment, the one place of each batch and the number of        *)
(* elements (PlaceInv), with what follows for the assertions of the code,  *)
(* for the end of a problem and for ResultTransport.                       *)
(***************************************************************************)
EXTENDS ResultBuffer, FiniteSetTheorems, WellFoundedInduction, TLAPS

-----------------------------------------------------------------------------
(* Sizes and least ranks *)

LEMMA UnitsAreFinite ==
  ASSUME NEW B \in SUBSET Batch
  PROVE  IsFiniteSet(Units(B)) /\ Units(B) \subseteq Batch \X (1 .. SegmentSize)
<1>0. IsFiniteSet(Batch) /\ IsFiniteSet(1 .. SegmentSize)
  BY FS_Interval, BatchAssumption, RoomAssumption
<1>1. IsFiniteSet(Batch \X (1 .. SegmentSize))
  BY <1>0, FS_Product
<1>2. Units(B) \subseteq Batch \X (1 .. SegmentSize)
  BY RoomAssumption DEF Units
<1>. QED BY <1>1, <1>2, FS_Subset

LEMMA SizeType ==
  ASSUME NEW B \in SUBSET Batch
  PROVE  SizeOf(B) \in Nat /\ Cardinality(B) \in Nat /\ IsFiniteSet(B)
<1>1. IsFiniteSet(B)
  BY FS_Subset, BatchAssumption
<1>. QED BY <1>1, UnitsAreFinite, FS_CardinalityType DEF SizeOf

LEMMA SizeOfNone == SizeOf({}) = 0 /\ Cardinality({}) = 0
<1>1. Units({}) = {}
  BY DEF Units
<1>. QED BY <1>1, FS_EmptySet DEF SizeOf

LEMMA SizeOfOne ==
  ASSUME NEW b \in Batch
  PROVE  SizeOf({b}) = Size[b] /\ Size[b] \in Nat /\ Size[b] >= 1 /\ Cardinality({b}) = 1
<1>1. Size[b] \in 1 .. SegmentSize - 1 /\ SegmentSize \in Nat
  BY RoomAssumption
<1>2. Units({b}) = {b} \X (1 .. Size[b])
  BY DEF Units
<1>3. IsFiniteSet({b}) /\ Cardinality({b}) = 1
  BY FS_Singleton
<1>4. IsFiniteSet(1 .. Size[b]) /\ Cardinality(1 .. Size[b]) = Size[b]
  BY <1>1, FS_Interval
<1>5. Cardinality({b} \X (1 .. Size[b])) = Cardinality({b}) * Cardinality(1 .. Size[b])
  <2>. DEFINE S == {b} T == 1 .. Size[b]
  <2>1. IsFiniteSet(S) /\ IsFiniteSet(T)
    BY <1>3, <1>4
  <2>. HIDE DEF S, T
  <2>2. Cardinality(S \X T) = Cardinality(S) * Cardinality(T)
    BY <2>1, FS_Product
  <2>. QED BY <2>2 DEF S, T
<1>6. SizeOf({b}) = 1 * Size[b]
  BY <1>2, <1>3, <1>4, <1>5 DEF SizeOf
<1>. QED BY <1>1, <1>3, <1>6

LEMMA SizeOfBoth ==
  ASSUME NEW B \in SUBSET Batch, NEW C \in SUBSET Batch, B \cap C = {}
  PROVE  /\ SizeOf(B \cup C) = SizeOf(B) + SizeOf(C)
         /\ Cardinality(B \cup C) = Cardinality(B) + Cardinality(C)
<1>1. Units(B \cup C) = Units(B) \cup Units(C) /\ Units(B) \cap Units(C) = {}
  BY DEF Units
<1>2. IsFiniteSet(Units(B)) /\ IsFiniteSet(Units(C)) /\ IsFiniteSet(B) /\ IsFiniteSet(C)
  BY UnitsAreFinite, SizeType
<1>3. /\ Cardinality(Units(B) \cup Units(C)) = Cardinality(Units(B)) + Cardinality(Units(C)) - Cardinality({})
      /\ Cardinality(B \cup C) = Cardinality(B) + Cardinality(C) - Cardinality({})
  BY <1>1, <1>2, FS_Union
<1>4. Cardinality({}) = 0 /\ SizeOf(B) \in Nat /\ SizeOf(C) \in Nat /\ Cardinality(B) \in Nat /\ Cardinality(C) \in Nat
  BY SizeType, FS_EmptySet
<1>5. SizeOf(B \cup C) = SizeOf(B) + SizeOf(C) - Cardinality({})
  BY <1>1, <1>3 DEF SizeOf
<1>. QED BY <1>3, <1>4, <1>5

LEMMA LeastRank ==
  ASSUME NEW S \in SUBSET Nat, S # {}
  PROVE  Min(S) \in S /\ \A x \in S : Min(S) <= x
<1>1. PICK c \in S : \A d \in S : ~ (<<d, c>> \in OpToRel(<, Nat))
  BY NatLessThanWellFounded, WFMin
<1>2. \A d \in S : c <= d
  <2>1. SUFFICES ASSUME NEW d \in S, d < c PROVE FALSE
    OBVIOUS
  <2>2. <<d, c>> \in OpToRel(<, Nat)
    BY <2>1 DEF OpToRel
  <2>. QED BY <1>1, <2>2
<1>. QED BY <1>2 DEF Min

-----------------------------------------------------------------------------
(* Types, and what belongs to which step of a rank *)

Serving == {"select", "reserve", "unlock_target", "write"}
Allocating == {"alloc", "alloc_reserve", "alloc_unlock", "alloc_full", "alloc_write"}

WireType(m) ==
  /\ m.batches # {} /\ m.batches \subseteq problem
  /\ m.id + Cardinality(m.batches) <= MaxElts
  /\ m.at + SizeOf(m.batches) < SegmentSize

Types ==
  /\ TypeOK
  /\ \A r \in Rank : /\ tmp[r] \in problem \cup {NoBatch} /\ local[r] \subseteq problem
                     /\ selected[r] \subseteq problem
                     /\ \A i \in 0 .. SegmentSize - 1 : mem[r][i] \in problem \cup {Free}
  /\ \A m \in wire : WireType(m)

\* hops, loop variables and the batch in the tmp segment, by step
ControlOf(r) ==
  /\ pc[r] \in Serving => hops[r] # {} /\ Target(r) # r
  /\ pc[r] \notin Serving \cup {"push"} => hops[r] = {}
  /\ pc[r] # "wait" => index[r] = 0
  /\ pc[r] \in Allocating \/ ret[r] = "alloc" => tmp[r] # NoBatch /\ Owner[tmp[r]] # r
  /\ ret[r] = "alloc" => Flushing(r) \/ pc[r] = "lock"

ControlInv == \A r \in Rank : ControlOf(r)

\* The lock word of t is the owner's flush's, or the rank's that holds the lock, or nobody's.
LockOf(t) ==
  /\ state[t] = COPY_IN_PROGRESS <=> Flushing(t)
  /\ \A r \in Rank : state[t] = r <=> Locking(r, t)

LockInv == \A t \in Rank : LockOf(t)

\* What has been read under a lock holds until the lock is released, and what is selected fits.
SeenOf(r) ==
  /\ pc[r] = "reserve" => seen[r] = [head |-> head[Target(r)], count |-> count[Target(r)]]
  /\ pc[r] \in {"reserve", "unlock_target", "write"} =>
       /\ selected[r] \subseteq LocalFor(r, Target(r))
       /\ selected[r] # {} => Fits(selected[r], seen[r])
  /\ pc[r] \in {"alloc_unlock", "alloc_write"} => Fits({tmp[r]}, seen[r])
  /\ pc[r] = "unlock_own" => head[r] = 0 /\ count[r] = 0

SeenInv == \A r \in Rank : SeenOf(r)

BaseInv == Types /\ ControlInv /\ LockInv /\ SeenInv

LEMMA BaseInit == Init => BaseInv
<1>. SUFFICES ASSUME Init PROVE BaseInv
  OBVIOUS
<1>. USE DEF Init
<1>0. SegmentSize \in Nat \ {0} /\ MaxElts \in Nat \ {0}
  BY RoomAssumption
<1>1. TypeOK
  <2>1. problem \in Problems /\ todo \in SUBSET problem /\ submitted \in SUBSET problem
    OBVIOUS
  <2>2. /\ state \in [Rank -> LockWord] /\ head \in [Rank -> 0 .. SegmentSize - 1] /\ count \in [Rank -> 0 .. MaxElts]
        /\ index \in [Rank -> 0 .. MaxElts] /\ seen \in [Rank -> Reservation]
    BY <1>0 DEF LockWord, Reservation
  <2>3. /\ mem \in [Rank -> [0 .. SegmentSize - 1 -> Batch \cup {Free}]]
        /\ notif \in [Rank -> [0 .. MaxElts - 1 -> 0 .. MaxElts]]
    BY <1>0 DEF EmptySegment
  <2>4. /\ pc \in [Rank -> Step] /\ ret \in [Rank -> {"idle", "push_tmp", "alloc"}]
        /\ tmp \in [Rank -> Batch \cup {NoBatch}] /\ local \in [Rank -> SUBSET Batch]
        /\ onSegment \in [Rank -> SUBSET Batch] /\ hops \in [Rank -> SUBSET Rank] /\ selected \in [Rank -> SUBSET Batch]
    BY DEF Step
  <2>. QED BY <2>1, <2>2, <2>3, <2>4 DEF TypeOK
<1>2. Types
  BY <1>1 DEF Types, EmptySegment
<1>3. ControlInv
  BY DEF ControlInv, ControlOf, Serving, Allocating
<1>4. LockInv
  BY DEF LockInv, LockOf, Locking, Flushing, SEGMENT_AVAILABLE, COPY_IN_PROGRESS, Rank
<1>5. SeenInv
  BY DEF SeenInv, SeenOf
<1>. QED BY <1>2, <1>3, <1>4, <1>5 DEF BaseInv

\* The types that steps need, in pieces.
LEMMA TypeFacts ==
  ASSUME Types
  PROVE  /\ problem \subseteq Batch
         /\ pc \in [Rank -> Step] /\ ret \in [Rank -> {"idle", "push_tmp", "alloc"}]
         /\ tmp \in [Rank -> problem \cup {NoBatch}] /\ todo \subseteq problem /\ submitted \subseteq problem
         /\ state \in [Rank -> LockWord]
         /\ head \in [Rank -> 0 .. SegmentSize - 1] /\ count \in [Rank -> 0 .. MaxElts]
         /\ mem \in [Rank -> [0 .. SegmentSize - 1 -> problem \cup {Free}]]
         /\ notif \in [Rank -> [0 .. MaxElts - 1 -> 0 .. MaxElts]]
         /\ local \in [Rank -> SUBSET problem] /\ onSegment \in [Rank -> SUBSET Batch]
         /\ index \in [Rank -> 0 .. MaxElts] /\ hops \in [Rank -> SUBSET Rank]
         /\ seen \in [Rank -> Reservation] /\ selected \in [Rank -> SUBSET problem]
         /\ NbRanks \in Nat \ {0} /\ SegmentSize \in Nat \ {0} /\ MaxElts \in Nat \ {0}
<1>1. problem \in Problems /\ problem \subseteq Batch
  BY BatchAssumption DEF Types, TypeOK
<1>. QED BY <1>1, RankAssumption, RoomAssumption DEF Types, TypeOK

\* What a step of r leaves of another rank.
LEMMA OtherRanks ==
  ASSUME Types, NEW r \in Rank, Return(r) \/ Flush(r), NEW o \in Rank \ {r}
  PROVE  /\ pc'[o] = pc[o] /\ ret'[o] = ret[o] /\ tmp'[o] = tmp[o] /\ local'[o] = local[o]
         /\ onSegment'[o] = onSegment[o] /\ index'[o] = index[o] /\ hops'[o] = hops[o]
         /\ seen'[o] = seen[o] /\ selected'[o] = selected[o] /\ mem'[o] = mem[o] /\ notif'[o] = notif[o]
<1>. USE TypeFacts DEF Goto, batchVars, segmentVars, flushVars, pushVars, SetAside, Served, Unseen
<1>1. ASSUME NEW b \in Batch, Compute(r, b)
      PROVE  tmp'[o] = tmp[o] /\ UNCHANGED <<pc, ret, segmentVars, notif, flushVars, pushVars>>
  BY <1>1 DEF Compute
<1>2. CASE ReturnResults(r) \/ PushTmpResults(r) \/ TryAlloc(r) \/ AllocFailed(r)
  BY <1>2 DEF ReturnResults, PushTmpResults, TryAlloc, AllocFailed
<1>3. CASE AllocReserve(r)
  BY <1>3 DEF AllocReserve
<1>4. CASE AllocUnlock(r) \/ SecondPass(r) \/ LockOwn(r) \/ WaitNotification(r)
  BY <1>4 DEF AllocUnlock, SecondPass, LockOwn, WaitNotification
<1>5. CASE AllocWrite(r)
  BY <1>5 DEF AllocWrite
<1>6. CASE Aggregate(r) \/ SubmitOwn(r)
  BY <1>6 DEF Aggregate, SubmitOwn
<1>7. CASE TryLockTarget(r)
  BY <1>7 DEF TryLockTarget
<1>8. CASE Select(r)
  BY <1>8 DEF Select
<1>9. CASE Reserve(r) \/ UnlockTarget(r) \/ UnlockOwn(r)
  BY <1>9 DEF Reserve, UnlockTarget, UnlockOwn
<1>10. CASE Write(r)
  BY <1>10 DEF Write
<1>11. CASE Purge(r)
  BY <1>11 DEF Purge
<1>. QED BY <1>1, <1>2, <1>3, <1>4, <1>5, <1>6, <1>7, <1>8, <1>9, <1>10, <1>11 DEF Return, Flush

\* A rank that serves a hop has one.
LEMMA TargetType ==
  ASSUME Types, NEW r \in Rank, hops[r] # {}
  PROVE  Target(r) \in hops[r] /\ Target(r) \in Rank
<1>0. Rank \subseteq Nat
  BY DEF Rank
<1>1. hops[r] \subseteq Rank /\ hops[r] \subseteq Nat
  BY <1>0, TypeFacts
<1>. QED BY <1>1, LeastRank DEF Target

\* Only who holds the lock of a segment changes what is reserved there.
LEMMA OnlyUnderLock ==
  ASSUME BaseInv, NEW r \in Rank, Return(r) \/ Flush(r), NEW t \in Rank,
         head'[t] # head[t] \/ count'[t] # count[t]
  PROVE  \/ AllocReserve(r) /\ t = r /\ state[t] = r
         \/ Reserve(r) /\ t = Target(r) /\ state[t] = r
         \/ Purge(r) /\ t = r /\ state[t] = COPY_IN_PROGRESS
<1>. USE TypeFacts DEF BaseInv, Goto, segmentVars
<1>1. ASSUME NEW b \in Batch, Compute(r, b) PROVE FALSE
  BY <1>1 DEF Compute
<1>2. AllocReserve(r) => t = r /\ state[t] = r
  <2>1. AllocReserve(r) => pc[r] = "alloc_reserve" /\ t = r
    BY DEF AllocReserve
  <2>. QED BY <2>1 DEF LockInv, LockOf, Locking
<1>3. Reserve(r) => t = Target(r) /\ state[t] = r
  <2>1. Reserve(r) => pc[r] = "reserve" /\ t = Target(r)
    BY DEF Reserve
  <2>. QED BY <2>1 DEF LockInv, LockOf, Locking
<1>4. Purge(r) => t = r /\ state[t] = COPY_IN_PROGRESS
  <2>1. Purge(r) => pc[r] = "push" /\ t = r
    BY DEF Purge
  <2>. QED BY <2>1 DEF LockInv, LockOf, Flushing
<1>5. ~(ReturnResults(r) \/ PushTmpResults(r) \/ TryAlloc(r) \/ AllocFailed(r) \/ AllocUnlock(r) \/ AllocWrite(r)
        \/ SecondPass(r) \/ LockOwn(r) \/ WaitNotification(r) \/ Aggregate(r) \/ SubmitOwn(r)
        \/ TryLockTarget(r) \/ Select(r) \/ UnlockTarget(r) \/ Write(r) \/ UnlockOwn(r))
  BY DEF ReturnResults, PushTmpResults, TryAlloc, AllocFailed, AllocUnlock, AllocWrite, SecondPass, LockOwn,
         WaitNotification, Aggregate, SubmitOwn, TryLockTarget, Select, UnlockTarget, Write, UnlockOwn
<1>. QED BY <1>1, <1>2, <1>3, <1>4, <1>5 DEF Return, Flush

\* The ways in which a step of r moves lock words.
LEMMA LockSteps ==
  ASSUME BaseInv, NEW r \in Rank, Return(r) \/ Flush(r)
  PROVE  \/ /\ state' = state /\ (Flushing(r)' <=> Flushing(r))
            /\ \A t \in Rank : Locking(r, t)' <=> Locking(r, t)
         \/ \E t \in Rank : /\ state[t] = SEGMENT_AVAILABLE /\ state' = [state EXCEPT ![t] = r]
                            /\ Flushing(r)' <=> Flushing(r)
                            /\ \A u \in Rank : Locking(r, u)' <=> Locking(r, u) \/ u = t
         \/ \E t \in Rank : /\ state[t] = r /\ state' = [state EXCEPT ![t] = SEGMENT_AVAILABLE]
                            /\ Flushing(r)' <=> Flushing(r)
                            /\ \A u \in Rank : Locking(r, u)' <=> Locking(r, u) /\ u # t
         \/ /\ state[r] = SEGMENT_AVAILABLE /\ state' = [state EXCEPT ![r] = COPY_IN_PROGRESS]
            /\ ~Flushing(r) /\ Flushing(r)' /\ \A t \in Rank : Locking(r, t)' <=> Locking(r, t)
         \/ /\ state[r] = COPY_IN_PROGRESS /\ state' = [state EXCEPT ![r] = SEGMENT_AVAILABLE]
            /\ Flushing(r) /\ ~Flushing(r)' /\ \A t \in Rank : Locking(r, t)' <=> Locking(r, t)
<1>. DEFINE Same == Flushing(r)' <=> Flushing(r)
            None == \A t \in Rank : ~Locking(r, t)
<1>0. pc \in [Rank -> Step] /\ ControlOf(r) /\ LockOf(r)
  BY TypeFacts DEF BaseInv, ControlInv, LockInv
<1>1. ASSUME NEW b \in Batch, Compute(r, b)
      PROVE  state' = state /\ Same /\ \A t \in Rank : Locking(r, t)' <=> Locking(r, t)
  BY <1>1 DEF Compute, Flushing, Locking, Target, flushVars
<1>2. CASE ReturnResults(r) \/ PushTmpResults(r) \/ AllocFailed(r) \/ AllocWrite(r) \/ SecondPass(r)
  <2>1. /\ pc[r] \in {"idle", "push_tmp", "alloc", "alloc_write", "second_pass"}
        /\ pc'[r] \in {"idle", "push_tmp", "alloc", "lock", "second_pass"} /\ state' = state
    BY <1>0, <1>2 DEF ReturnResults, PushTmpResults, AllocFailed, AllocWrite, SecondPass, Goto
  <2>. QED BY <2>1 DEF Flushing, Locking
<1>3. CASE TryAlloc(r)
  <2>1. pc[r] = "alloc" /\ pc'[r] = "alloc_reserve" /\ state[r] = SEGMENT_AVAILABLE /\ state' = [state EXCEPT ![r] = r]
    BY <1>0, <1>3 DEF TryAlloc, Goto, CompareAndSwap
  <2>. QED BY <2>1 DEF Flushing, Locking
<1>4. CASE AllocReserve(r)
  <2>1. pc[r] = "alloc_reserve" /\ pc'[r] \in {"alloc_unlock", "alloc_full"} /\ state' = state
    BY <1>0, <1>4 DEF AllocReserve, Goto
  <2>. QED BY <2>1 DEF Flushing, Locking
<1>5. CASE AllocUnlock(r)
  <2>1. pc[r] \in {"alloc_unlock", "alloc_full"} /\ pc'[r] \in {"alloc_write", "lock"}
        /\ CompareAndSwap(r, r, SEGMENT_AVAILABLE)
    BY <1>0, <1>5 DEF AllocUnlock, Goto
  <2>2. state[r] = r
    BY <1>0, <2>1 DEF LockOf, Locking
  <2>. QED BY <2>1, <2>2 DEF CompareAndSwap, Flushing, Locking
<1>6. CASE LockOwn(r)
  <2>1. pc[r] = "lock" /\ pc'[r] = "wait" /\ state[r] = SEGMENT_AVAILABLE
        /\ state' = [state EXCEPT ![r] = COPY_IN_PROGRESS]
    BY <1>0, <1>6 DEF LockOwn, Goto, CompareAndSwap
  <2>. QED BY <2>1 DEF Flushing, Locking
<1>7. CASE WaitNotification(r) \/ Aggregate(r) \/ SubmitOwn(r) \/ Purge(r)
  <2>1. pc[r] \in {"wait", "push"} /\ pc'[r] \in {"wait", "push", "unlock_own"} /\ state' = state
    BY <1>0, <1>7 DEF WaitNotification, Aggregate, SubmitOwn, Purge, Goto
  <2>. QED BY <2>1 DEF Flushing, Locking
<1>8. CASE TryLockTarget(r)
  <2>. DEFINE t == Target(r)
  <2>1. pc[r] = "push" /\ hops[r] # {} /\ t \in Rank
    BY <1>8, TargetType DEF TryLockTarget, BaseInv
  <2>2. CASE state[t] = SEGMENT_AVAILABLE
    <3>1. pc'[r] = "select" /\ hops' = hops /\ state' = [state EXCEPT ![t] = r]
      BY <1>0, <1>8, <2>2 DEF TryLockTarget, CompareAndSwap
    <3>. QED BY <2>1, <2>2, <3>1 DEF Flushing, Locking, Target
  <2>3. CASE state[t] # SEGMENT_AVAILABLE
    <3>1. pc' = pc /\ state' = state
      BY <1>8, <2>3 DEF TryLockTarget, CompareAndSwap
    <3>. QED BY <2>1, <3>1 DEF Flushing, Locking
  <2>. QED BY <2>2, <2>3
<1>9. CASE Select(r) \/ Reserve(r)
  <2>1. pc[r] \in {"select", "reserve"} /\ pc'[r] \in {"reserve", "unlock_target"} /\ state' = state /\ hops' = hops
    BY <1>0, <1>9 DEF Select, Reserve, Goto, flushVars
  <2>. QED BY <2>1 DEF Flushing, Locking, Target
<1>10. CASE UnlockTarget(r)
  <2>1. pc[r] = "unlock_target" /\ pc'[r] = "write" /\ hops' = hops
        /\ CompareAndSwap(Target(r), r, SEGMENT_AVAILABLE)
    BY <1>0, <1>10 DEF UnlockTarget, Goto, flushVars
  <2>2. Target(r) \in Rank
    BY <1>0, <2>1, TargetType DEF ControlOf, Serving, BaseInv
  <2>3. state[Target(r)] = r
    BY <2>1, <2>2 DEF BaseInv, LockInv, LockOf, Locking
  <2>. QED BY <2>1, <2>2, <2>3 DEF CompareAndSwap, Flushing, Locking
<1>11. CASE Write(r)
  <2>1. pc[r] = "write" /\ pc'[r] = "push" /\ state' = state
    BY <1>0, <1>11 DEF Write, Goto
  <2>. QED BY <2>1 DEF Flushing, Locking
<1>12. CASE UnlockOwn(r)
  <2>1. pc[r] = "unlock_own" /\ pc'[r] \in {"idle", "push_tmp", "alloc"}
        /\ CompareAndSwap(r, COPY_IN_PROGRESS, SEGMENT_AVAILABLE)
    BY <1>0, <1>12, TypeFacts DEF UnlockOwn, Goto, BaseInv
  <2>2. state[r] = COPY_IN_PROGRESS
    BY <1>0, <2>1 DEF LockOf, Flushing
  <2>. QED BY <2>1, <2>2 DEF CompareAndSwap, Flushing, Locking
<1>. QED BY <1>1, <1>2, <1>3, <1>4, <1>5, <1>6, <1>7, <1>8, <1>9, <1>10, <1>11, <1>12 DEF Return, Flush

LEMMA LockNext ==
  ASSUME BaseInv, NEW r \in Rank, Return(r) \/ Flush(r)
  PROVE  LockInv'
<1>. SUFFICES ASSUME NEW t \in Rank PROVE LockOf(t)'
  BY DEF LockInv, Rank
<1>1. \A o \in Rank \ {r} : /\ Flushing(o)' <=> Flushing(o)
                            /\ \A u \in Rank : Locking(o, u)' <=> Locking(o, u)
  <2>1. ASSUME NEW o \in Rank \ {r} PROVE pc'[o] = pc[o] /\ hops'[o] = hops[o]
    BY OtherRanks DEF BaseInv
  <2>. QED BY <2>1 DEF Flushing, Locking, Target
<1>2. state \in [Rank -> LockWord] /\ Rank \cap {SEGMENT_AVAILABLE, COPY_IN_PROGRESS} = {}
      /\ SEGMENT_AVAILABLE # COPY_IN_PROGRESS
  BY TypeFacts DEF BaseInv, Rank, SEGMENT_AVAILABLE, COPY_IN_PROGRESS
<1>3. LockOf(t) /\ LockOf(r)
  BY DEF BaseInv, LockInv
<1>. HIDE DEF SEGMENT_AVAILABLE, COPY_IN_PROGRESS
<1>. DEFINE Good == (state'[t] = COPY_IN_PROGRESS <=> Flushing(t)') /\ \A o \in Rank : state'[t] = o <=> Locking(o, t)'
<1>9. SUFFICES Good
  BY DEF LockOf, COPY_IN_PROGRESS, Rank
<1>4. CASE /\ state' = state /\ (Flushing(r)' <=> Flushing(r))
           /\ \A u \in Rank : Locking(r, u)' <=> Locking(r, u)
  BY <1>1, <1>3, <1>4 DEF LockOf
<1>5. ASSUME NEW u \in Rank, state[u] = SEGMENT_AVAILABLE, state' = [state EXCEPT ![u] = r],
             Flushing(r)' <=> Flushing(r), \A v \in Rank : Locking(r, v)' <=> Locking(r, v) \/ v = u
      PROVE  Good
  BY <1>1, <1>2, <1>3, <1>5 DEF LockOf
<1>6. ASSUME NEW u \in Rank, state[u] = r, state' = [state EXCEPT ![u] = SEGMENT_AVAILABLE],
             Flushing(r)' <=> Flushing(r), \A v \in Rank : Locking(r, v)' <=> Locking(r, v) /\ v # u
      PROVE  Good
  BY <1>1, <1>2, <1>3, <1>6 DEF LockOf
<1>7. CASE /\ state[r] = SEGMENT_AVAILABLE /\ state' = [state EXCEPT ![r] = COPY_IN_PROGRESS]
           /\ ~Flushing(r) /\ Flushing(r)' /\ \A u \in Rank : Locking(r, u)' <=> Locking(r, u)
  BY <1>1, <1>2, <1>3, <1>7 DEF LockOf
<1>8. CASE /\ state[r] = COPY_IN_PROGRESS /\ state' = [state EXCEPT ![r] = SEGMENT_AVAILABLE]
           /\ Flushing(r) /\ ~Flushing(r)' /\ \A u \in Rank : Locking(r, u)' <=> Locking(r, u)
  BY <1>1, <1>2, <1>3, <1>8 DEF LockOf
<1>10. Good
  <2>1. \/ /\ state' = state /\ (Flushing(r)' <=> Flushing(r))
            /\ \A u \in Rank : Locking(r, u)' <=> Locking(r, u)
        \/ \E u \in Rank : /\ state[u] = SEGMENT_AVAILABLE /\ state' = [state EXCEPT ![u] = r]
                           /\ Flushing(r)' <=> Flushing(r)
                           /\ \A v \in Rank : Locking(r, v)' <=> Locking(r, v) \/ v = u
        \/ \E u \in Rank : /\ state[u] = r /\ state' = [state EXCEPT ![u] = SEGMENT_AVAILABLE]
                           /\ Flushing(r)' <=> Flushing(r)
                           /\ \A v \in Rank : Locking(r, v)' <=> Locking(r, v) /\ v # u
        \/ /\ state[r] = SEGMENT_AVAILABLE /\ state' = [state EXCEPT ![r] = COPY_IN_PROGRESS]
           /\ ~Flushing(r) /\ Flushing(r)' /\ \A u \in Rank : Locking(r, u)' <=> Locking(r, u)
        \/ /\ state[r] = COPY_IN_PROGRESS /\ state' = [state EXCEPT ![r] = SEGMENT_AVAILABLE]
           /\ Flushing(r) /\ ~Flushing(r)' /\ \A u \in Rank : Locking(r, u)' <=> Locking(r, u)
    BY LockSteps
  <2>. HIDE DEF Good
  <2>. QED BY <1>4, <1>5, <1>6, <1>7, <1>8, <2>1
<1>. QED BY <1>10

\* The types in three groups: of the batches, of the segments, and of the ranks.
BatchTypes ==
  /\ problem \in Problems /\ problem \subseteq Batch /\ todo \subseteq problem /\ submitted \subseteq problem
  /\ tmp \in [Rank -> problem \cup {NoBatch}] /\ local \in [Rank -> SUBSET problem]
  /\ onSegment \in [Rank -> SUBSET Batch] /\ selected \in [Rank -> SUBSET problem]

SegmentTypes ==
  /\ state \in [Rank -> LockWord] /\ head \in [Rank -> 0 .. SegmentSize - 1] /\ count \in [Rank -> 0 .. MaxElts]
  /\ mem \in [Rank -> [0 .. SegmentSize - 1 -> problem \cup {Free}]]
  /\ notif \in [Rank -> [0 .. MaxElts - 1 -> 0 .. MaxElts]]

RankTypes ==
  /\ pc \in [Rank -> Step] /\ ret \in [Rank -> {"idle", "push_tmp", "alloc"}]
  /\ index \in [Rank -> 0 .. MaxElts] /\ hops \in [Rank -> SUBSET Rank] /\ seen \in [Rank -> Reservation]

MessageType == [to : Rank, batches : SUBSET Batch, at : 0 .. SegmentSize - 1, id : 0 .. MaxElts - 1,
                arrived : BOOLEAN]

WireTypes == wire \subseteq MessageType /\ \A m \in wire : WireType(m)

LEMMA TypesInGroups ==
  Types <=> BatchTypes /\ SegmentTypes /\ RankTypes /\ WireTypes
<1>1. Types => BatchTypes /\ SegmentTypes /\ RankTypes
  BY TypeFacts DEF BatchTypes, SegmentTypes, RankTypes, Types, TypeOK
<1>2. Types => WireTypes
  BY DEF WireTypes, Types, TypeOK, MessageType
<1>3. ASSUME BatchTypes, SegmentTypes, RankTypes, WireTypes PROVE Types
  <2>. USE <1>3 DEF BatchTypes, SegmentTypes, RankTypes, WireTypes
  <2>1. tmp \in [Rank -> Batch \cup {NoBatch}] /\ local \in [Rank -> SUBSET Batch]
        /\ selected \in [Rank -> SUBSET Batch]
    OBVIOUS
  <2>2. mem \in [Rank -> [0 .. SegmentSize - 1 -> Batch \cup {Free}]]
    OBVIOUS
  <2>3. TypeOK
    BY <2>1, <2>2 DEF TypeOK, MessageType
  <2>4. ASSUME NEW r \in Rank
        PROVE  /\ tmp[r] \in problem \cup {NoBatch} /\ local[r] \subseteq problem /\ selected[r] \subseteq problem
               /\ \A i \in 0 .. SegmentSize - 1 : mem[r][i] \in problem \cup {Free}
    <3>1. mem[r] \in [0 .. SegmentSize - 1 -> problem \cup {Free}]
      OBVIOUS
    <3>2. tmp[r] \in problem \cup {NoBatch} /\ local[r] \in SUBSET problem /\ selected[r] \in SUBSET problem
      OBVIOUS
    <3>. QED BY <3>1, <3>2
  <2>. QED BY <2>3, <2>4 DEF Types
<1>. QED BY <1>1, <1>2, <1>3

\* What is written to a segment are batches.
LEMMA WrittenType ==
  ASSUME NEW m \in [0 .. SegmentSize - 1 -> problem \cup {Free}], NEW B \in SUBSET problem, NEW at
  PROVE  Written(m, B, at) \in [0 .. SegmentSize - 1 -> problem \cup {Free}]
<1>1. ASSUME NEW i, \E b \in B : Offset(B, b, at) = i
      PROVE  (CHOOSE b \in B : Offset(B, b, at) = i) \in problem
  <2>1. (CHOOSE b \in B : Offset(B, b, at) = i) \in B
    BY <1>1
  <2>. QED BY <2>1
<1>. QED BY <1>1 DEF Written

LEMMA ArrivedMessage ==
  ASSUME NEW to, NEW B, NEW s, NEW m, m = [Message(to, B, s) EXCEPT !.arrived = TRUE]
  PROVE  m = [to |-> to, batches |-> B, at |-> s.head, id |-> s.count, arrived |-> TRUE]
  BY DEF Message

\* The message that a reservation of the right kind becomes.
LEMMA MessageIsTyped ==
  ASSUME Types, NEW B \in SUBSET problem, B # {}, NEW s \in Reservation, Fits(B, s), NEW to \in Rank,
         NEW a \in BOOLEAN, NEW m, m = [to |-> to, batches |-> B, at |-> s.head, id |-> s.count, arrived |-> a]
  PROVE  m \in MessageType /\ WireType(m)
<1>1. SizeOf(B) \in Nat /\ Cardinality(B) \in Nat /\ IsFiniteSet(B)
  BY TypeFacts, SizeType
<1>2. Cardinality(B) >= 1
  BY <1>1, FS_EmptySet
<1>3. /\ s.head \in 0 .. SegmentSize - 1 /\ s.count \in 0 .. MaxElts
      /\ SizeOf(B) < SegmentSize - s.head /\ Cardinality(B) <= MaxElts - s.count
      /\ SegmentSize \in Nat /\ MaxElts \in Nat
  BY TypeFacts DEF Fits, Reservation
<1>4. s.count \in 0 .. MaxElts - 1 /\ s.count + Cardinality(B) <= MaxElts /\ s.head + SizeOf(B) < SegmentSize
  BY <1>1, <1>2, <1>3
<1>5. m = [to |-> to, batches |-> B, at |-> s.head, id |-> s.count, arrived |-> a]
  OBVIOUS
<1>6. B \in SUBSET Batch
  BY TypeFacts
<1>7. m \in MessageType
  <2>1. s.head \in 0 .. SegmentSize - 1 /\ s.count \in 0 .. MaxElts - 1 /\ B \in SUBSET Batch /\ a \in BOOLEAN
    BY <1>3, <1>4, <1>6
  <2>2. [to |-> to, batches |-> B, at |-> s.head, id |-> s.count, arrived |-> a] \in MessageType
    BY <2>1, ZenonT(30) DEF MessageType
  <2>. QED BY <1>5, <2>2
<1>8. WireType(m)
  BY <1>4, <1>5 DEF WireType
<1>. QED BY <1>7, <1>8

\* The reservations of two ranks and of a rank itself stay within the segment.
LEMMA ReserveFits ==
  ASSUME Types, NEW t \in Rank, NEW s, s = [head |-> head[t], count |-> count[t]],
         NEW B \in SUBSET problem, B = {} \/ Fits(B, s)
  PROVE  /\ s \in Reservation
         /\ head[t] + SizeOf(B) \in 0 .. SegmentSize - 1 /\ count[t] + Cardinality(B) \in 0 .. MaxElts
<1>1. SizeOf(B) \in Nat /\ Cardinality(B) \in Nat /\ SizeOf({}) = 0 /\ Cardinality({}) = 0
  BY TypeFacts, SizeType, SizeOfNone
<1>2. head[t] \in 0 .. SegmentSize - 1 /\ count[t] \in 0 .. MaxElts /\ SegmentSize \in Nat /\ MaxElts \in Nat
  BY TypeFacts
<1>3. s.head = head[t] /\ s.count = count[t]
  OBVIOUS
<1>4. s \in Reservation
  BY <1>2 DEF Reservation
<1>5. CASE B = {}
  BY <1>1, <1>2, <1>4, <1>5
<1>6. CASE Fits(B, s)
  <2>1. SizeOf(B) < SegmentSize - head[t] /\ Cardinality(B) <= MaxElts - count[t]
    BY <1>3, <1>6 DEF Fits
  <2>. QED BY <1>1, <1>2, <1>4, <2>1
<1>. QED BY <1>5, <1>6

LEMMA BatchTypesNext ==
  ASSUME BaseInv, NEW r \in Rank, Return(r) \/ Flush(r)
  PROVE  BatchTypes'
<1>. USE DEF BatchTypes
<1>0. BatchTypes /\ Types
  BY TypesInGroups DEF BaseInv
<1>1. ASSUME NEW b \in Batch, Compute(r, b) PROVE BatchTypes'
  BY <1>0, <1>1 DEF Compute, flushVars, pushVars
<1>2. CASE PushTmpResults(r)
  <2>1. tmp[r] # NoBatch => tmp[r] \in problem
    BY <1>0
  <2>. QED BY <1>0, <1>2, <2>1 DEF PushTmpResults, flushVars, pushVars
<1>3. CASE AllocWrite(r)
  BY <1>0, <1>3 DEF AllocWrite, flushVars, pushVars
<1>4. CASE Aggregate(r)
  <2>1. Elements(r) \subseteq problem
    <3>1. head[r] \in 0 .. SegmentSize - 1 /\ mem[r] \in [0 .. SegmentSize - 1 -> problem \cup {Free}]
          /\ SegmentSize \in Nat
      BY <1>0, TypeFacts
    <3>. QED BY <3>1 DEF Elements
  <2>2. /\ local' = [local EXCEPT ![r] = local[r] \cup Elements(r)]
        /\ onSegment' = [onSegment EXCEPT ![r] = Elements(r)]
        /\ UNCHANGED <<batchVars, pushVars>>
    BY <1>4 DEF Aggregate
  <2>. QED BY <1>0, <2>1, <2>2 DEF batchVars, pushVars
<1>5. CASE SubmitOwn(r)
  BY <1>0, <1>5 DEF SubmitOwn, LocalFor, pushVars
<1>6. CASE TryLockTarget(r)
  BY <1>0, <1>6 DEF TryLockTarget, SetAside, batchVars, pushVars
<1>7. CASE Select(r)
  BY <1>0, <1>7 DEF Select, Selections, LocalFor, batchVars, flushVars
<1>8. CASE Write(r)
  BY <1>0, <1>8 DEF Write, SetAside, batchVars
<1>9. CASE \/ ReturnResults(r) \/ TryAlloc(r) \/ AllocFailed(r) \/ AllocReserve(r) \/ AllocUnlock(r) \/ SecondPass(r)
           \/ LockOwn(r) \/ WaitNotification(r) \/ Reserve(r) \/ UnlockTarget(r) \/ Purge(r) \/ UnlockOwn(r)
  <2>1. UNCHANGED <<batchVars, local, onSegment, selected>>
    BY <1>9 DEF ReturnResults, TryAlloc, AllocFailed, AllocReserve, AllocUnlock, SecondPass, LockOwn,
         WaitNotification, Reserve, UnlockTarget, Purge, UnlockOwn, flushVars, pushVars
  <2>. QED BY <1>0, <2>1 DEF batchVars
<1>. QED BY <1>1, <1>2, <1>3, <1>4, <1>5, <1>6, <1>7, <1>8, <1>9 DEF Return, Flush

LEMMA SameProblem ==
  ASSUME NEW r \in Rank, Return(r) \/ Flush(r)
  PROVE  problem' = problem
<1>1. ASSUME NEW b \in Batch, Compute(r, b) PROVE problem' = problem
  BY <1>1 DEF Compute
<1>2. CASE PushTmpResults(r) \/ AllocWrite(r) \/ SubmitOwn(r)
  BY <1>2 DEF PushTmpResults, AllocWrite, SubmitOwn
<1>3. CASE ~(PushTmpResults(r) \/ AllocWrite(r) \/ SubmitOwn(r)) /\ ~(\E b \in Batch : Compute(r, b))
  BY <1>3 DEF Return, Flush, ReturnResults, TryAlloc, AllocFailed, AllocReserve, AllocUnlock, SecondPass, LockOwn,
       WaitNotification, Aggregate, TryLockTarget, Select, Reserve, UnlockTarget, Write, Purge, UnlockOwn, batchVars
<1>. QED BY <1>1, <1>2, <1>3

LEMMA SegmentTypesNext ==
  ASSUME BaseInv, NEW r \in Rank, Return(r) \/ Flush(r)
  PROVE  SegmentTypes'
<1>. USE DEF SegmentTypes
<1>0. SegmentTypes /\ Types /\ BatchTypes /\ SegmentSize \in Nat \ {0} /\ MaxElts \in Nat \ {0}
  BY TypesInGroups, TypeFacts DEF BaseInv
<1>p. problem' = problem
  BY SameProblem
<1>s. state' \in [Rank -> LockWord]
  <2>1. SEGMENT_AVAILABLE \in LockWord /\ COPY_IN_PROGRESS \in LockWord /\ r \in LockWord
    BY DEF LockWord
  <2>2. \/ state' = state
        \/ \E t \in Rank : \/ state' = [state EXCEPT ![t] = r] \/ state' = [state EXCEPT ![t] = SEGMENT_AVAILABLE]
        \/ state' = [state EXCEPT ![r] = COPY_IN_PROGRESS] \/ state' = [state EXCEPT ![r] = SEGMENT_AVAILABLE]
    <3>. HIDE DEF SegmentTypes
    <3>. QED BY LockSteps
  <2>3. state \in [Rank -> LockWord]
    BY <1>0
  <2>. HIDE DEF SegmentTypes, LockWord, SEGMENT_AVAILABLE, COPY_IN_PROGRESS
  <2>. QED BY <2>1, <2>2, <2>3
<1>h. head' \in [Rank -> 0 .. SegmentSize - 1] /\ count' \in [Rank -> 0 .. MaxElts]
  <2>1. CASE UNCHANGED <<head, count>>
    BY <1>0, <2>1
  <2>2. CASE AllocReserve(r)
    <3>1. tmp[r] \in problem /\ {tmp[r]} \in SUBSET problem /\ {tmp[r]} # {}
      BY <1>0, <2>2 DEF BaseInv, ControlInv, ControlOf, AllocReserve, Goto, Allocating, BatchTypes
    <3>2. SizeOf({tmp[r]}) = Size[tmp[r]] /\ Cardinality({tmp[r]}) = 1
      BY <1>0, <3>1, SizeOfOne DEF BatchTypes
    <3>. DEFINE s == [head |-> head[r], count |-> count[r]]
    <3>3. Fits({tmp[r]}, s) => head[r] + Size[tmp[r]] \in 0 .. SegmentSize - 1 /\ count[r] + 1 \in 0 .. MaxElts
      BY <1>0, <3>1, <3>2, ReserveFits
    <3>. QED BY <1>0, <2>2, <3>3 DEF AllocReserve
  <2>3. CASE Reserve(r)
    <3>. DEFINE t == Target(r)
    <3>1. pc[r] = "reserve" /\ hops[r] # {}
      BY <2>3 DEF Reserve, Goto, BaseInv, ControlInv, ControlOf, Serving
    <3>2. t \in Rank
      BY <1>0, <3>1, TargetType
    <3>3. selected[r] = {} \/ Fits(selected[r], [head |-> head[t], count |-> count[t]])
      BY <3>1 DEF BaseInv, SeenInv, SeenOf
    <3>4. head[t] + SizeOf(selected[r]) \in 0 .. SegmentSize - 1 /\ count[t] + Cardinality(selected[r]) \in 0 .. MaxElts
      BY <1>0, <3>2, <3>3, ReserveFits DEF BatchTypes
    <3>. QED BY <1>0, <2>3, <3>2, <3>4 DEF Reserve
  <2>4. CASE Purge(r)
    BY <1>0, <2>4 DEF Purge
  <2>5. CASE ~AllocReserve(r) /\ ~Reserve(r) /\ ~Purge(r)
    <3>1. ASSUME NEW b \in Batch, Compute(r, b) PROVE UNCHANGED <<head, count>>
      BY <3>1 DEF Compute, segmentVars
    <3>. QED BY <2>1, <2>5, <3>1 DEF Return, Flush, ReturnResults, PushTmpResults, TryAlloc, AllocFailed, AllocUnlock,
         AllocWrite, SecondPass, LockOwn, WaitNotification, Aggregate, SubmitOwn, TryLockTarget, Select, UnlockTarget,
         Write, UnlockOwn, segmentVars
  <2>. QED BY <2>2, <2>3, <2>4, <2>5
<1>m. mem' \in [Rank -> [0 .. SegmentSize - 1 -> problem \cup {Free}]]
  <2>1. CASE AllocWrite(r)
    <3>1. tmp[r] \in problem
      BY <1>0, <2>1 DEF BaseInv, ControlInv, ControlOf, AllocWrite, Goto, Allocating, BatchTypes
    <3>2. Written(mem[r], {tmp[r]}, seen[r].head) \in [0 .. SegmentSize - 1 -> problem \cup {Free}]
      BY <1>0, <3>1, WrittenType
    <3>. QED BY <1>0, <2>1, <3>2 DEF AllocWrite
  <2>2. CASE Purge(r)
    BY <1>0, <2>2 DEF Purge, EmptySegment
  <2>3. CASE ~AllocWrite(r) /\ ~Purge(r)
    <3>1. ASSUME NEW b \in Batch, Compute(r, b) PROVE mem' = mem
      BY <3>1 DEF Compute, segmentVars
    <3>. QED BY <1>0, <2>3, <3>1 DEF Return, Flush, ReturnResults, PushTmpResults, TryAlloc, AllocFailed, AllocReserve,
         AllocUnlock, SecondPass, LockOwn, WaitNotification, Aggregate, SubmitOwn, TryLockTarget, Select, Reserve,
         UnlockTarget, Write, UnlockOwn, segmentVars
  <2>. QED BY <2>1, <2>2, <2>3
<1>n. notif' \in [Rank -> [0 .. MaxElts - 1 -> 0 .. MaxElts]]
  <2>1. CASE WaitNotification(r)
    <3>1. notif' = [notif EXCEPT ![r][index[r]] = 0]
      BY <2>1 DEF WaitNotification
    <3>2. notif[r] \in [0 .. MaxElts - 1 -> 0 .. MaxElts] /\ 0 \in 0 .. MaxElts
      BY <1>0
    <3>3. [notif[r] EXCEPT ![index[r]] = 0] \in [0 .. MaxElts - 1 -> 0 .. MaxElts]
      BY <3>2
    <3>. QED BY <1>0, <3>1, <3>3
  <2>2. CASE ~WaitNotification(r)
    <3>1. ASSUME NEW b \in Batch, Compute(r, b) PROVE notif' = notif
      BY <3>1 DEF Compute
    <3>. QED BY <1>0, <2>2, <3>1 DEF Return, Flush, ReturnResults, PushTmpResults, TryAlloc, AllocFailed, AllocReserve,
         AllocUnlock, AllocWrite, SecondPass, LockOwn, Aggregate, SubmitOwn, TryLockTarget, Select, Reserve,
         UnlockTarget, Write, Purge, UnlockOwn
  <2>. QED BY <2>1, <2>2
<1>. QED BY <1>p, <1>s, <1>h, <1>m, <1>n

-----------------------------------------------------------------------------
(* Claims that lie side by side: the claims C, each for c.n places from     *)
(* c.at on, cover the places from lo to hi - 1, none of them twice.         *)

Tiles(C, lo, hi) ==
  /\ \A c \in C : c.at \in Nat /\ c.n \in Nat \ {0} /\ lo <= c.at /\ c.at + c.n <= hi
  /\ \A c, d \in C : c = d \/ c.at + c.n <= d.at \/ d.at + d.n <= c.at
  /\ \A j \in lo .. hi - 1 : \E c \in C : c.at <= j /\ j < c.at + c.n

\* A claim passes from one holder to another.
LEMMA TileReplaced ==
  ASSUME NEW lo \in Nat, NEW hi \in Nat, NEW C, Tiles(C, lo, hi), NEW c \in C, NEW d, d.at = c.at, d.n = c.n
  PROVE  Tiles((C \ {c}) \cup {d}, lo, hi)
<1>1. c.at \in Nat /\ c.n \in Nat \ {0} /\ lo <= c.at /\ c.at + c.n <= hi
  BY DEF Tiles
<1>2. ASSUME NEW j \in lo .. hi - 1 PROVE \E e \in (C \ {c}) \cup {d} : e.at <= j /\ j < e.at + e.n
  <2>1. PICK e \in C : e.at <= j /\ j < e.at + e.n
    BY DEF Tiles
  <2>2. CASE e = c
    BY <2>1, <2>2
  <2>3. CASE e # c
    BY <2>1, <2>3
  <2>. QED BY <2>2, <2>3
<1>3. ASSUME NEW x \in (C \ {c}) \cup {d}, NEW y \in (C \ {c}) \cup {d}
      PROVE  x = y \/ x.at + x.n <= y.at \/ y.at + y.n <= x.at
  BY DEF Tiles
<1>. QED BY <1>1, <1>2, <1>3 DEF Tiles

\* A new claim follows the last one.
LEMMA TileAppended ==
  ASSUME NEW lo \in Nat, NEW hi \in Nat, NEW C, Tiles(C, lo, hi), lo <= hi, NEW d, d.at = hi, d.n \in Nat \ {0}
  PROVE  Tiles(C \cup {d}, lo, hi + d.n)
<1>1. ASSUME NEW j \in lo .. hi + d.n - 1 PROVE \E e \in C \cup {d} : e.at <= j /\ j < e.at + e.n
  <2>1. CASE j < hi
    <3>1. PICK e \in C : e.at <= j /\ j < e.at + e.n
      BY <2>1 DEF Tiles
    <3>. QED BY <3>1
  <2>2. CASE j >= hi
    BY <2>2
  <2>. QED BY <2>1, <2>2
<1>2. \A x \in C \cup {d} : x.at \in Nat /\ x.n \in Nat \ {0} /\ lo <= x.at /\ x.at + x.n <= hi + d.n
  BY DEF Tiles
<1>3. \A x, y \in C \cup {d} : x = y \/ x.at + x.n <= y.at \/ y.at + y.n <= x.at
  BY DEF Tiles
<1>. QED BY <1>1, <1>2, <1>3 DEF Tiles

\* The first claim is served.
LEMMA TileServed ==
  ASSUME NEW lo \in Nat, NEW hi \in Nat, NEW C, Tiles(C, lo, hi), NEW c \in C, c.at = lo
  PROVE  lo + c.n <= hi /\ Tiles(C \ {c}, lo + c.n, hi)
<1>1. c.n \in Nat \ {0} /\ lo + c.n <= hi
  BY DEF Tiles
<1>2. ASSUME NEW j \in lo + c.n .. hi - 1 PROVE \E e \in C \ {c} : e.at <= j /\ j < e.at + e.n
  <2>1. PICK e \in C : e.at <= j /\ j < e.at + e.n
    BY <1>1 DEF Tiles
  <2>. QED BY <2>1, <1>1
<1>3. ASSUME NEW x \in C \ {c}
      PROVE  x.at \in Nat /\ x.n \in Nat \ {0} /\ lo + c.n <= x.at /\ x.at + x.n <= hi
  <2>1. x.at \in Nat /\ x.n \in Nat \ {0} /\ lo <= x.at /\ x.at + x.n <= hi /\ x \in C /\ x # c
    BY DEF Tiles
  <2>2. x.at + x.n <= c.at \/ c.at + c.n <= x.at
    BY <2>1 DEF Tiles
  <2>. QED BY <1>1, <2>1, <2>2
<1>4. \A x, y \in C \ {c} : x = y \/ x.at + x.n <= y.at \/ y.at + y.n <= x.at
  BY DEF Tiles
<1>. QED BY <1>1, <1>2, <1>3, <1>4 DEF Tiles

\* Where places are claimed, there is a first claim.
LEMMA FirstTile ==
  ASSUME NEW lo \in Nat, NEW hi \in Nat, NEW C, Tiles(C, lo, hi), lo < hi
  PROVE  \E c \in C : c.at = lo
<1>1. PICK c \in C : c.at <= lo /\ lo < c.at + c.n
  BY DEF Tiles
<1>. QED BY <1>1 DEF Tiles

\* Where none are, there is no claim, whatever the limits are called.
LEMMA NoTile ==
  ASSUME NEW lo \in Nat, NEW hi \in Nat, NEW C, Tiles(C, lo, hi), lo >= hi
  PROVE  C = {} /\ \A x \in Nat : Tiles(C, x, x)
<1>1. \A c \in C : c.at \in Nat /\ c.n \in Nat \ {0} /\ lo <= c.at /\ c.at + c.n <= hi
  BY DEF Tiles
<1>2. C = {}
  BY <1>1
<1>. QED BY <1>2 DEF Tiles

-----------------------------------------------------------------------------
(* The steps of a rank keep its control state and what it has read *)

LEMMA ControlNext ==
  ASSUME BaseInv, NEW r \in Rank, Return(r) \/ Flush(r)
  PROVE  ControlInv'
<1>. USE DEF Goto
<1>0. Types /\ ControlOf(r) /\ pc \in [Rank -> Step] /\ ret \in [Rank -> {"idle", "push_tmp", "alloc"}]
      /\ tmp \in [Rank -> problem \cup {NoBatch}] /\ hops \in [Rank -> SUBSET Rank] /\ index \in [Rank -> 0 .. MaxElts]
  BY TypeFacts DEF BaseInv, ControlInv
<1>1. ASSUME NEW o \in Rank \ {r} PROVE ControlOf(o)'
  <2>1. /\ pc'[o] = pc[o] /\ ret'[o] = ret[o] /\ tmp'[o] = tmp[o] /\ hops'[o] = hops[o] /\ index'[o] = index[o]
    BY <1>0, OtherRanks
  <2>2. ControlOf(o)
    BY DEF BaseInv, ControlInv
  <2>. QED BY <2>1, <2>2 DEF ControlOf, Target, Flushing
<1>s. SUFFICES ControlOf(r)'
  BY <1>1 DEF ControlInv, Rank
<1>. USE DEF Serving, Allocating
<1>2. ASSUME NEW b \in Batch, Compute(r, b) PROVE ControlOf(r)'
  BY <1>0, <1>2 DEF Compute, ControlOf, flushVars, Target, Flushing
<1>3. CASE ReturnResults(r) \/ SecondPass(r)
  <2>1. /\ pc[r] \in {"idle", "second_pass"} /\ pc'[r] \in {"lock", "push_tmp", "idle"} /\ ret'[r] \in {"push_tmp", "idle"}
        /\ hops' = hops /\ index' = index
    BY <1>0, <1>3 DEF ReturnResults, SecondPass, flushVars
  <2>. QED BY <1>0, <2>1 DEF ControlOf
<1>4. CASE PushTmpResults(r)
  <2>1. /\ pc[r] = "push_tmp" /\ ret' = ret /\ hops' = hops /\ index' = index
        /\ \/ pc'[r] \in {"idle", "second_pass"}
           \/ pc'[r] = "alloc" /\ tmp' = tmp /\ tmp[r] # NoBatch /\ Owner[tmp[r]] # r
    BY <1>0, <1>4 DEF PushTmpResults, flushVars
  <2>. QED BY <1>0, <2>1 DEF ControlOf, Flushing
<1>5. CASE TryAlloc(r) \/ AllocFailed(r) \/ AllocReserve(r) \/ AllocUnlock(r)
  <2>1. /\ pc[r] \in Allocating /\ pc'[r] \in Allocating \cup {"lock"} /\ (ret' = ret \/ pc'[r] = "lock")
        /\ tmp' = tmp /\ hops' = hops /\ index' = index
    BY <1>0, <1>5 DEF TryAlloc, AllocFailed, AllocReserve, AllocUnlock, flushVars, batchVars
  <2>. QED BY <1>0, <2>1 DEF ControlOf, Flushing
<1>6. CASE AllocWrite(r)
  <2>1. pc[r] = "alloc_write" /\ pc'[r] = "second_pass" /\ ret' = ret /\ hops' = hops /\ index' = index
    BY <1>0, <1>6 DEF AllocWrite, flushVars
  <2>. QED BY <1>0, <2>1 DEF ControlOf, Flushing
<1>7. CASE LockOwn(r) \/ WaitNotification(r)
  <2>1. pc[r] \in {"lock", "wait"} /\ pc'[r] = "wait" /\ ret' = ret /\ tmp' = tmp /\ hops' = hops
    BY <1>0, <1>7 DEF LockOwn, WaitNotification, flushVars, batchVars
  <2>. QED BY <1>0, <2>1 DEF ControlOf, Flushing
<1>8. CASE Aggregate(r)
  <2>1. pc[r] = "wait" /\ pc'[r] = "push" /\ ret' = ret /\ tmp' = tmp /\ index'[r] = 0
    BY <1>0, <1>8 DEF Aggregate, batchVars
  <2>. QED BY <1>0, <2>1 DEF ControlOf, Flushing
<1>9. CASE SubmitOwn(r) \/ Write(r) \/ (TryLockTarget(r) /\ pc'[r] = "push")
  <2>1. pc[r] \in {"push", "write"} /\ pc'[r] = "push" /\ ret' = ret /\ tmp' = tmp /\ index' = index
    BY <1>0, <1>9 DEF SubmitOwn, Write, TryLockTarget, batchVars
  <2>. QED BY <1>0, <2>1 DEF ControlOf, Flushing
<1>10. CASE (TryLockTarget(r) /\ pc'[r] # "push") \/ Select(r) \/ Reserve(r) \/ UnlockTarget(r)
  <2>1. /\ (pc[r] = "push" /\ hops[r] # {} /\ Target(r) # r) \/ pc[r] \in Serving
        /\ pc'[r] \in Serving /\ ret' = ret /\ tmp' = tmp /\ index' = index /\ hops' = hops
    BY <1>0, <1>10 DEF TryLockTarget, Select, Reserve, UnlockTarget, flushVars, batchVars
  <2>. QED BY <1>0, <2>1 DEF ControlOf, Flushing, Target
<1>11. CASE Purge(r)
  <2>1. pc[r] = "push" /\ hops[r] = {} /\ pc'[r] = "unlock_own" /\ ret' = ret /\ tmp' = tmp /\ index' = index /\ hops' = hops
    BY <1>0, <1>11 DEF Purge, flushVars, batchVars
  <2>. QED BY <1>0, <2>1 DEF ControlOf, Flushing
<1>12. CASE UnlockOwn(r)
  <2>1. /\ pc[r] = "unlock_own" /\ pc'[r] = ret[r] /\ ret[r] \in {"idle", "push_tmp", "alloc"} /\ ret'[r] = "idle"
        /\ tmp' = tmp /\ index' = index /\ hops' = hops
    BY <1>0, <1>12 DEF UnlockOwn, flushVars, batchVars
  <2>. QED BY <1>0, <2>1 DEF ControlOf, Flushing
<1>13. TryLockTarget(r) => pc'[r] = "push" \/ pc'[r] # "push"
  OBVIOUS
<1>. QED BY <1>2, <1>3, <1>4, <1>5, <1>6, <1>7, <1>8, <1>9, <1>10, <1>11, <1>12, <1>13 DEF Return, Flush

LEMMA SeenNext ==
  ASSUME BaseInv, NEW r \in Rank, Return(r) \/ Flush(r)
  PROVE  SeenInv'
<1>. USE DEF Goto
<1>0. Types /\ ControlOf(r) /\ SeenOf(r) /\ pc \in [Rank -> Step] /\ seen \in [Rank -> Reservation]
      /\ head \in [Rank -> 0 .. SegmentSize - 1] /\ count \in [Rank -> 0 .. MaxElts] /\ selected \in [Rank -> SUBSET problem]
      /\ ret \in [Rank -> {"idle", "push_tmp", "alloc"}]
  BY TypeFacts DEF BaseInv, ControlInv, SeenInv
<1>1. ASSUME NEW o \in Rank \ {r} PROVE SeenOf(o)'
  <2>1. /\ pc'[o] = pc[o] /\ tmp'[o] = tmp[o] /\ hops'[o] = hops[o] /\ seen'[o] = seen[o]
        /\ selected'[o] = selected[o] /\ local'[o] = local[o]
    BY <1>0, OtherRanks
  <2>2. SeenOf(o)
    BY DEF BaseInv, SeenInv
  <2>3. Target(o)' = Target(o) /\ LocalFor(o, Target(o))' = LocalFor(o, Target(o))
    BY <2>1 DEF Target, LocalFor, Hop
  <2>4. pc[o] = "reserve" => head'[Target(o)] = head[Target(o)] /\ count'[Target(o)] = count[Target(o)]
    <3>1. SUFFICES ASSUME pc[o] = "reserve" PROVE head'[Target(o)] = head[Target(o)] /\ count'[Target(o)] = count[Target(o)]
      OBVIOUS
    <3>2. Target(o) \in Rank
      BY <1>0, <3>1, TargetType DEF BaseInv, ControlInv, ControlOf, Serving
    <3>3. state[Target(o)] = o
      BY <3>1, <3>2 DEF BaseInv, LockInv, LockOf, Locking
    <3>4. o # r /\ o # COPY_IN_PROGRESS
      BY DEF Rank, COPY_IN_PROGRESS
    <3>. QED BY <3>2, <3>3, <3>4, OnlyUnderLock
  <2>5. pc[o] = "unlock_own" => head'[o] = head[o] /\ count'[o] = count[o]
    <3>1. SUFFICES ASSUME pc[o] = "unlock_own" PROVE head'[o] = head[o] /\ count'[o] = count[o]
      OBVIOUS
    <3>2. state[o] = COPY_IN_PROGRESS
      BY <3>1 DEF BaseInv, LockInv, LockOf, Flushing
    <3>3. o # r /\ r # COPY_IN_PROGRESS
      BY DEF Rank, COPY_IN_PROGRESS
    <3>. QED BY <3>2, <3>3, OnlyUnderLock
  <2>. QED BY <2>1, <2>2, <2>3, <2>4, <2>5 DEF SeenOf
<1>s. SUFFICES SeenOf(r)'
  BY <1>1 DEF SeenInv, Rank
<1>2. ASSUME NEW b \in Batch, Compute(r, b) PROVE SeenOf(r)'
  BY <1>0, <1>2 DEF Compute, SeenOf
<1>3. CASE AllocReserve(r)
  <2>. DEFINE s == [head |-> head[r], count |-> count[r]]
  <2>1. \/ pc'[r] = "alloc_unlock" /\ seen'[r] = s /\ Fits({tmp[r]}, s) /\ tmp' = tmp
        \/ pc'[r] = "alloc_full"
    BY <1>0, <1>3 DEF AllocReserve, batchVars
  <2>. QED BY <2>1 DEF SeenOf, Fits
<1>4. CASE AllocUnlock(r)
  <2>1. pc[r] \in {"alloc_unlock", "alloc_full"} 
        /\ ((pc'[r] = "alloc_write" /\ pc[r] = "alloc_unlock") \/ pc'[r] = "lock")
        /\ seen' = seen /\ tmp' = tmp
    BY <1>0, <1>4 DEF AllocUnlock, pushVars, batchVars
  <2>. QED BY <1>0, <2>1 DEF SeenOf, Fits
<1>5. CASE Select(r)
  <2>. DEFINE t == Target(r)
              s == [head |-> head[t], count |-> count[t]]
  <2>1. pc[r] = "select" /\ pc'[r] = "reserve" /\ seen' = [seen EXCEPT ![r] = s] /\ UNCHANGED <<head, count, local, hops>>
    BY <1>0, <1>5 DEF Select, segmentVars, flushVars
  <2>2. PICK S \in Selections(LocalFor(r, t), s) : selected' = [selected EXCEPT ![r] = S]
    BY <1>5 DEF Select
  <2>3. S \subseteq LocalFor(r, t) /\ (S # {} => Fits(S, s)) /\ selected'[r] = S /\ seen'[r] = s
    BY <1>0, <2>1, <2>2 DEF Selections
  <2>4. Target(r)' = t /\ LocalFor(r, t)' = LocalFor(r, t)
    BY <2>1 DEF Target, LocalFor, Hop
  <2>. QED BY <2>1, <2>3, <2>4 DEF SeenOf, Fits
<1>6. CASE Reserve(r) \/ UnlockTarget(r)
  <2>1. pc[r] \in {"reserve", "unlock_target"} /\ pc'[r] \in {"unlock_target", "write"} /\ UNCHANGED <<seen, selected, local, hops>>
    BY <1>0, <1>6 DEF Reserve, UnlockTarget, flushVars, pushVars
  <2>2. Target(r)' = Target(r) /\ LocalFor(r, Target(r))' = LocalFor(r, Target(r))
    BY <2>1 DEF Target, LocalFor, Hop
  <2>. QED BY <1>0, <2>1, <2>2 DEF SeenOf, Fits
<1>7. CASE Purge(r)
  <2>1. pc'[r] = "unlock_own" /\ head'[r] = 0 /\ count'[r] = 0
    BY <1>0, <1>7 DEF Purge
  <2>. QED BY <2>1 DEF SeenOf
<1>8. CASE ReturnResults(r) \/ PushTmpResults(r) \/ TryAlloc(r) \/ AllocFailed(r) \/ AllocWrite(r) \/ SecondPass(r)
           \/ LockOwn(r) \/ WaitNotification(r) \/ Aggregate(r) \/ SubmitOwn(r) \/ TryLockTarget(r) \/ Write(r) \/ UnlockOwn(r)
  <2>1. pc'[r] \notin {"reserve", "unlock_target", "write", "alloc_unlock", "alloc_write", "unlock_own"}
    BY <1>0, <1>8 DEF ReturnResults, PushTmpResults, TryAlloc, AllocFailed, AllocWrite, SecondPass, LockOwn,
         WaitNotification, Aggregate, SubmitOwn, TryLockTarget, Write, UnlockOwn
  <2>. QED BY <2>1 DEF SeenOf
<1>. QED BY <1>2, <1>3, <1>4, <1>5, <1>6, <1>7, <1>8 DEF Return, Flush

\* The messages of the wire keep their form, the written ones got it from a reservation.
LEMMA WireTypesNext ==
  ASSUME BaseInv, NEW r \in Rank, Return(r) \/ Flush(r)
  PROVE  WireTypes'
<1>. USE DEF WireTypes, Goto
<1>0. WireTypes /\ Types /\ BatchTypes /\ problem' = problem /\ SeenOf(r) /\ ControlOf(r)
      /\ seen[r] \in Reservation
  BY TypesInGroups, SameProblem, TypeFacts DEF BaseInv, SeenInv, ControlInv
<1>1. CASE wire' = wire
  BY <1>0, <1>1 DEF WireType
<1>2. ASSUME NEW m \in MessageType, WireType(m), wire' = wire \cup {m} PROVE WireTypes'
  BY <1>0, <1>2 DEF WireType
<1>3. CASE AllocWrite(r)
  <2>. DEFINE m == [Message(r, {tmp[r]}, seen[r]) EXCEPT !.arrived = TRUE]
  <2>1. pc[r] = "alloc_write" /\ wire' = wire \cup {m}
    BY <1>3 DEF AllocWrite
  <2>2. {tmp[r]} \in SUBSET problem /\ Fits({tmp[r]}, seen[r])
    BY <1>0, <2>1 DEF ControlOf, SeenOf, Allocating, BatchTypes
  <2>3. m \in MessageType /\ WireType(m)
    <3>1. m = [to |-> r, batches |-> {tmp[r]}, at |-> seen[r].head, id |-> seen[r].count, arrived |-> TRUE]
      BY ArrivedMessage
    <3>2. TRUE \in BOOLEAN /\ {tmp[r]} # {}
      OBVIOUS
    <3>. HIDE DEF m
    <3>. QED BY <1>0, <2>2, <3>1, <3>2, MessageIsTyped
  <2>. QED BY <1>2, <2>1, <2>3
<1>4. CASE Write(r)
  <2>. DEFINE S == selected[r]
              m == Message(Target(r), S, seen[r])
  <2>1. pc[r] = "write" /\ (S # {} => wire' = wire \cup {m}) /\ (S = {} => wire' = wire)
    BY <1>4 DEF Write
  <2>2. ASSUME S # {} PROVE m \in MessageType /\ WireType(m)
    <3>1. Target(r) \in Rank
      BY <1>0, <2>1, TargetType DEF ControlOf, Serving
    <3>2. S \in SUBSET problem /\ Fits(S, seen[r])
      BY <1>0, <2>1, <2>2 DEF SeenOf, BatchTypes
    <3>3. m = [to |-> Target(r), batches |-> S, at |-> seen[r].head, id |-> seen[r].count, arrived |-> FALSE]
      BY DEF Message
    <3>4. FALSE \in BOOLEAN
      OBVIOUS
    <3>. HIDE DEF m, S
    <3>. QED BY <1>0, <2>2, <3>1, <3>2, <3>3, <3>4, MessageIsTyped
  <2>. QED BY <1>1, <1>2, <2>1, <2>2
<1>5. CASE ~AllocWrite(r) /\ ~Write(r)
  <2>1. ASSUME NEW b \in Batch, Compute(r, b) PROVE wire' = wire
    BY <2>1 DEF Compute
  <2>2. wire' = wire
    BY <1>5, <2>1 DEF Return, Flush, ReturnResults, PushTmpResults, TryAlloc, AllocFailed, AllocReserve, AllocUnlock,
       SecondPass, LockOwn, WaitNotification, Aggregate, SubmitOwn, TryLockTarget, Select, Reserve, UnlockTarget,
       Purge, UnlockOwn
  <2>. QED BY <1>1, <2>2
<1>. QED BY <1>3, <1>4, <1>5

-----------------------------------------------------------------------------
(* The ids of notifications: under way, promised by a reservation, notified *)

\* r has reserved on the segment of t, and has not notified it yet.
Pending(r, t) ==
  \/ pc[r] \in {"unlock_target", "write"} /\ selected[r] # {} /\ Target(r) = t
  \/ pc[r] \in {"alloc_unlock", "alloc_write"} /\ r = t

PendingBatches(r) == IF pc[r] \in {"unlock_target", "write"} THEN selected[r] ELSE {tmp[r]}

WireId(m) == [kind |-> "wire", of |-> m, at |-> m.id, n |-> Cardinality(m.batches)]
RankId(r) == [kind |-> "rank", of |-> r, at |-> seen[r].count, n |-> Cardinality(PendingBatches(r))]
NotifId(t, i) == [kind |-> "notified", of |-> i, at |-> i, n |-> notif[t][i]]

WireIds(t)  == {WireId(m) : m \in {n \in wire : n.to = t}}
RankIds(t)  == {RankId(r) : r \in {o \in Rank : Pending(o, t)}}
NotifIds(t) == {NotifId(t, i) : i \in {j \in 0 .. MaxElts - 1 : notif[t][j] # 0}}

Ids(t) == WireIds(t) \cup RankIds(t) \cup NotifIds(t)

\* the first element that t has not waited for
Low(t) == IF Taken(t) THEN count[t] ELSE index[t]

\* They are those of the elements reserved and not waited for, each once.
IdsOf(t) == Low(t) <= count[t] /\ Tiles(Ids(t), Low(t), count[t])

IdInv == \A t \in Rank : IdsOf(t)

\* Claims of different holders differ.
LEMMA IdsDiffer ==
  /\ \A m, n : WireId(m) = WireId(n) => m = n
  /\ \A r, o : RankId(r) = RankId(o) => r = o
  /\ \A t, i, j : NotifId(t, i) = NotifId(t, j) => i = j
  /\ \A m, r, t, i : WireId(m) # RankId(r) /\ RankId(r) # NotifId(t, i) /\ WireId(m) # NotifId(t, i)
<1>1. \A m : WireId(m).kind = "wire" /\ WireId(m).of = m
  BY DEF WireId
<1>2. \A r : RankId(r).kind = "rank" /\ RankId(r).of = r
  BY DEF RankId
<1>3. \A t, i : NotifId(t, i).kind = "notified" /\ NotifId(t, i).of = i
  BY DEF NotifId
<1>. QED BY <1>1, <1>2, <1>3

\* What a step of r leaves of the reservations of another rank.
LEMMA OtherPending ==
  ASSUME Types, NEW r \in Rank, Return(r) \/ Flush(r), NEW o \in Rank \ {r}
  PROVE  /\ \A t : Pending(o, t)' <=> Pending(o, t)
         /\ RankId(o)' = RankId(o) /\ PendingBatches(o)' = PendingBatches(o) /\ seen'[o] = seen[o]
<1>1. pc'[o] = pc[o] /\ selected'[o] = selected[o] /\ hops'[o] = hops[o] /\ seen'[o] = seen[o] /\ tmp'[o] = tmp[o]
  BY OtherRanks
<1>. QED BY <1>1 DEF Pending, Target, RankId, PendingBatches

\* A step that leaves r's own reservation and the notifications leaves the ids.
LEMMA SameIds ==
  ASSUME Types, NEW r \in Rank, Return(r) \/ Flush(r), wire' = wire, notif' = notif,
         \A t \in Rank : Pending(r, t)' <=> Pending(r, t),
         (\E t \in Rank : Pending(r, t)) => RankId(r)' = RankId(r),
         NEW t \in Rank
  PROVE  Ids(t)' = Ids(t)
<1>1. WireIds(t)' = WireIds(t) /\ NotifIds(t)' = NotifIds(t)
  BY DEF WireIds, NotifIds, WireId, NotifId
<1>2. \A o \in Rank : (Pending(o, t)' <=> Pending(o, t)) /\ (Pending(o, t) => RankId(o)' = RankId(o))
  BY OtherPending
<1>3. RankIds(t)' = RankIds(t)
  BY <1>2 DEF RankIds
<1>. QED BY <1>1, <1>3 DEF Ids

PendingStep == {"unlock_target", "write", "alloc_unlock", "alloc_write"}

\* The steps that leave all reservations.
LEMMA QuietReservations ==
  ASSUME BaseInv, NEW r \in Rank,
         \/ \E b \in Batch : Compute(r, b)
         \/ ReturnResults(r) \/ PushTmpResults(r) \/ TryAlloc(r) \/ AllocFailed(r) \/ AllocUnlock(r) \/ SecondPass(r)
         \/ LockOwn(r) \/ WaitNotification(r) \/ Aggregate(r) \/ SubmitOwn(r) \/ TryLockTarget(r) \/ Select(r)
         \/ UnlockTarget(r) \/ Purge(r) \/ UnlockOwn(r)
  PROVE  /\ wire' = wire
         /\ \A u \in Rank : Pending(r, u)' <=> Pending(r, u)
         /\ (\E u \in Rank : Pending(r, u)) => seen'[r] = seen[r] /\ PendingBatches(r)' = PendingBatches(r)
<1>. USE DEF Goto, flushVars, pushVars, batchVars
<1>0. Types /\ pc \in [Rank -> Step] /\ ret \in [Rank -> {"idle", "push_tmp", "alloc"}]
  BY TypeFacts DEF BaseInv
<1>1. wire' = wire
  <2>1. ASSUME NEW b \in Batch, Compute(r, b) PROVE wire' = wire
    BY <2>1 DEF Compute
  <2>. QED BY <2>1 DEF ReturnResults, PushTmpResults, TryAlloc, AllocFailed, AllocUnlock, SecondPass,
       LockOwn, WaitNotification, Aggregate, SubmitOwn, TryLockTarget, Select, UnlockTarget, Purge, UnlockOwn
<1>2. CASE pc[r] \in {"alloc_unlock", "unlock_target"}
  <2>1. /\ \/ pc[r] = "alloc_unlock" /\ pc'[r] = "alloc_write"
           \/ pc[r] = "unlock_target" /\ pc'[r] = "write"
        /\ UNCHANGED <<seen, selected, hops, tmp>>
    <3>1. ASSUME NEW b \in Batch PROVE ~Compute(r, b)
      BY <1>2 DEF Compute
    <3>2. AllocUnlock(r) \/ UnlockTarget(r)
      BY <1>2, <3>1 DEF ReturnResults, PushTmpResults, TryAlloc, AllocFailed, SecondPass,
         LockOwn, WaitNotification, Aggregate, SubmitOwn, TryLockTarget, Select, Purge, UnlockOwn
    <3>3. CASE AllocUnlock(r)
      BY <1>0, <1>2, <3>3 DEF AllocUnlock
    <3>4. CASE UnlockTarget(r)
      BY <1>0, <1>2, <3>4 DEF UnlockTarget
    <3>. QED BY <3>2, <3>3, <3>4
  <2>. QED BY <1>1, <2>1 DEF Pending, PendingBatches, Target
<1>3. CASE pc[r] \notin {"alloc_unlock", "unlock_target"}
  <2>1. pc[r] \notin PendingStep /\ pc'[r] \notin PendingStep
    <3>1. ASSUME NEW b \in Batch, Compute(r, b) PROVE pc[r] \notin PendingStep /\ pc'[r] \notin PendingStep
      BY <3>1 DEF Compute, PendingStep
    <3>2. CASE ReturnResults(r) \/ PushTmpResults(r) \/ TryAlloc(r) \/ AllocFailed(r) \/ AllocUnlock(r) \/ SecondPass(r)
      BY <1>0, <1>3, <3>2 DEF ReturnResults, PushTmpResults, TryAlloc, AllocFailed, AllocUnlock, SecondPass, PendingStep
    <3>3. CASE LockOwn(r) \/ WaitNotification(r) \/ Aggregate(r) \/ SubmitOwn(r) \/ TryLockTarget(r) \/ Select(r)
               \/ UnlockTarget(r) \/ Purge(r) \/ UnlockOwn(r)
      BY <1>0, <1>3, <3>3 DEF LockOwn, WaitNotification, Aggregate, SubmitOwn, TryLockTarget, Select, UnlockTarget, Purge,
         UnlockOwn, PendingStep
    <3>. QED BY <3>1, <3>2, <3>3
  <2>2. \A u \in Rank : ~Pending(r, u) /\ ~Pending(r, u)'
    BY <2>1 DEF Pending, PendingStep
  <2>. QED BY <1>1, <2>2
<1>. QED BY <1>2, <1>3

\* The steps that leave all claims on ids.
LEMMA QuietSteps ==
  ASSUME BaseInv, NEW r \in Rank,
         \/ \E b \in Batch : Compute(r, b)
         \/ ReturnResults(r) \/ PushTmpResults(r) \/ TryAlloc(r) \/ AllocFailed(r) \/ AllocUnlock(r) \/ SecondPass(r)
         \/ LockOwn(r) \/ Aggregate(r) \/ SubmitOwn(r) \/ TryLockTarget(r) \/ Select(r) \/ UnlockTarget(r)
         \/ Purge(r) \/ UnlockOwn(r),
         NEW t \in Rank
  PROVE  Ids(t)' = Ids(t)
<1>1. Types /\ (Return(r) \/ Flush(r))
  BY DEF BaseInv, Return, Flush
<1>2. /\ wire' = wire
      /\ \A u \in Rank : Pending(r, u)' <=> Pending(r, u)
      /\ (\E u \in Rank : Pending(r, u)) => RankId(r)' = RankId(r)
  BY QuietReservations DEF RankId
<1>3. notif' = notif
  <2>1. ASSUME NEW b \in Batch, Compute(r, b) PROVE notif' = notif
    BY <2>1 DEF Compute
  <2>. QED BY <2>1 DEF ReturnResults, PushTmpResults, TryAlloc, AllocFailed, AllocUnlock, SecondPass,
       LockOwn, Aggregate, SubmitOwn, TryLockTarget, Select, UnlockTarget, Purge, UnlockOwn
<1>. QED BY <1>1, <1>2, <1>3, SameIds

\* A reservation is appended to what is claimed on the segment it is made on.
LEMMA ReservingIds ==
  ASSUME Types, IdInv, NEW r \in Rank, Return(r) \/ Flush(r), NEW u \in Rank, wire' = wire, notif' = notif,
         \A t \in Rank : ~Pending(r, t) /\ (Pending(r, t)' <=> t = u),
         RankId(r)'.at = count[u], RankId(r)'.n \in Nat \ {0}, count' = [count EXCEPT ![u] = @ + RankId(r)'.n],
         \A t \in Rank : Low(t)' = Low(t)
  PROVE  IdInv'
<1>1. ASSUME NEW t \in Rank PROVE IdsOf(t)'
  <2>0. Low(t) \in Nat /\ count[t] \in Nat /\ IdsOf(t) /\ count \in [Rank -> 0 .. MaxElts] /\ MaxElts \in Nat
    BY TypeFacts DEF Low, IdInv
  <2>1. WireIds(t)' = WireIds(t) /\ NotifIds(t)' = NotifIds(t)
    BY DEF WireIds, NotifIds, WireId, NotifId
  <2>2. \A o \in Rank \ {r} : (Pending(o, t)' <=> Pending(o, t)) /\ RankId(o)' = RankId(o)
    BY OtherPending
  <2>3. CASE t = u
    <3>1. RankIds(t)' = RankIds(t) \cup {RankId(r)'}
      BY <2>2, <2>3 DEF RankIds
    <3>2. Ids(t)' = Ids(t) \cup {RankId(r)'}
      BY <2>1, <3>1 DEF Ids
    <3>3. count'[t] = count[t] + RankId(r)'.n
      BY <2>0, <2>3
    <3>4. Tiles(Ids(t) \cup {RankId(r)'}, Low(t), count[t] + RankId(r)'.n)
      <4>. DEFINE d == RankId(r)'
      <4>1. d.at = count[t] /\ d.n \in Nat \ {0} /\ Tiles(Ids(t), Low(t), count[t]) /\ Low(t) <= count[t]
        BY <2>0, <2>3 DEF IdsOf
      <4>. HIDE DEF d
      <4>2. Tiles(Ids(t) \cup {d}, Low(t), count[t] + d.n)
        BY <2>0, <4>1, TileAppended
      <4>. QED BY <4>2 DEF d
    <3>5. Low(t) <= count'[t]
      BY <2>0, <3>3 DEF IdsOf
    <3>. QED BY <3>2, <3>3, <3>4, <3>5 DEF IdsOf
  <2>4. CASE t # u
    <3>1. RankIds(t)' = RankIds(t)
      BY <2>2, <2>4 DEF RankIds
    <3>2. Ids(t)' = Ids(t) /\ count'[t] = count[t]
      BY <2>0, <2>1, <2>4, <3>1 DEF Ids
    <3>. QED BY <2>0, <3>2 DEF IdsOf
  <2>. QED BY <2>3, <2>4
<1>. QED BY <1>1 DEF IdInv, Rank

\* A write takes the reservation over to the wire.
LEMMA WritingIds ==
  ASSUME Types, IdInv, NEW r \in Rank, Return(r) \/ Flush(r), NEW u \in Rank, NEW m, m.to = u, wire' = wire \cup {m},
         notif' = notif, \A t \in Rank : (Pending(r, t) <=> t = u) /\ ~Pending(r, t)',
         WireId(m).at = RankId(r).at, WireId(m).n = RankId(r).n, count' = count,
         \A t \in Rank : Low(t)' = Low(t)
  PROVE  IdInv'
<1>1. ASSUME NEW t \in Rank PROVE IdsOf(t)'
  <2>0. Low(t) \in Nat /\ count[t] \in Nat /\ IdsOf(t)
    BY TypeFacts DEF Low, IdInv
  <2>1. NotifIds(t)' = NotifIds(t)
    BY DEF NotifIds, NotifId
  <2>2. \A o \in Rank \ {r} : (Pending(o, t)' <=> Pending(o, t)) /\ RankId(o)' = RankId(o)
    BY OtherPending
  <2>3. CASE t = u
    <3>1. RankIds(t)' = RankIds(t) \ {RankId(r)} /\ RankId(r) \in RankIds(t)
      BY <2>2, <2>3, IdsDiffer DEF RankIds
    <3>2. WireIds(t)' = WireIds(t) \cup {WireId(m)}
      BY <2>3 DEF WireIds
    <3>3. RankId(r) \notin WireIds(t) /\ RankId(r) \notin NotifIds(t)
      BY IdsDiffer DEF WireIds, NotifIds
    <3>4. Ids(t)' = (Ids(t) \ {RankId(r)}) \cup {WireId(m)} /\ RankId(r) \in Ids(t)
      BY <2>1, <3>1, <3>2, <3>3 DEF Ids
    <3>5. Tiles((Ids(t) \ {RankId(r)}) \cup {WireId(m)}, Low(t), count[t])
      <4>. DEFINE c == RankId(r)
                  d == WireId(m)
      <4>1. c \in Ids(t) /\ d.at = c.at /\ d.n = c.n /\ Tiles(Ids(t), Low(t), count[t])
        BY <2>0, <3>4 DEF IdsOf
      <4>. HIDE DEF c, d
      <4>2. Tiles((Ids(t) \ {c}) \cup {d}, Low(t), count[t])
        BY <2>0, <4>1, TileReplaced
      <4>. QED BY <4>2 DEF c, d
    <3>. QED BY <2>0, <3>4, <3>5 DEF IdsOf
  <2>4. CASE t # u
    <3>1. RankIds(t)' = RankIds(t)
      BY <2>2, <2>4 DEF RankIds
    <3>2. WireIds(t)' = WireIds(t)
      BY <2>4 DEF WireIds
    <3>3. Ids(t)' = Ids(t)
      BY <2>1, <3>1, <3>2 DEF Ids
    <3>. QED BY <2>0, <3>3 DEF IdsOf
  <2>. QED BY <2>3, <2>4
<1>. QED BY <1>1 DEF IdInv, Rank

\* A rank's own step leaves what the others have waited for, unless it reserves there.
LEMMA LowOfOthers ==
  ASSUME Types, NEW r \in Rank, Return(r) \/ Flush(r), NEW o \in Rank \ {r}
  PROVE  (Taken(o)' <=> Taken(o)) /\ index'[o] = index[o]
<1>1. pc'[o] = pc[o] /\ index'[o] = index[o]
  BY OtherRanks
<1>. QED BY <1>1 DEF Taken, Flushing

LEMMA IdNext ==
  ASSUME BaseInv, IdInv, NEW r \in Rank, Return(r) \/ Flush(r)
  PROVE  IdInv'
<1>. USE DEF Goto
<1>0. /\ Types /\ ControlOf(r) /\ SeenOf(r) /\ pc \in [Rank -> Step] /\ ret \in [Rank -> {"idle", "push_tmp", "alloc"}]
      /\ count \in [Rank -> 0 .. MaxElts] /\ index \in [Rank -> 0 .. MaxElts] /\ MaxElts \in Nat
      /\ notif \in [Rank -> [0 .. MaxElts - 1 -> 0 .. MaxElts]] /\ seen \in [Rank -> Reservation]
      /\ tmp \in [Rank -> problem \cup {NoBatch}] /\ problem \subseteq Batch
  BY TypeFacts DEF BaseInv, ControlInv, SeenInv
<1>1. \A o \in Rank : IdsOf(o) /\ Low(o) \in Nat /\ count[o] \in Nat
  BY <1>0 DEF IdInv, Low
<1>2. \A o \in Rank \ {r} : (Taken(o)' <=> Taken(o)) /\ index'[o] = index[o]
  BY <1>0, LowOfOthers
\* steps that leave the claims and their limits
<1>3. ASSUME \A t \in Rank : Ids(t)' = Ids(t), count' = count, index' = index, Taken(r)' <=> Taken(r)
      PROVE  IdInv'
  <2>1. ASSUME NEW t \in Rank PROVE IdsOf(t)'
    BY <1>1, <1>2, <1>3, <2>1 DEF IdsOf, Low
  <2>. QED BY <2>1 DEF IdInv, Rank
<1>4. ASSUME NEW b \in Batch, Compute(r, b) PROVE IdInv'
  <2>1. \A t \in Rank : Ids(t)' = Ids(t)
    BY <1>4, QuietSteps
  <2>. QED BY <1>3, <1>4, <2>1 DEF Compute, segmentVars, flushVars, Taken, Flushing
<1>5. CASE \/ ReturnResults(r) \/ PushTmpResults(r) \/ TryAlloc(r) \/ AllocFailed(r) \/ AllocUnlock(r) \/ SecondPass(r)
           \/ LockOwn(r) \/ SubmitOwn(r) \/ TryLockTarget(r) \/ Select(r) \/ UnlockTarget(r)
  <2>1. \A t \in Rank : Ids(t)' = Ids(t)
    BY <1>5, QuietSteps
  <2>2. count' = count /\ index' = index
    BY <1>5 DEF ReturnResults, PushTmpResults, TryAlloc, AllocFailed, AllocUnlock, SecondPass, LockOwn, SubmitOwn,
       TryLockTarget, Select, UnlockTarget, segmentVars, flushVars
  <2>3. Taken(r)' <=> Taken(r)
    <3>1. CASE ReturnResults(r) \/ PushTmpResults(r) \/ TryAlloc(r) \/ AllocFailed(r) \/ AllocUnlock(r) \/ SecondPass(r)
               \/ LockOwn(r)
      BY <1>0, <3>1 DEF ReturnResults, PushTmpResults, TryAlloc, AllocFailed, AllocUnlock, SecondPass, LockOwn,
         Taken, Flushing
    <3>2. CASE SubmitOwn(r) \/ TryLockTarget(r) \/ Select(r) \/ UnlockTarget(r)
      BY <1>0, <3>2 DEF SubmitOwn, TryLockTarget, Select, UnlockTarget, Taken, Flushing
    <3>. QED BY <1>5, <3>1, <3>2
  <2>. QED BY <1>3, <2>1, <2>2, <2>3
\* steps at which r has waited for all
<1>6. ASSUME Ids(r)' = Ids(r), \A o \in Rank \ {r} : Ids(o)' = Ids(o) /\ count'[o] = count[o],
             Low(r) >= count[r], Low(r)' = count'[r], count'[r] \in Nat
      PROVE  IdInv'
  <2>1. ASSUME NEW t \in Rank PROVE IdsOf(t)'
    <3>1. CASE t = r
      <4>1. \A x \in Nat : Tiles(Ids(r), x, x)
        BY <1>1, <1>6, NoTile DEF IdsOf
      <4>. QED BY <1>6, <3>1, <4>1 DEF IdsOf
    <3>2. CASE t # r
      BY <1>1, <1>2, <1>6, <3>2 DEF IdsOf, Low
    <3>. QED BY <3>1, <3>2
  <2>. QED BY <2>1 DEF IdInv, Rank
<1>7. CASE Aggregate(r)
  <2>1. \A t \in Rank : Ids(t)' = Ids(t)
    BY <1>7, QuietSteps
  <2>2. pc[r] = "wait" /\ pc'[r] = "push" /\ count' = count /\ index[r] >= count[r]
    BY <1>0, <1>7 DEF Aggregate, segmentVars
  <2>3. Low(r) = index[r] /\ Low(r)' = count'[r]
    BY <2>2 DEF Low, Taken, Flushing
  <2>. QED BY <1>1, <1>6, <2>1, <2>2, <2>3
<1>8. CASE Purge(r) \/ UnlockOwn(r)
  <2>1. \A t \in Rank : Ids(t)' = Ids(t)
    BY <1>8, QuietSteps
  <2>2. /\ pc[r] \in {"push", "unlock_own"} /\ index[r] = 0 /\ index' = index
        /\ count'[r] = 0 /\ \A o \in Rank \ {r} : count'[o] = count[o]
    <3>1. CASE Purge(r)
      BY <1>0, <3>1 DEF Purge, ControlOf, flushVars
    <3>2. CASE UnlockOwn(r)
      BY <1>0, <3>2 DEF UnlockOwn, SeenOf, ControlOf, segmentVars, flushVars
    <3>. QED BY <1>8, <3>1, <3>2
  <2>3. Low(r) = count[r] /\ Low(r)' = 0
    BY <2>2 DEF Low, Taken, Flushing
  <2>. QED BY <1>1, <1>6, <2>1, <2>2, <2>3
<1>9. CASE AllocReserve(r)
  <2>. DEFINE s == [head |-> head[r], count |-> count[r]]
  <2>1. pc[r] = "alloc_reserve" /\ wire' = wire /\ notif' = notif /\ index' = index /\ tmp' = tmp
    BY <1>9 DEF AllocReserve, flushVars, batchVars
  <2>2. CASE ~Fits({tmp[r]}, s)
    <3>1. pc'[r] = "alloc_full" /\ count' = count
      BY <1>0, <1>9, <2>2 DEF AllocReserve
    <3>2. \A u \in Rank : ~Pending(r, u) /\ ~Pending(r, u)'
      BY <2>1, <3>1 DEF Pending
    <3>3. \A t \in Rank : Ids(t)' = Ids(t)
      BY <1>0, <2>1, <3>2, SameIds
    <3>4. Taken(r)' <=> Taken(r)
      BY <2>1, <3>1 DEF Taken, Flushing
    <3>. QED BY <1>3, <2>1, <3>1, <3>3, <3>4
  <2>3. CASE Fits({tmp[r]}, s)
    <3>1. pc'[r] = "alloc_unlock" /\ seen'[r] = s /\ count' = [count EXCEPT ![r] = count[r] + 1]
      BY <1>0, <1>9, <2>3 DEF AllocReserve
    <3>2. \A u \in Rank : ~Pending(r, u) /\ (Pending(r, u)' <=> u = r)
      BY <2>1, <3>1 DEF Pending
    <3>3. tmp[r] \in Batch
      BY <1>0, <2>1 DEF ControlOf, Allocating
    <3>4. RankId(r)'.at = count[r] /\ RankId(r)'.n = 1
      <4>1. PendingBatches(r)' = {tmp[r]}
        BY <2>1, <3>1 DEF PendingBatches
      <4>2. Cardinality({tmp[r]}) = 1
        BY <3>3, SizeOfOne
      <4>3. seen'[r].count = count[r]
        BY <3>1
      <4>. QED BY <4>1, <4>2, <4>3 DEF RankId
    <3>5. \A t \in Rank : Low(t)' = Low(t)
      <4>1. ~Taken(r) /\ ~Taken(r)'
        BY <2>1, <3>1 DEF Taken, Flushing
      <4>2. \A o \in Rank \ {r} : count'[o] = count[o]
        BY <1>0, <3>1
      <4>. QED BY <1>2, <2>1, <4>1, <4>2 DEF Low
    <3>6. RankId(r)'.n \in Nat \ {0} /\ count' = [count EXCEPT ![r] = count[r] + RankId(r)'.n]
      BY <3>1, <3>4
    <3>. QED BY <1>0, <2>1, <3>2, <3>4, <3>5, <3>6, ReservingIds
  <2>. QED BY <2>2, <2>3
<1>10. CASE Reserve(r)
  <2>. DEFINE u == Target(r)
              S == selected[r]
  <2>1. /\ pc[r] = "reserve" /\ pc'[r] = "unlock_target" /\ wire' = wire /\ notif' = notif
        /\ UNCHANGED <<index, hops, seen, selected>> /\ count' = [count EXCEPT ![u] = count[u] + Cardinality(S)]
    BY <1>0, <1>10 DEF Reserve, flushVars, pushVars
  <2>2. u \in Rank /\ u # r
    BY <1>0, <2>1, TargetType DEF ControlOf, Serving
  <2>3. Taken(r) /\ Taken(r)' /\ count'[r] = count[r]
    BY <1>0, <2>1, <2>2 DEF Taken, Flushing
  <2>4. S \in SUBSET Batch /\ Cardinality(S) \in Nat /\ Cardinality({}) = 0 /\ IsFiniteSet(S)
    BY <1>0, TypeFacts, SizeType, SizeOfNone
  <2>5. Target(r)' = u /\ selected'[r] = S /\ seen'[r] = seen[r]
    BY <2>1 DEF Target
  <2>6. CASE S = {}
    <3>1. \A t \in Rank : ~Pending(r, t) /\ ~Pending(r, t)'
      BY <2>1, <2>5, <2>6 DEF Pending
    <3>2. count' = count
      BY <1>0, <2>1, <2>2, <2>4, <2>6
    <3>3. \A t \in Rank : Ids(t)' = Ids(t)
      BY <1>0, <2>1, <3>1, SameIds
    <3>. QED BY <1>3, <2>1, <2>3, <3>2, <3>3
  <2>7. CASE S # {}
    <3>1. \A t \in Rank : ~Pending(r, t) /\ (Pending(r, t)' <=> t = u)
      BY <2>1, <2>5, <2>7 DEF Pending
    <3>2. RankId(r)'.at = count[u] /\ RankId(r)'.n = Cardinality(S)
      <4>1. seen[r].count = count[u]
        BY <1>0, <2>1 DEF SeenOf
      <4>. QED BY <2>1, <2>5, <4>1 DEF RankId, PendingBatches
    <3>3. Cardinality(S) \in Nat \ {0}
      BY <2>4, <2>7, FS_EmptySet
    <3>4. \A t \in Rank : Low(t)' = Low(t)
      <4>1. ~Taken(u)
        <5>1. state[u] = r /\ r # COPY_IN_PROGRESS
          BY <2>1, <2>2 DEF BaseInv, LockInv, LockOf, Locking, Rank, COPY_IN_PROGRESS
        <5>. QED BY <2>2, <5>1 DEF BaseInv, LockInv, LockOf, Taken
      <4>2. \A o \in Rank \ {u} : count'[o] = count[o]
        BY <1>0, <2>1
      <4>. QED BY <1>2, <2>1, <2>2, <2>3, <4>1, <4>2 DEF Low
    <3>. QED BY <1>0, <2>1, <2>2, <3>1, <3>2, <3>3, <3>4, ReservingIds
  <2>. QED BY <2>6, <2>7
<1>11. CASE AllocWrite(r)
  <2>. DEFINE m == [Message(r, {tmp[r]}, seen[r]) EXCEPT !.arrived = TRUE]
  <2>1. /\ pc[r] = "alloc_write" /\ pc'[r] = "second_pass" /\ wire' = wire \cup {m} /\ notif' = notif
        /\ count' = count /\ index' = index
    BY <1>0, <1>11 DEF AllocWrite, flushVars
  <2>2. m = [to |-> r, batches |-> {tmp[r]}, at |-> seen[r].head, id |-> seen[r].count, arrived |-> TRUE]
    BY ArrivedMessage
  <2>. HIDE DEF m
  <2>3. m.to = r /\ WireId(m).at = RankId(r).at /\ WireId(m).n = RankId(r).n
    BY <2>1, <2>2 DEF WireId, RankId, PendingBatches
  <2>4. \A t \in Rank : (Pending(r, t) <=> t = r) /\ ~Pending(r, t)'
    BY <2>1 DEF Pending
  <2>5. \A t \in Rank : Low(t)' = Low(t)
    BY <1>2, <2>1 DEF Low, Taken, Flushing
  <2>. QED BY <1>0, <2>1, <2>3, <2>4, <2>5, WritingIds
<1>12. CASE Write(r)
  <2>. DEFINE u == Target(r)
              S == selected[r]
              m == Message(u, S, seen[r])
  <2>1. /\ pc[r] = "write" /\ pc'[r] = "push" /\ notif' = notif /\ count' = count /\ index' = index
        /\ (S = {} => wire' = wire) /\ (S # {} => wire' = wire \cup {m})
    BY <1>0, <1>12 DEF Write, segmentVars
  <2>2. u \in Rank
    BY <1>0, <2>1, TargetType DEF ControlOf, Serving
  <2>3. Taken(r)' <=> Taken(r)
    BY <2>1 DEF Taken, Flushing
  <2>4. CASE S = {}
    <3>1. \A t \in Rank : ~Pending(r, t) /\ ~Pending(r, t)'
      BY <2>1, <2>4 DEF Pending
    <3>2. \A t \in Rank : Ids(t)' = Ids(t)
      BY <1>0, <2>1, <2>4, <3>1, SameIds
    <3>. QED BY <1>3, <2>1, <2>3, <3>2
  <2>5. CASE S # {}
    <3>1. \A t \in Rank : (Pending(r, t) <=> t = u) /\ ~Pending(r, t)'
      BY <2>1, <2>5 DEF Pending
    <3>2. m.to = u /\ WireId(m).at = RankId(r).at /\ WireId(m).n = RankId(r).n
      BY <2>1 DEF WireId, RankId, PendingBatches, Message
    <3>3. \A t \in Rank : Low(t)' = Low(t)
      BY <1>2, <2>1, <2>3 DEF Low
    <3>4. wire' = wire \cup {m}
      BY <2>1, <2>5
    <3>. HIDE DEF m
    <3>. QED BY <1>0, <2>1, <2>2, <3>1, <3>2, <3>3, <3>4, WritingIds
  <2>. QED BY <2>4, <2>5
<1>13. CASE WaitNotification(r)
  <2>. DEFINE i == index[r]
              c == NotifId(r, i)
  <2>1. /\ pc[r] = "wait" /\ pc' = pc /\ i < count[r] /\ notif[r][i] # 0 /\ wire' = wire /\ count' = count
        /\ index' = [index EXCEPT ![r] = i + notif[r][i]] /\ notif' = [notif EXCEPT ![r][i] = 0]
        /\ UNCHANGED <<hops, seen, selected, tmp>>
    BY <1>13 DEF WaitNotification, segmentVars, pushVars, batchVars
  <2>2. i \in 0 .. MaxElts - 1 /\ i \in Nat
    BY <1>0, <2>1
  <2>3. \A t \in Rank : WireIds(t)' = WireIds(t) /\ RankIds(t)' = RankIds(t)
    BY <2>1 DEF WireIds, WireId, RankIds, RankId, Pending, PendingBatches, Target
  <2>4. NotifIds(r)' = NotifIds(r) \ {c} /\ c \in NotifIds(r)
    <3>1. \A j \in 0 .. MaxElts - 1 : notif'[r][j] = IF j = i THEN 0 ELSE notif[r][j]
      BY <1>0, <2>1, <2>2
    <3>2. \A j \in (0 .. MaxElts - 1) \ {i} : NotifId(r, j)' = NotifId(r, j)
      BY <3>1 DEF NotifId
    <3>. QED BY <2>1, <2>2, <3>1, <3>2, IdsDiffer DEF NotifIds
  <2>5. Ids(r)' = Ids(r) \ {c} /\ c \in Ids(r)
    <3>1. c \notin WireIds(r) /\ c \notin RankIds(r)
      BY IdsDiffer DEF WireIds, RankIds
    <3>. QED BY <2>3, <2>4, <3>1 DEF Ids
  <2>6. ~Taken(r) /\ ~Taken(r)' /\ Low(r) = i
    BY <2>1 DEF Taken, Low
  <2>7. c.at = i /\ c.n = notif[r][i]
    BY DEF NotifId
  <2>. HIDE DEF c
  <2>8. i + c.n <= count[r] /\ Tiles(Ids(r) \ {c}, i + c.n, count[r])
    BY <1>1, <2>2, <2>5, <2>6, <2>7, TileServed DEF IdsOf
  <2>9. IdsOf(r)'
    <3>1. Low(r)' = i + c.n /\ count'[r] = count[r]
      BY <1>0, <2>1, <2>6, <2>7 DEF Low
    <3>. QED BY <2>5, <2>8, <3>1 DEF IdsOf
  <2>10. ASSUME NEW o \in Rank \ {r} PROVE IdsOf(o)'
    <3>1. notif'[o] = notif[o] /\ count'[o] = count[o]
      BY <1>0, <2>1
    <3>2. NotifIds(o)' = NotifIds(o)
      BY <3>1 DEF NotifIds, NotifId
    <3>3. Ids(o)' = Ids(o) /\ Low(o)' = Low(o)
      BY <1>2, <2>3, <3>1, <3>2 DEF Ids, Low
    <3>. QED BY <1>1, <3>1, <3>3 DEF IdsOf
  <2>. QED BY <2>9, <2>10 DEF IdInv, Rank
<1>. QED BY <1>4, <1>5, <1>7, <1>8, <1>9, <1>10, <1>11, <1>12, <1>13 DEF Return, Flush

LEMMA RankTypesNext ==
  ASSUME BaseInv, IdInv, NEW r \in Rank, Return(r) \/ Flush(r)
  PROVE  RankTypes'
<1>. USE DEF Goto
<1>0. RankTypes /\ Types /\ BatchTypes /\ SegmentTypes /\ MaxElts \in Nat \ {0} /\ SegmentSize \in Nat \ {0}
  BY TypesInGroups, TypeFacts DEF BaseInv
<1>1. pc' \in [Rank -> Step]
  <2>1. ASSUME NEW b \in Batch, Compute(r, b) PROVE pc' = pc
    BY <2>1 DEF Compute
  <2>2. CASE ReturnResults(r) \/ PushTmpResults(r) \/ TryAlloc(r) \/ AllocFailed(r) \/ AllocReserve(r) \/ AllocUnlock(r)
             \/ AllocWrite(r) \/ SecondPass(r) \/ LockOwn(r) \/ WaitNotification(r)
    <3>1. \E s \in Step : pc' = [pc EXCEPT ![r] = s] \/ pc' = pc
      BY <2>2 DEF ReturnResults, PushTmpResults, TryAlloc, AllocFailed, AllocReserve, AllocUnlock, AllocWrite, SecondPass,
         LockOwn, WaitNotification, Step
    <3>. QED BY <1>0, <3>1 DEF RankTypes
  <2>3. CASE Aggregate(r) \/ SubmitOwn(r) \/ TryLockTarget(r) \/ Select(r) \/ Reserve(r) \/ UnlockTarget(r) \/ Write(r)
             \/ Purge(r)
    <3>1. \E s \in Step : pc' = [pc EXCEPT ![r] = s] \/ pc' = pc
      BY <2>3 DEF Aggregate, SubmitOwn, TryLockTarget, Select, Reserve, UnlockTarget, Write, Purge, Step
    <3>. QED BY <1>0, <3>1 DEF RankTypes
  <2>4. CASE UnlockOwn(r)
    <3>1. ret[r] \in Step
      BY <1>0 DEF RankTypes, Step
    <3>. QED BY <1>0, <2>4, <3>1 DEF UnlockOwn, RankTypes
  <2>. QED BY <1>0, <2>1, <2>2, <2>3, <2>4 DEF Return, Flush, RankTypes
<1>2. ret' \in [Rank -> {"idle", "push_tmp", "alloc"}]
  <2>1. ASSUME NEW b \in Batch, Compute(r, b) PROVE ret' = ret
    BY <2>1 DEF Compute
  <2>2. ret' = ret \/ \E s \in {"idle", "push_tmp", "alloc"} : ret' = [ret EXCEPT ![r] = s]
    BY <2>1 DEF Return, Flush, ReturnResults, PushTmpResults, TryAlloc, AllocFailed, AllocReserve, AllocUnlock, AllocWrite,
       SecondPass, LockOwn, WaitNotification, Aggregate, SubmitOwn, TryLockTarget, Select, Reserve, UnlockTarget, Write,
       Purge, UnlockOwn
  <2>. QED BY <1>0, <2>2 DEF RankTypes
<1>3. index' \in [Rank -> 0 .. MaxElts]
  <2>1. ASSUME NEW b \in Batch, Compute(r, b) PROVE index' = index
    BY <2>1 DEF Compute, flushVars
  <2>2. CASE WaitNotification(r)
    <3>. DEFINE i == index[r]
                c == NotifId(r, i)
    <3>1. /\ pc[r] = "wait" /\ i < count[r] /\ notif[r][i] # 0
          /\ index' = [index EXCEPT ![r] = i + notif[r][i]]
      BY <2>2 DEF WaitNotification
    <3>2. i \in 0 .. MaxElts - 1 /\ i \in Nat /\ count[r] \in 0 .. MaxElts /\ notif[r][i] \in Nat
      BY <1>0, <3>1 DEF RankTypes, SegmentTypes
    <3>3. c \in Ids(r) /\ c.at = i /\ c.n = notif[r][i]
      BY <3>1, <3>2 DEF Ids, NotifIds, NotifId
    <3>4. Low(r) = i /\ Tiles(Ids(r), i, count[r])
      BY <3>1 DEF IdInv, IdsOf, Low, Taken
    <3>5. i + notif[r][i] <= count[r]
      BY <3>3, <3>4 DEF Tiles
    <3>. QED BY <1>0, <3>1, <3>2, <3>5 DEF RankTypes
  <2>3. CASE Aggregate(r)
    BY <1>0, <2>3 DEF Aggregate, RankTypes
  <2>4. CASE ~WaitNotification(r) /\ ~Aggregate(r)
    <3>1. index' = index
      BY <2>1, <2>4 DEF Return, Flush, ReturnResults, PushTmpResults, TryAlloc, AllocFailed, AllocReserve, AllocUnlock,
         AllocWrite, SecondPass, LockOwn, SubmitOwn, TryLockTarget, Select, Reserve, UnlockTarget, Write, Purge,
         UnlockOwn, flushVars
    <3>. QED BY <1>0, <3>1 DEF RankTypes
  <2>. QED BY <2>2, <2>3, <2>4
<1>4. hops' \in [Rank -> SUBSET Rank]
  <2>1. ASSUME NEW b \in Batch, Compute(r, b) PROVE hops' = hops
    BY <2>1 DEF Compute, flushVars
  <2>2. CASE Aggregate(r)
    <3>1. local'[r] \subseteq problem /\ problem \subseteq Batch
      BY <1>0, BatchTypesNext, SameProblem DEF BatchTypes
    <3>2. \A b \in local'[r] : Hop(r, b) \in Rank
      <4>1. \A b \in Batch : Hop(r, b) \in Rank
        BY BatchAssumption, RouteAssumption DEF Hop
      <4>. QED BY <3>1, <4>1
    <3>3. hops' = [hops EXCEPT ![r] = {Hop(r, b) : b \in local'[r]}]
      BY <1>0, <2>2 DEF Aggregate, BatchTypes
    <3>. QED BY <1>0, <3>2, <3>3 DEF RankTypes
  <2>3. CASE ~Aggregate(r)
    <3>1. hops' = hops \/ \E H \in SUBSET hops[r] : hops' = [hops EXCEPT ![r] = H]
      BY <2>1, <2>3 DEF Return, Flush, ReturnResults, PushTmpResults, TryAlloc, AllocFailed, AllocReserve, AllocUnlock,
         AllocWrite, SecondPass, LockOwn, WaitNotification, SubmitOwn, TryLockTarget, Select, Reserve, UnlockTarget,
         Write, Purge, UnlockOwn, flushVars, Served
    <3>. QED BY <1>0, <3>1 DEF RankTypes
  <2>. QED BY <2>2, <2>3
<1>5. seen' \in [Rank -> Reservation]
  <2>1. ASSUME NEW b \in Batch, Compute(r, b) PROVE seen' = seen
    BY <2>1 DEF Compute, pushVars
  <2>2. \A t \in Rank : [head |-> head[t], count |-> count[t]] \in Reservation
    BY <1>0 DEF SegmentTypes, Reservation
  <2>3. [head |-> 0, count |-> 0] \in Reservation
    BY <1>0 DEF Reservation
  <2>4. Select(r) => Target(r) \in Rank
    BY <1>0, TargetType DEF Select, BaseInv, ControlInv, ControlOf, Serving
  <2>5. CASE AllocReserve(r) \/ Select(r)
    <3>1. seen' = seen \/ \E s \in Reservation : seen' = [seen EXCEPT ![r] = s]
      BY <2>2, <2>4, <2>5 DEF AllocReserve, Select
    <3>. QED BY <1>0, <3>1 DEF RankTypes
  <2>6. CASE AllocWrite(r) \/ Write(r)
    BY <1>0, <2>3, <2>6 DEF AllocWrite, Write, Unseen, RankTypes
  <2>7. CASE ~AllocReserve(r) /\ ~Select(r) /\ ~AllocWrite(r) /\ ~Write(r)
    <3>1. seen' = seen
      BY <2>1, <2>7 DEF Return, Flush, ReturnResults, PushTmpResults, TryAlloc, AllocFailed, AllocUnlock, SecondPass,
         LockOwn, WaitNotification, Aggregate, SubmitOwn, TryLockTarget, Reserve, UnlockTarget, Purge, UnlockOwn, pushVars
    <3>. QED BY <1>0, <3>1 DEF RankTypes
  <2>. QED BY <2>5, <2>6, <2>7
<1>. QED BY <1>1, <1>2, <1>3, <1>4, <1>5 DEF RankTypes

\* The steps of the network.
LEMMA DeliverNext ==
  ASSUME BaseInv, IdInv, Deliver
  PROVE  BaseInv' /\ IdInv'
<1>0. /\ Types /\ BatchTypes /\ SegmentTypes /\ RankTypes /\ WireTypes /\ MaxElts \in Nat \ {0}
  BY TypesInGroups, TypeFacts DEF BaseInv
<1>1. /\ UNCHANGED <<problem, pc, ret, todo, tmp, state, head, count, local, onSegment, index, hops, seen, selected, submitted>>
  BY DEF Deliver, DataArrive, NotificationArrives, batchVars, flushVars, pushVars, segmentVars
<1>2. ControlInv' /\ LockInv' /\ SeenInv'
  BY <1>1 DEF BaseInv, ControlInv, ControlOf, LockInv, LockOf, SeenInv, SeenOf, Target, Flushing, Locking, LocalFor, Hop, Fits
<1>3. BatchTypes' /\ RankTypes'
  BY <1>0, <1>1 DEF BatchTypes, RankTypes
<1>4. \A t \in Rank : RankIds(t)' = RankIds(t) /\ Low(t)' = Low(t)
  BY <1>1 DEF RankIds, RankId, Pending, PendingBatches, Target, Low, Taken, Flushing
<1>5. PICK m \in wire : DataArrive(m) \/ NotificationArrives(m)
  BY DEF Deliver
<1>6. m \in MessageType /\ WireType(m) /\ m.to \in Rank /\ m.id \in 0 .. MaxElts - 1
  BY <1>0, <1>5 DEF WireTypes, MessageType
<1>7. \A t \in Rank : IdsOf(t) /\ Low(t) \in Nat /\ count[t] \in Nat
  BY <1>0 DEF IdInv, Low, SegmentTypes, RankTypes
<1>8. CASE DataArrive(m)
  <2>. DEFINE n == [m EXCEPT !.arrived = TRUE]
  <2>1. /\ wire' = (wire \ {m}) \cup {n} /\ notif' = notif
        /\ mem' = [mem EXCEPT ![m.to] = Written(mem[m.to], m.batches, m.at)]
    BY <1>8 DEF DataArrive
  <2>2. n \in MessageType /\ n.to = m.to /\ n.batches = m.batches /\ n.at = m.at /\ n.id = m.id
    BY <1>6 DEF MessageType
  <2>. HIDE DEF n
  <2>3. WireTypes'
    <3>1. WireType(n)
      BY <1>6, <2>2 DEF WireType
    <3>. QED BY <1>0, <1>1, <2>1, <2>2, <3>1 DEF WireTypes, WireType
  <2>4. SegmentTypes'
    <3>1. Written(mem[m.to], m.batches, m.at) \in [0 .. SegmentSize - 1 -> problem \cup {Free}]
      BY <1>0, <1>6, WrittenType DEF SegmentTypes, WireType
    <3>. QED BY <1>0, <1>1, <2>1, <3>1 DEF SegmentTypes
  <2>5. ASSUME NEW t \in Rank PROVE IdsOf(t)'
    <3>1. NotifIds(t)' = NotifIds(t)
      BY <2>1 DEF NotifIds, NotifId
    <3>2. CASE t = m.to
      <4>. DEFINE c == WireId(m)
                  d == WireId(n)
      <4>1. d.at = c.at /\ d.n = c.n
        BY <2>2 DEF WireId
      <4>2. WireIds(t)' = (WireIds(t) \ {c}) \cup {d} /\ c \in WireIds(t)
        BY <1>5, <2>1, <2>2, <3>2, IdsDiffer DEF WireIds
      <4>3. c \notin RankIds(t) /\ c \notin NotifIds(t)
        BY IdsDiffer DEF RankIds, NotifIds
      <4>4. Ids(t)' = (Ids(t) \ {c}) \cup {d} /\ c \in Ids(t)
        BY <1>4, <3>1, <4>2, <4>3 DEF Ids
      <4>. HIDE DEF c, d
      <4>5. Tiles((Ids(t) \ {c}) \cup {d}, Low(t), count[t])
        BY <1>7, <4>1, <4>4, TileReplaced DEF IdsOf
      <4>. QED BY <1>1, <1>4, <1>7, <4>4, <4>5 DEF IdsOf
    <3>3. CASE t # m.to
      <4>1. WireIds(t)' = WireIds(t)
        BY <2>1, <2>2, <3>3 DEF WireIds
      <4>2. Ids(t)' = Ids(t)
        BY <1>4, <3>1, <4>1 DEF Ids
      <4>. QED BY <1>1, <1>4, <1>7, <4>2 DEF IdsOf
    <3>. QED BY <3>2, <3>3
  <2>6. BaseInv'
    <3>1. Types'
      BY <1>3, <2>3, <2>4, TypesInGroups, PTL
    <3>. QED BY <1>2, <3>1 DEF BaseInv
  <2>. QED BY <2>5, <2>6 DEF IdInv, Rank
<1>9. CASE NotificationArrives(m)
  <2>. DEFINE k == Cardinality(m.batches)
  <2>1. wire' = wire \ {m} /\ mem' = mem /\ notif' = [notif EXCEPT ![m.to][m.id] = k]
    BY <1>9 DEF NotificationArrives, segmentVars
  <2>2. k \in 1 .. MaxElts
    <3>1. m.batches \in SUBSET Batch /\ m.batches # {} /\ m.id + k <= MaxElts
      BY <1>0, <1>6 DEF WireType, BatchTypes
    <3>2. k \in Nat /\ k # 0
      BY <3>1, SizeType, FS_EmptySet
    <3>. QED BY <1>0, <1>6, <3>1, <3>2
  <2>3. WireTypes'
    BY <1>0, <1>1, <2>1 DEF WireTypes, WireType
  <2>4. SegmentTypes'
    <3>1. [notif[m.to] EXCEPT ![m.id] = k] \in [0 .. MaxElts - 1 -> 0 .. MaxElts]
      BY <1>0, <1>6, <2>2 DEF SegmentTypes
    <3>2. notif' \in [Rank -> [0 .. MaxElts - 1 -> 0 .. MaxElts]]
      BY <1>0, <2>1, <3>1 DEF SegmentTypes
    <3>. QED BY <1>0, <1>1, <2>1, <3>2 DEF SegmentTypes
  <2>5. ASSUME NEW t \in Rank PROVE IdsOf(t)'
    <3>1. CASE t = m.to
      <4>. DEFINE c == WireId(m)
                  d == NotifId(t, m.id)'
                  e == NotifId(t, m.id)
      <4>1. /\ \A i \in (0 .. MaxElts - 1) \ {m.id} : notif'[t][i] = notif[t][i]
            /\ notif'[t][m.id] = k
        BY <1>0, <1>6, <2>1, <3>1 DEF SegmentTypes
      <4>2. c.at = m.id /\ c.n = k /\ d.at = m.id /\ d.n = k
        BY <4>1 DEF WireId, NotifId
      <4>3. WireIds(t)' = WireIds(t) \ {c} /\ c \in WireIds(t)
        BY <1>5, <2>1, <3>1, IdsDiffer DEF WireIds
      <4>4. c \notin RankIds(t) /\ c \notin NotifIds(t)
        BY IdsDiffer DEF RankIds, NotifIds
      <4>5. c \in Ids(t) /\ Tiles(Ids(t), Low(t), count[t])
        BY <1>7, <4>3 DEF Ids, IdsOf
      <4>6. notif[t][m.id] = 0
        <5>1. SUFFICES ASSUME notif[t][m.id] # 0 PROVE FALSE
          OBVIOUS
        <5>2. e \in Ids(t) /\ e # c
          BY <1>6, <5>1, IdsDiffer DEF Ids, NotifIds
        <5>3. e.at = m.id /\ e.n \in Nat \ {0}
          BY <4>5, <5>2 DEF Tiles, NotifId
        <5>4. c.at + c.n <= e.at \/ e.at + e.n <= c.at
          BY <4>5, <5>2 DEF Tiles
        <5>. QED BY <1>6, <2>2, <4>2, <5>3, <5>4
      <4>7. NotifIds(t)' = NotifIds(t) \cup {d}
        <5>1. \A i \in (0 .. MaxElts - 1) \ {m.id} : NotifId(t, i)' = NotifId(t, i)
          BY <4>1 DEF NotifId
        <5>2. k # 0
          BY <2>2
        <5>. QED BY <1>6, <4>1, <4>6, <5>1, <5>2 DEF NotifIds
      <4>8. Ids(t)' = (Ids(t) \ {c}) \cup {d}
        BY <1>4, <4>3, <4>4, <4>7 DEF Ids
      <4>. HIDE DEF c, d
      <4>9. Tiles((Ids(t) \ {c}) \cup {d}, Low(t), count[t])
        BY <1>7, <4>2, <4>5, TileReplaced
      <4>. QED BY <1>1, <1>4, <1>7, <4>8, <4>9 DEF IdsOf
    <3>2. CASE t # m.to
      <4>1. WireIds(t)' = WireIds(t)
        BY <2>1, <3>2 DEF WireIds
      <4>2. notif'[t] = notif[t]
        BY <1>0, <2>1, <3>2 DEF SegmentTypes
      <4>3. NotifIds(t)' = NotifIds(t)
        BY <4>2 DEF NotifIds, NotifId
      <4>4. Ids(t)' = Ids(t)
        BY <1>4, <4>1, <4>3 DEF Ids
      <4>. QED BY <1>1, <1>4, <1>7, <4>4 DEF IdsOf
    <3>. QED BY <3>1, <3>2
  <2>6. BaseInv'
    <3>1. Types'
      BY <1>3, <2>3, <2>4, TypesInGroups, PTL
    <3>. QED BY <1>2, <3>1 DEF BaseInv
  <2>. QED BY <2>5, <2>6 DEF IdInv, Rank
<1>. QED BY <1>5, <1>8, <1>9

-----------------------------------------------------------------------------
(* The invariant, and what it says of types and notifications *)

LEMMA IdInit == Init => IdInv
<1>. SUFFICES ASSUME Init, NEW t \in Rank PROVE IdsOf(t)
  BY DEF IdInv
<1>1. WireIds(t) = {} /\ NotifIds(t) = {} /\ RankIds(t) = {}
  <2>1. \A i \in 0 .. MaxElts - 1 : notif[t][i] = 0
    BY DEF Init
  <2>2. \A r \in Rank : ~Pending(r, t)
    BY DEF Init, Pending
  <2>. QED BY <2>1, <2>2 DEF Init, WireIds, NotifIds, RankIds
<1>2. Low(t) = 0 /\ count[t] = 0
  BY DEF Init, Low, Taken, Flushing
<1>. QED BY <1>1, <1>2 DEF IdsOf, Ids, Tiles

LEMMA BaseNext == BaseInv /\ IdInv /\ [Next]_vars => BaseInv' /\ IdInv'
<1>. SUFFICES ASSUME BaseInv, IdInv, [Next]_vars PROVE BaseInv' /\ IdInv'
  OBVIOUS
<1>1. ASSUME NEW r \in Rank, Return(r) \/ Flush(r) PROVE BaseInv' /\ IdInv'
  <2>1. BatchTypes' /\ SegmentTypes' /\ RankTypes' /\ WireTypes'
    BY <1>1, BatchTypesNext, SegmentTypesNext, RankTypesNext, WireTypesNext
  <2>2. Types'
    BY <2>1, TypesInGroups, PTL
  <2>3. ControlInv' /\ LockInv' /\ SeenInv' /\ IdInv'
    BY <1>1, ControlNext, LockNext, SeenNext, IdNext
  <2>. QED BY <2>2, <2>3 DEF BaseInv
<1>2. CASE UNCHANGED vars
  <2>. USE <1>2 DEF vars
  <2>1. Types'
    BY DEF BaseInv, Types, TypeOK, WireType
  <2>2. ControlInv' /\ LockInv'
    BY DEF BaseInv, ControlInv, ControlOf, LockInv, LockOf, Target, Flushing, Locking
  <2>3. SeenInv'
    BY DEF BaseInv, SeenInv, SeenOf, Target, LocalFor, Hop, Fits
  <2>4. IdInv'
    <3>1. \A r, t : (Pending(r, t)' <=> Pending(r, t)) /\ PendingBatches(r)' = PendingBatches(r)
      BY DEF Pending, PendingBatches, Target
    <3>2. ASSUME NEW t \in Rank PROVE IdsOf(t)'
      <4>1. RankIds(t)' = RankIds(t)
        BY <3>1 DEF RankIds, RankId
      <4>2. WireIds(t)' = WireIds(t) /\ NotifIds(t)' = NotifIds(t)
        BY DEF WireIds, NotifIds, WireId, NotifId
      <4>3. Ids(t)' = Ids(t) /\ Low(t)' = Low(t)
        BY <4>1, <4>2 DEF Ids, Low, Taken, Flushing
      <4>. QED BY <4>3 DEF IdInv, IdsOf
    <3>. QED BY <3>2 DEF IdInv, Rank
  <2>. QED BY <2>1, <2>2, <2>3, <2>4 DEF BaseInv
<1>. QED BY <1>1, <1>2, DeliverNext DEF Next, Stop

LEMMA BaseInvariant == Spec => [](BaseInv /\ IdInv)
<1>1. Init => BaseInv /\ IdInv
  BY BaseInit, IdInit
<1>. QED BY <1>1, BaseNext, PTL DEF Spec

\* The room that is reserved on a result segment never reaches its end, nor the number of elements
\* MAX_BUFFER_ELTS, whoever reserves it (TypeOK).
THEOREM TypeCorrect == Spec => []TypeOK
<1>1. BaseInv => TypeOK
  BY DEF BaseInv, Types
<1>. QED BY <1>1, BaseInvariant, PTL

\* What is claimed under an id is what is expected or notified there.
LEMMA ClaimsAreKnown ==
  ASSUME NEW t \in Rank
  PROVE  /\ \A c \in Ids(t) : Expected(t, c.at) \/ (c.at \in 0 .. MaxElts - 1 /\ notif[t][c.at] # 0)
         /\ \A i : Expected(t, i) => \E c \in Ids(t) : c.at = i
         /\ \A i \in 0 .. MaxElts - 1 : notif[t][i] # 0 => \E c \in Ids(t) : c.at = i
<1>1. ASSUME NEW c \in WireIds(t) PROVE Expected(t, c.at)
  BY DEF WireIds, WireId, Expected
<1>2. ASSUME NEW c \in RankIds(t) PROVE Expected(t, c.at)
  <2>1. PICK r \in Rank : Pending(r, t) /\ c = RankId(r)
    BY DEF RankIds
  <2>2. c.at = seen[r].count
    BY <2>1 DEF RankId
  <2>. QED BY <2>1, <2>2 DEF Pending, Expected
<1>3. ASSUME NEW c \in NotifIds(t) PROVE c.at \in 0 .. MaxElts - 1 /\ notif[t][c.at] # 0
  BY DEF NotifIds, NotifId
<1>4. ASSUME NEW i, Expected(t, i) PROVE \E c \in Ids(t) : c.at = i
  <2>1. ASSUME NEW m \in wire, m.to = t, m.id = i PROVE \E c \in Ids(t) : c.at = i
    <3>1. WireId(m) \in Ids(t) /\ WireId(m).at = i
      BY <2>1 DEF Ids, WireIds, WireId
    <3>. QED BY <3>1
  <2>2. ASSUME NEW r \in Rank, seen[r].count = i, Pending(r, t) PROVE \E c \in Ids(t) : c.at = i
    <3>1. RankId(r) \in Ids(t) /\ RankId(r).at = i
      BY <2>2 DEF Ids, RankIds, RankId
    <3>. QED BY <3>1
  <2>. QED BY <1>4, <2>1, <2>2 DEF Expected, Pending
<1>5. ASSUME NEW i \in 0 .. MaxElts - 1, notif[t][i] # 0 PROVE \E c \in Ids(t) : c.at = i
  <2>1. NotifId(t, i) \in Ids(t) /\ NotifId(t, i).at = i
    BY <1>5 DEF Ids, NotifIds, NotifId
  <2>. QED BY <2>1
<1>. QED BY <1>1, <1>2, <1>3, <1>4, <1>5 DEF Ids

\* The flush waits under the ids that are notified, once each, and purges only when none is left
\* that could be mistaken for one of the next filling (NotificationsMatch).
THEOREM NotificationsAreMatched == Spec => []NotificationsMatch
<1>1. ASSUME BaseInv, IdInv PROVE NotificationsMatch
  <2>. SUFFICES ASSUME NEW r \in Rank
                PROVE  /\ pc[r] = "wait" /\ index[r] < count[r] => notif[r][index[r]] # 0 \/ Expected(r, index[r])
                       /\ Taken(r) => \A i \in DOMAIN notif[r] : notif[r][i] = 0 /\ ~ Expected(r, i)
                       /\ \A i \in DOMAIN notif[r] : i >= count[r] => notif[r][i] = 0
    BY DEF NotificationsMatch
  <2>0. /\ DOMAIN notif[r] = 0 .. MaxElts - 1 /\ MaxElts \in Nat /\ count[r] \in Nat /\ index[r] \in Nat
        /\ Low(r) \in Nat /\ Tiles(Ids(r), Low(r), count[r])
    BY <1>1, TypeFacts DEF BaseInv, IdInv, IdsOf, Low
  <2>1. pc[r] = "wait" /\ index[r] < count[r] => notif[r][index[r]] # 0 \/ Expected(r, index[r])
    <3>1. SUFFICES ASSUME pc[r] = "wait", index[r] < count[r] PROVE notif[r][index[r]] # 0 \/ Expected(r, index[r])
      OBVIOUS
    <3>2. Low(r) = index[r]
      BY <3>1 DEF Low, Taken
    <3>3. PICK c \in Ids(r) : c.at = index[r]
      BY <2>0, <3>1, <3>2, FirstTile
    <3>. QED BY <3>3, ClaimsAreKnown
  <2>2. Taken(r) => \A i \in DOMAIN notif[r] : notif[r][i] = 0 /\ ~ Expected(r, i)
    <3>1. SUFFICES ASSUME Taken(r) PROVE \A i \in DOMAIN notif[r] : notif[r][i] = 0 /\ ~ Expected(r, i)
      OBVIOUS
    <3>2. Ids(r) = {}
      BY <2>0, <3>1, NoTile DEF Low
    <3>. QED BY <2>0, <3>2, ClaimsAreKnown
  <2>3. \A i \in DOMAIN notif[r] : i >= count[r] => notif[r][i] = 0
    <3>1. \A c \in Ids(r) : c.at < count[r]
      BY <2>0 DEF Tiles
    <3>2. ASSUME NEW i \in 0 .. MaxElts - 1, notif[r][i] # 0 PROVE i < count[r]
      BY <3>1, <3>2, ClaimsAreKnown
    <3>. QED BY <2>0, <3>2
  <2>. QED BY <2>1, <2>2, <2>3
<1>. QED BY <1>1, BaseInvariant, PTL

-----------------------------------------------------------------------------
(* Batches that are written one after the other *)

LEMMA SizeGrows ==
  ASSUME NEW B \in SUBSET Batch, NEW A \in SUBSET B
  PROVE  SizeOf(A) <= SizeOf(B) /\ SizeOf(A) \in Nat /\ SizeOf(B) \in Nat
<1>. DEFINE C == B \ A
<1>1. A \in SUBSET Batch /\ C \in SUBSET Batch /\ A \cap C = {} /\ B = A \cup C
  OBVIOUS
<1>. HIDE DEF C
<1>2. SizeOf(A \cup C) = SizeOf(A) + SizeOf(C)
  BY <1>1, SizeOfBoth
<1>. QED BY <1>1, <1>2, SizeType

\* With b the batches up to b have their room.
LEMMA SizeUpTo ==
  ASSUME NEW B \in SUBSET Batch, NEW b \in B
  PROVE  SizeOf({c \in B : c < b} \cup {b}) = SizeOf({c \in B : c < b}) + Size[b]
<1>. DEFINE A == {c \in B : c < b}
<1>0. b \in Batch /\ b \in Nat /\ ~(b < b)
  BY BatchAssumption
<1>1. A \in SUBSET Batch /\ {b} \in SUBSET Batch /\ A \cap {b} = {}
  BY <1>0
<1>. HIDE DEF A
<1>2. SizeOf(A \cup {b}) = SizeOf(A) + SizeOf({b})
  BY <1>1, SizeOfBoth
<1>3. SizeOf(A \cup {b}) = SizeOf(A) + Size[b]
  BY <1>0, <1>2, SizeOfOne
<1>. QED BY <1>3 DEF A

LEMMA LastBatch ==
  ASSUME NEW B \in SUBSET Batch, B # {}
  PROVE  \E b \in B : \A c \in B : c <= b
<1>. DEFINE After(b) == {c \in B : c > b}
            N == {SizeOf(After(b)) : b \in B}
<1>0. B \subseteq Nat
  BY BatchAssumption
<1>1. N \in SUBSET Nat /\ N # {}
  BY SizeType
<1>2. PICK b \in B : \A c \in B : SizeOf(After(b)) <= SizeOf(After(c))
  <2>. HIDE DEF N
  <2>1. Min(N) \in N /\ \A x \in N : Min(N) <= x
    BY <1>1, LeastRank
  <2>. QED BY <2>1 DEF N
<1>3. ASSUME NEW c \in B, c > b PROVE FALSE
  <2>0. c \in Batch /\ c \in Nat /\ b \in Nat /\ ~(c > c)
    BY <1>0
  <2>1. After(c) \in SUBSET Batch /\ {c} \in SUBSET Batch /\ After(c) \cap {c} = {} /\ c \in Batch
    BY <2>0
  <2>2. After(c) \cup {c} \in SUBSET After(b) /\ After(b) \in SUBSET Batch
    <3>1. ASSUME NEW d \in After(c) PROVE d \in After(b)
      <4>1. d \in Nat /\ d > c
        BY <1>0
      <4>. QED BY <1>3, <2>0, <4>1
    <3>. QED BY <1>3, <3>1
  <2>. HIDE DEF After
  <2>3. SizeOf(After(c) \cup {c}) = SizeOf(After(c)) + SizeOf({c}) /\ SizeOf({c}) >= 1 /\ SizeOf({c}) \in Nat
    BY <2>1, SizeOfBoth, SizeOfOne
  <2>4. SizeOf(After(c) \cup {c}) <= SizeOf(After(b)) /\ SizeOf(After(b)) \in Nat
    BY <2>2, SizeGrows
  <2>5. SizeOf(After(c)) \in Nat /\ SizeOf(After(b)) <= SizeOf(After(c))
    BY <1>2, <2>1, SizeType
  <2>. QED BY <2>3, <2>4, <2>5
<1>. QED BY <1>0, <1>2, <1>3

\* They lie side by side: each has its own room, in their order, and together they fill it.
LEMMA Offsets ==
  ASSUME NEW B \in SUBSET Batch, NEW at \in Nat
  PROVE  /\ \A b \in B : /\ Offset(B, b, at) \in Nat /\ at <= Offset(B, b, at)
                         /\ Offset(B, b, at) + Size[b] <= at + SizeOf(B) /\ Size[b] \in Nat \ {0}
         /\ \A b, c \in B : b < c => Offset(B, b, at) + Size[b] <= Offset(B, c, at)
         /\ \A j \in at .. at + SizeOf(B) - 1 :
              \E b \in B : Offset(B, b, at) <= j /\ j < Offset(B, b, at) + Size[b]
<1>. DEFINE Before(b) == {c \in B : c < b}
<1>0. B \subseteq Nat /\ B \subseteq Batch /\ SizeOf(B) \in Nat
  BY BatchAssumption, SizeType
<1>1. \A b \in B : Before(b) \in SUBSET B /\ Before(b) \cup {b} \in SUBSET B /\ Before(b) \cup {b} \in SUBSET Batch
  BY <1>0
<1>n. \A b \in B : b \in Nat
  BY <1>0
<1>2. \A b, c \in B : b < c => Before(b) \cup {b} \in SUBSET Before(c)
  <2>. SUFFICES ASSUME NEW b \in B, NEW c \in B, b < c, NEW d \in Before(b) \cup {b} PROVE d \in Before(c)
    OBVIOUS
  <2>1. b \in Nat /\ c \in Nat /\ d \in B /\ d \in Nat /\ (d < b \/ d = b)
    BY <1>n
  <2>. QED BY <2>1
<1>3. \A b \in B : SizeOf(Before(b) \cup {b}) = SizeOf(Before(b)) + Size[b]
  BY SizeUpTo
<1>. HIDE DEF Before
<1>4. \A b \in B : SizeOf(Before(b)) \in Nat /\ Size[b] \in Nat \ {0} /\ SizeOf(Before(b)) + Size[b] <= SizeOf(B)
  <2>. SUFFICES ASSUME NEW b \in B
                PROVE  SizeOf(Before(b)) \in Nat /\ Size[b] \in Nat \ {0} /\ SizeOf(Before(b)) + Size[b] <= SizeOf(B)
    OBVIOUS
  <2>1. SizeOf(Before(b)) \in Nat
    BY <1>1, SizeGrows
  <2>2. Size[b] \in Nat \ {0}
    <3>1. b \in Batch
      BY <1>0
    <3>2. Size[b] \in Nat /\ Size[b] >= 1
      BY <3>1, SizeOfOne
    <3>. QED BY <3>2
  <2>3. SizeOf(Before(b) \cup {b}) <= SizeOf(B)
    BY <1>1, SizeGrows
  <2>. QED BY <1>3, <2>1, <2>2, <2>3
<1>5. \A b, c \in B : b < c => SizeOf(Before(b)) + Size[b] <= SizeOf(Before(c))
  <2>. SUFFICES ASSUME NEW b \in B, NEW c \in B, b < c PROVE SizeOf(Before(b)) + Size[b] <= SizeOf(Before(c))
    OBVIOUS
  <2>1. Before(c) \in SUBSET Batch /\ Before(b) \cup {b} \in SUBSET Before(c)
    BY <1>0, <1>1, <1>2
  <2>2. SizeOf(Before(b) \cup {b}) <= SizeOf(Before(c))
    BY <2>1, SizeGrows
  <2>. QED BY <1>3, <2>2
<1>6. \A b \in B : Offset(B, b, at) = at + SizeOf(Before(b))
  BY DEF Offset, Before
\* the first of the batches that end after j begins at j or before
<1>7. ASSUME NEW j \in at .. at + SizeOf(B) - 1
      PROVE  \E b \in B : Offset(B, b, at) <= j /\ j < Offset(B, b, at) + Size[b]
  <2>. DEFINE Later == {b \in B : j < Offset(B, b, at) + Size[b]}
  <2>1. B # {}
    BY SizeOfNone
  <2>2. PICK l \in B : \A c \in B : c <= l
    BY <2>1, LastBatch
  <2>3. l \in Later
    <3>1. B = Before(l) \cup {l}
      <4>1. ASSUME NEW c \in B PROVE c < l \/ c = l
        BY <1>n, <2>2
      <4>. QED BY <4>1 DEF Before
    <3>2. SizeOf(B) = SizeOf(Before(l)) + Size[l]
      BY <1>3, <3>1
    <3>3. SizeOf(Before(l)) \in Nat /\ Size[l] \in Nat
      BY <1>4
    <3>. QED BY <1>6, <3>2, <3>3
  <2>4. PICK b \in Later : \A c \in Later : b <= c
    <3>1. Later \in SUBSET Nat /\ Later # {}
      BY <1>0, <2>3
    <3>. HIDE DEF Later
    <3>. QED BY <3>1, LeastRank
  <2>5. Offset(B, b, at) <= j
    <3>1. CASE Before(b) = {}
      BY <1>6, <3>1, SizeOfNone
    <3>2. CASE Before(b) # {}
      <4>1. PICK p \in Before(b) : \A c \in Before(b) : c <= p
        BY <1>0, <1>1, <3>2, LastBatch
      <4>2. p \in B /\ p < b /\ p \notin Later
        BY <1>0, <2>4, <4>1 DEF Before
      <4>3. Before(b) = Before(p) \cup {p}
        <5>1. ASSUME NEW c \in Before(b) PROVE c \in Before(p) \cup {p}
          BY <1>n, <4>1, <4>2 DEF Before
        <5>2. ASSUME NEW c \in Before(p) PROVE c \in Before(b)
          BY <1>n, <4>1, <4>2 DEF Before
        <5>. QED BY <4>1, <5>1, <5>2
      <4>4. SizeOf(Before(b)) = SizeOf(Before(p)) + Size[p]
        BY <1>3, <4>2, <4>3
      <4>5. SizeOf(Before(p)) \in Nat /\ Size[p] \in Nat /\ ~(j < Offset(B, p, at) + Size[p])
        BY <1>4, <4>2
      <4>. QED BY <1>6, <4>2, <4>4, <4>5
    <3>. QED BY <3>1, <3>2
  <2>. QED BY <2>4, <2>5
<1>8. ASSUME NEW b \in B
      PROVE  /\ Offset(B, b, at) \in Nat /\ at <= Offset(B, b, at)
             /\ Offset(B, b, at) + Size[b] <= at + SizeOf(B) /\ Size[b] \in Nat \ {0}
  BY <1>0, <1>4, <1>6
<1>9. ASSUME NEW b \in B, NEW c \in B, b < c PROVE Offset(B, b, at) + Size[b] <= Offset(B, c, at)
  <2>1. SizeOf(Before(b)) \in Nat /\ SizeOf(Before(c)) \in Nat /\ Size[b] \in Nat
    BY <1>4
  <2>. QED BY <1>5, <1>6, <1>9, <2>1
<1>. QED BY <1>7, <1>8, <1>9

\* A claim is split up.
LEMMA TileSplit ==
  ASSUME NEW lo \in Nat, NEW hi \in Nat, NEW C, Tiles(C, lo, hi), NEW c \in C, NEW D, Tiles(D, c.at, c.at + c.n)
  PROVE  Tiles((C \ {c}) \cup D, lo, hi)
<1>0. c.at \in Nat /\ c.n \in Nat \ {0} /\ lo <= c.at /\ c.at + c.n <= hi
  BY DEF Tiles
<1>1. ASSUME NEW x \in (C \ {c}) \cup D PROVE x.at \in Nat /\ x.n \in Nat \ {0} /\ lo <= x.at /\ x.at + x.n <= hi
  <2>1. CASE x \in C
    BY <2>1 DEF Tiles
  <2>2. CASE x \in D
    <3>1. x.at \in Nat /\ x.n \in Nat \ {0} /\ c.at <= x.at /\ x.at + x.n <= c.at + c.n
      BY <2>2 DEF Tiles
    <3>. QED BY <1>0, <3>1
  <2>. QED BY <2>1, <2>2
<1>2. ASSUME NEW x \in C \ {c}, NEW y \in D PROVE x.at + x.n <= y.at \/ y.at + y.n <= x.at
  <2>1. x.at \in Nat /\ x.n \in Nat \ {0} /\ (x.at + x.n <= c.at \/ c.at + c.n <= x.at)
    BY DEF Tiles
  <2>2. y.at \in Nat /\ y.n \in Nat \ {0} /\ c.at <= y.at /\ y.at + y.n <= c.at + c.n
    BY DEF Tiles
  <2>. QED BY <1>0, <2>1, <2>2
<1>3. ASSUME NEW x \in (C \ {c}) \cup D, NEW y \in (C \ {c}) \cup D
      PROVE  x = y \/ x.at + x.n <= y.at \/ y.at + y.n <= x.at
  <2>1. CASE x \in C \ {c} /\ y \in C \ {c}
    BY <2>1 DEF Tiles
  <2>2. CASE x \in D /\ y \in D
    BY <2>2 DEF Tiles
  <2>. QED BY <1>2, <2>1, <2>2
<1>4. ASSUME NEW j \in lo .. hi - 1 PROVE \E e \in (C \ {c}) \cup D : e.at <= j /\ j < e.at + e.n
  <2>1. PICK e \in C : e.at <= j /\ j < e.at + e.n
    BY DEF Tiles
  <2>2. CASE e = c
    <3>1. j \in c.at .. (c.at + c.n) - 1
      BY <1>0, <2>1, <2>2
    <3>2. PICK d \in D : d.at <= j /\ j < d.at + d.n
      BY <3>1 DEF Tiles
    <3>. QED BY <3>2
  <2>3. CASE e # c
    BY <2>1, <2>3
  <2>. QED BY <2>2, <2>3
<1>. QED BY <1>1, <1>3, <1>4 DEF Tiles

\* What the elements of a memory claim.
ElementSpace(m, i) == [kind |-> "element", of |-> i, at |-> i, n |-> Size[m[i]]]
ElementSpaces(m)   == {ElementSpace(m, i) : i \in {j \in 0 .. SegmentSize - 1 : m[j] # Free}}

Room == 0 .. SegmentSize - 1

\* From m to w, every batch of B gets one place, and nothing else changes.
Placed(m, B, w) ==
  /\ \A b \in B : \E i \in Room : w[i] = b /\ m[i] = Free /\ \A j \in Room : w[j] = b /\ m[j] = Free => j = i
  /\ \A i \in Room : w[i] = m[i] \/ (m[i] = Free /\ w[i] \in B)

\* Batches written to places where no element begins become elements side by side, in new places.
LEMMA WrittenElements ==
  ASSUME Types, NEW m \in [0 .. SegmentSize - 1 -> problem \cup {Free}], NEW B \in SUBSET problem, NEW at \in Nat,
         at + SizeOf(B) <= SegmentSize, \A i \in at .. at + SizeOf(B) - 1 : m[i] = Free,
         NEW w, w = Written(m, B, at)
  PROVE  /\ \E D : Tiles(D, at, at + SizeOf(B)) /\ ElementSpaces(w) = ElementSpaces(m) \cup D
         /\ Placed(m, B, w)
<1>. DEFINE Off(b) == Offset(B, b, at)
            n == SizeOf(B)
            Off1(i) == CHOOSE b \in B : Off(b) = i
<1>0. B \in SUBSET Batch /\ B \subseteq Nat /\ n \in Nat /\ SegmentSize \in Nat /\ problem \subseteq Nat
  BY TypeFacts, SizeType, BatchAssumption
<1>1. \A b \in B : Off(b) \in Nat /\ at <= Off(b) /\ Off(b) + Size[b] <= at + n /\ Size[b] \in Nat \ {0}
  BY <1>0, Offsets
<1>2. \A b, c \in B : b < c => Off(b) + Size[b] <= Off(c)
  BY <1>0, Offsets
<1>3. \A j \in at .. at + n - 1 : \E b \in B : Off(b) <= j /\ j < Off(b) + Size[b]
  BY <1>0, Offsets
<1>4. \A b, c \in B : b = c \/ Off(b) + Size[b] <= Off(c) \/ Off(c) + Size[c] <= Off(b)
  BY <1>0, <1>2
<1>5. w = [i \in 0 .. SegmentSize - 1 |->
             IF i \in at .. at + n - 1 THEN IF \E b \in B : Off(b) = i THEN Off1(i) ELSE Free ELSE m[i]]
  BY DEF Written
<1>. HIDE DEF Off, n
<1>6. \A b \in B : Off(b) \in 0 .. SegmentSize - 1 /\ Off(b) \in at .. at + n - 1
  BY <1>0, <1>1 DEF n
<1>7. \A b \in B : w[Off(b)] = b /\ m[Off(b)] = Free
  <2>. SUFFICES ASSUME NEW b \in B PROVE w[Off(b)] = b /\ m[Off(b)] = Free
    OBVIOUS
  <2>1. Off1(Off(b)) \in B /\ Off(Off1(Off(b))) = Off(b)
    OBVIOUS
  <2>2. Off1(Off(b)) = b
    <3>. DEFINE c == Off1(Off(b))
    <3>1. c \in B /\ Off(c) = Off(b)
      BY <2>1
    <3>. HIDE DEF c
    <3>2. c = b
      BY <1>1, <1>4, <3>1
    <3>. QED BY <3>2 DEF c
  <2>. HIDE DEF Off1
  <2>. QED BY <1>5, <1>6, <2>2 DEF n
<1>8. \A i \in 0 .. SegmentSize - 1 : w[i] = m[i] \/ (m[i] = Free /\ \E b \in B : i = Off(b) /\ w[i] = b)
  <2>. SUFFICES ASSUME NEW i \in 0 .. SegmentSize - 1
                PROVE  w[i] = m[i] \/ (m[i] = Free /\ \E b \in B : i = Off(b) /\ w[i] = b)
    OBVIOUS
  <2>1. CASE i \notin at .. at + n - 1
    BY <1>5, <2>1
  <2>2. CASE i \in at .. at + n - 1 /\ \E b \in B : Off(b) = i
    BY <1>7, <2>2
  <2>3. CASE i \in at .. at + n - 1 /\ ~\E b \in B : Off(b) = i
    BY <1>5, <2>3 DEF n
  <2>. QED BY <2>1, <2>2, <2>3
<1>9. \A b \in B : b # Free
  BY <1>0 DEF Free
<1>10. \A b \in B : \E i \in 0 .. SegmentSize - 1 :
         w[i] = b /\ m[i] = Free /\ \A j \in 0 .. SegmentSize - 1 : w[j] = b /\ m[j] = Free => j = i
  <2>. SUFFICES ASSUME NEW b \in B
                PROVE  \A j \in 0 .. SegmentSize - 1 : w[j] = b /\ m[j] = Free => j = Off(b)
    BY <1>6, <1>7
  <2>. QED BY <1>8, <1>9
<1>11. \E D : Tiles(D, at, at + n) /\ ElementSpaces(w) = ElementSpaces(m) \cup D
  <2>. DEFINE D == {ElementSpace(w, i) : i \in {Off(b) : b \in B}}
  <2>1. \A b \in B : ElementSpace(w, Off(b)).at = Off(b) /\ ElementSpace(w, Off(b)).n = Size[b]
    BY <1>7 DEF ElementSpace
  <2>2. Tiles(D, at, at + n)
    <3>1. ASSUME NEW x \in D PROVE x.at \in Nat /\ x.n \in Nat \ {0} /\ at <= x.at /\ x.at + x.n <= at + n
      BY <1>1, <2>1 DEF n
    <3>2. ASSUME NEW x \in D, NEW y \in D PROVE x = y \/ x.at + x.n <= y.at \/ y.at + y.n <= x.at
      <4>1. PICK b \in B : x = ElementSpace(w, Off(b))
        OBVIOUS
      <4>2. PICK c \in B : y = ElementSpace(w, Off(c))
        OBVIOUS
      <4>. QED BY <1>4, <2>1, <4>1, <4>2
    <3>3. ASSUME NEW j \in at .. at + n - 1 PROVE \E x \in D : x.at <= j /\ j < x.at + x.n
      <4>1. PICK b \in B : Off(b) <= j /\ j < Off(b) + Size[b]
        BY <1>3 DEF n
      <4>2. ElementSpace(w, Off(b)) \in D
        OBVIOUS
      <4>. QED BY <2>1, <4>1, <4>2
    <3>. HIDE DEF D, Off1
    <3>4. \A x \in D : x.at \in Nat /\ x.n \in Nat \ {0} /\ at <= x.at /\ x.at + x.n <= at + n
      BY <3>1
    <3>5. \A x, y \in D : x = y \/ x.at + x.n <= y.at \/ y.at + y.n <= x.at
      BY <3>2
    <3>6. \A j \in at .. (at + n) - 1 : \E x \in D : x.at <= j /\ j < x.at + x.n
      BY <1>0, <3>3
    <3>. QED BY <3>4, <3>5, <3>6 DEF Tiles
  <2>3. ASSUME NEW x \in ElementSpaces(w) PROVE x \in ElementSpaces(m) \cup D
    <3>1. PICK i \in 0 .. SegmentSize - 1 : w[i] # Free /\ x = ElementSpace(w, i)
      BY DEF ElementSpaces
    <3>2. CASE w[i] = m[i]
      BY <3>1, <3>2 DEF ElementSpaces, ElementSpace
    <3>3. CASE \E b \in B : i = Off(b)
      BY <3>1, <3>3
    <3>. QED BY <1>8, <3>2, <3>3
  <2>4. ASSUME NEW x \in ElementSpaces(m) PROVE x \in ElementSpaces(w)
    <3>1. PICK i \in 0 .. SegmentSize - 1 : m[i] # Free /\ x = ElementSpace(m, i)
      BY DEF ElementSpaces
    <3>2. w[i] = m[i]
      BY <1>8, <3>1
    <3>. QED BY <3>1, <3>2 DEF ElementSpaces, ElementSpace
  <2>5. ASSUME NEW x \in D PROVE x \in ElementSpaces(w)
    <3>1. PICK b \in B : x = ElementSpace(w, Off(b))
      OBVIOUS
    <3>2. w[Off(b)] # Free
      BY <1>7, <1>9
    <3>. QED BY <1>6, <3>1, <3>2 DEF ElementSpaces
  <2>. HIDE DEF D
  <2>. QED BY <2>2, <2>3, <2>4, <2>5
<1>12. \A i \in 0 .. SegmentSize - 1 : w[i] = m[i] \/ (m[i] = Free /\ w[i] \in B)
  BY <1>8
<1>13. Placed(m, B, w)
  BY <1>10, <1>12 DEF Placed, Room
<1>. QED BY <1>11, <1>13 DEF n

-----------------------------------------------------------------------------
(* The room of a segment: reserved, under way, filled *)

WireSpace(m) == [kind |-> "wire", of |-> m, at |-> m.at, n |-> SizeOf(m.batches)]
RankSpace(r) == [kind |-> "rank", of |-> r, at |-> seen[r].head, n |-> SizeOf(PendingBatches(r))]

WireSpaces(t) == {WireSpace(m) : m \in {w \in wire : w.to = t /\ ~ w.arrived}}
RankSpaces(t) == {RankSpace(r) : r \in {o \in Rank : Pending(o, t)}}

Space(t) == WireSpaces(t) \cup RankSpaces(t) \cup ElementSpaces(mem[t])

\* They fill what is reserved, without a gap and without an overlap.
SpaceOf(t) == Tiles(Space(t), 0, head[t])

SpaceInv == \A t \in Rank : SpaceOf(t)

LEMMA SpacesDiffer ==
  /\ \A m, n : WireSpace(m) = WireSpace(n) => m = n
  /\ \A r, o : RankSpace(r) = RankSpace(o) => r = o
  /\ \A m, r, t, i : WireSpace(m) # RankSpace(r) /\ RankSpace(r) # ElementSpace(t, i) /\ WireSpace(m) # ElementSpace(t, i)
<1>1. \A m : WireSpace(m).kind = "wire" /\ WireSpace(m).of = m
  BY DEF WireSpace
<1>2. \A r : RankSpace(r).kind = "rank" /\ RankSpace(r).of = r
  BY DEF RankSpace
<1>3. \A t, i : ElementSpace(t, i).kind = "element"
  BY DEF ElementSpace
<1>. QED BY <1>1, <1>2, <1>3

\* What is written to room that is claimed gives the claim to the elements.
LEMMA RoomIsFilled ==
  ASSUME Types, NEW t \in Rank, SpaceOf(t), NEW c \in WireSpaces(t) \cup RankSpaces(t),
         NEW B \in SUBSET problem, c.n = SizeOf(B), NEW w, w = Written(mem[t], B, c.at)
  PROVE  /\ Tiles(((WireSpaces(t) \cup RankSpaces(t)) \ {c}) \cup ElementSpaces(w), 0, head[t])
         /\ Placed(mem[t], B, w)
<1>. DEFINE O == WireSpaces(t) \cup RankSpaces(t)
            E == ElementSpaces(mem[t])
            F == ElementSpaces(w)
<1>0. head[t] \in Nat /\ head[t] < SegmentSize /\ SegmentSize \in Nat
      /\ mem[t] \in [0 .. SegmentSize - 1 -> problem \cup {Free}]
  BY TypeFacts
<1>1. c \in Space(t) /\ c \notin E
  BY SpacesDiffer DEF Space, WireSpaces, RankSpaces, ElementSpaces
<1>2. Tiles(Space(t), 0, head[t]) /\ c.at \in Nat /\ c.n \in Nat \ {0} /\ c.at + c.n <= head[t]
  BY <1>1 DEF SpaceOf, Tiles
<1>3. \A i \in c.at .. c.at + SizeOf(B) - 1 : mem[t][i] = Free
  <2>. SUFFICES ASSUME NEW i \in c.at .. (c.at + c.n) - 1, mem[t][i] # Free PROVE FALSE
    BY <1>2
  <2>. DEFINE e == ElementSpace(mem[t], i)
  <2>1. i \in 0 .. SegmentSize - 1
    BY <1>0, <1>2
  <2>2. e \in E /\ e.at = i
    BY <2>1 DEF ElementSpaces, ElementSpace
  <2>. HIDE DEF e, E
  <2>3. e \in Space(t) /\ e # c
    BY <1>1, <2>2 DEF Space, E
  <2>4. e.n \in Nat \ {0} /\ (c.at + c.n <= e.at \/ e.at + e.n <= c.at)
    BY <1>1, <1>2, <2>3 DEF Tiles
  <2>. QED BY <1>2, <2>2, <2>4
<1>4. c.at + SizeOf(B) <= SegmentSize
  BY <1>0, <1>2
<1>5. (\E D : Tiles(D, c.at, c.at + SizeOf(B)) /\ F = E \cup D) /\ Placed(mem[t], B, w)
  <2>. DEFINE a == c.at
              m == mem[t]
  <2>1. /\ a \in Nat /\ m \in [0 .. SegmentSize - 1 -> problem \cup {Free}] /\ a + SizeOf(B) <= SegmentSize
        /\ \A i \in a .. a + SizeOf(B) - 1 : m[i] = Free
        /\ w = Written(m, B, a)
    BY <1>0, <1>2, <1>3, <1>4
  <2>. HIDE DEF a, m
  <2>2. (\E D : Tiles(D, a, a + SizeOf(B)) /\ ElementSpaces(w) = ElementSpaces(m) \cup D) /\ Placed(m, B, w)
    BY <2>1, WrittenElements
  <2>. QED BY <2>2 DEF a, m
<1>6. Tiles((O \ {c}) \cup F, 0, head[t])
  <2>1. PICK D : Tiles(D, c.at, c.at + c.n) /\ F = E \cup D
    BY <1>5
  <2>2. Tiles((Space(t) \ {c}) \cup D, 0, head[t])
    BY <1>0, <1>1, <1>2, <2>1, TileSplit
  <2>3. (Space(t) \ {c}) \cup D = (O \ {c}) \cup F
    BY <1>1, <2>1 DEF Space
  <2>. QED BY <2>2, <2>3
<1>. QED BY <1>5, <1>6

\* What a step of r leaves of the claims on room.
LEMMA OtherSpaces ==
  ASSUME Types, NEW r \in Rank, Return(r) \/ Flush(r), NEW t \in Rank
  PROVE  \A o \in Rank \ {r} : (Pending(o, t)' <=> Pending(o, t)) /\ RankSpace(o)' = RankSpace(o)
BY OtherPending DEF RankSpace

LEMMA SameSpace ==
  ASSUME Types, NEW r \in Rank, Return(r) \/ Flush(r), wire' = wire,
         \A u \in Rank : Pending(r, u)' <=> Pending(r, u),
         (\E u \in Rank : Pending(r, u)) => RankSpace(r)' = RankSpace(r)
  PROVE  \A t \in Rank : WireSpaces(t)' = WireSpaces(t) /\ RankSpaces(t)' = RankSpaces(t)
<1>. SUFFICES ASSUME NEW t \in Rank PROVE WireSpaces(t)' = WireSpaces(t) /\ RankSpaces(t)' = RankSpaces(t)
  OBVIOUS
<1>1. WireSpaces(t)' = WireSpaces(t)
  BY DEF WireSpaces, WireSpace
<1>2. \A o \in Rank : (Pending(o, t)' <=> Pending(o, t)) /\ (Pending(o, t) => RankSpace(o)' = RankSpace(o))
  BY OtherSpaces
<1>3. RankSpaces(t)' = RankSpaces(t)
  BY <1>2 DEF RankSpaces
<1>. QED BY <1>1, <1>3

LEMMA SameRoom ==
  ASSUME NEW t \in Rank, SpaceOf(t), WireSpaces(t)' = WireSpaces(t), RankSpaces(t)' = RankSpaces(t),
         mem'[t] = mem[t], head'[t] = head[t]
  PROVE  SpaceOf(t)'
<1>1. Space(t)' = Space(t)
  BY DEF Space, ElementSpaces, ElementSpace
<1>. QED BY <1>1 DEF SpaceOf

LEMMA SpaceNext ==
  ASSUME BaseInv, IdInv, SpaceInv, NEW r \in Rank, Return(r) \/ Flush(r)
  PROVE  SpaceInv'
<1>. USE DEF Goto
<1>0. /\ Types /\ ControlOf(r) /\ SeenOf(r) /\ pc \in [Rank -> Step] /\ seen \in [Rank -> Reservation]
      /\ head \in [Rank -> 0 .. SegmentSize - 1] /\ SegmentSize \in Nat \ {0}
      /\ mem \in [Rank -> [0 .. SegmentSize - 1 -> problem \cup {Free}]]
      /\ tmp \in [Rank -> problem \cup {NoBatch}] /\ problem \subseteq Batch
  BY TypeFacts DEF BaseInv, ControlInv, SeenInv
<1>1. \A o \in Rank : SpaceOf(o) /\ head[o] \in Nat
  BY <1>0 DEF SpaceInv
\* steps that leave reservations and memories
<1>2. ASSUME wire' = wire, \A u \in Rank : Pending(r, u)' <=> Pending(r, u),
             (\E u \in Rank : Pending(r, u)) => RankSpace(r)' = RankSpace(r), mem' = mem, head' = head
      PROVE  SpaceInv'
  <2>1. \A t \in Rank : SpaceOf(t)'
    BY <1>0, <1>1, <1>2, SameSpace, SameRoom
  <2>. QED BY <2>1 DEF SpaceInv, Rank
<1>3. CASE \/ \E b \in Batch : Compute(r, b)
           \/ ReturnResults(r) \/ PushTmpResults(r) \/ TryAlloc(r) \/ AllocFailed(r) \/ AllocUnlock(r) \/ SecondPass(r)
           \/ LockOwn(r) \/ WaitNotification(r) \/ Aggregate(r) \/ SubmitOwn(r) \/ TryLockTarget(r) \/ Select(r)
           \/ UnlockTarget(r) \/ UnlockOwn(r)
  <2>1. /\ wire' = wire /\ \A u \in Rank : Pending(r, u)' <=> Pending(r, u)
        /\ (\E u \in Rank : Pending(r, u)) => RankSpace(r)' = RankSpace(r)
    BY <1>3, QuietReservations DEF RankSpace
  <2>2. ASSUME NEW b \in Batch, Compute(r, b) PROVE mem' = mem /\ head' = head
    BY <2>2 DEF Compute, segmentVars
  <2>3. mem' = mem /\ head' = head
    BY <1>3, <2>2 DEF ReturnResults, PushTmpResults, TryAlloc, AllocFailed, AllocUnlock, SecondPass, LockOwn,
       WaitNotification, Aggregate, SubmitOwn, TryLockTarget, Select, UnlockTarget, UnlockOwn, segmentVars
  <2>. QED BY <1>2, <2>1, <2>3
<1>4. CASE Purge(r)
  <2>1. /\ wire' = wire /\ \A u \in Rank : Pending(r, u)' <=> Pending(r, u)
        /\ (\E u \in Rank : Pending(r, u)) => RankSpace(r)' = RankSpace(r)
    BY <1>4, QuietReservations DEF RankSpace
  <2>2. pc[r] = "push" /\ mem' = [mem EXCEPT ![r] = EmptySegment] /\ head' = [head EXCEPT ![r] = 0]
    BY <1>4 DEF Purge
  <2>3. \A t \in Rank : WireSpaces(t)' = WireSpaces(t) /\ RankSpaces(t)' = RankSpaces(t)
    BY <1>0, <2>1, SameSpace
  <2>4. WireSpaces(r) = {} /\ RankSpaces(r) = {}
    <3>1. Ids(r) = {}
      <4>1. Low(r) = count[r] /\ IdsOf(r) /\ count[r] \in Nat
        BY <2>2, TypeFacts DEF Low, Taken, Flushing, IdInv, BaseInv
      <4>. QED BY <4>1, NoTile DEF IdsOf
    <3>2. WireIds(r) = {} /\ RankIds(r) = {}
      BY <3>1 DEF Ids
    <3>. QED BY <3>2 DEF WireIds, RankIds, WireSpaces, RankSpaces
  <2>5. SpaceOf(r)'
    <3>1. ElementSpaces(mem[r])' = {}
      BY <1>0, <2>2 DEF ElementSpaces, EmptySegment
    <3>2. Space(r)' = {} /\ head'[r] = 0
      BY <1>0, <2>2, <2>3, <2>4, <3>1 DEF Space
    <3>. QED BY <3>2 DEF SpaceOf, Tiles
  <2>6. \A o \in Rank \ {r} : SpaceOf(o)'
    BY <1>0, <1>1, <2>2, <2>3, SameRoom
  <2>. QED BY <2>5, <2>6 DEF SpaceInv, Rank
\* reservations
<1>5. ASSUME NEW u \in Rank, wire' = wire, mem' = mem, \A t \in Rank : ~Pending(r, t) /\ (Pending(r, t)' <=> t = u),
             RankSpace(r)'.at = head[u], RankSpace(r)'.n \in Nat \ {0},
             head' = [head EXCEPT ![u] = head[u] + RankSpace(r)'.n]
      PROVE  SpaceInv'
  <2>1. ASSUME NEW t \in Rank PROVE SpaceOf(t)'
    <3>1. WireSpaces(t)' = WireSpaces(t) /\ ElementSpaces(mem[t])' = ElementSpaces(mem[t])
      BY <1>5 DEF WireSpaces, WireSpace, ElementSpaces, ElementSpace
    <3>2. \A o \in Rank \ {r} : (Pending(o, t)' <=> Pending(o, t)) /\ RankSpace(o)' = RankSpace(o)
      BY <1>0, OtherSpaces
    <3>3. CASE t = u
      <4>. DEFINE d == RankSpace(r)'
      <4>1. RankSpaces(t)' = RankSpaces(t) \cup {d}
        BY <1>5, <3>2, <3>3 DEF RankSpaces
      <4>2. Space(t)' = Space(t) \cup {d}
        BY <3>1, <4>1 DEF Space
      <4>3. d.at = head[t] /\ d.n \in Nat \ {0} /\ Tiles(Space(t), 0, head[t]) /\ head'[t] = head[t] + d.n
        BY <1>0, <1>1, <1>5, <3>3 DEF SpaceOf
      <4>. HIDE DEF d
      <4>4. Tiles(Space(t) \cup {d}, 0, head[t] + d.n)
        BY <1>1, <4>3, TileAppended
      <4>. QED BY <4>2, <4>3, <4>4 DEF SpaceOf
    <3>4. CASE t # u
      <4>1. RankSpaces(t)' = RankSpaces(t)
        BY <1>5, <3>2, <3>4 DEF RankSpaces
      <4>. QED BY <1>0, <1>1, <1>5, <3>1, <3>4, <4>1, SameRoom
    <3>. QED BY <3>3, <3>4
  <2>. QED BY <2>1 DEF SpaceInv, Rank
<1>6. CASE AllocReserve(r)
  <2>. DEFINE s == [head |-> head[r], count |-> count[r]]
  <2>1. pc[r] = "alloc_reserve" /\ wire' = wire /\ mem' = mem /\ tmp' = tmp
    BY <1>6 DEF AllocReserve, batchVars
  <2>2. CASE ~Fits({tmp[r]}, s)
    <3>1. pc'[r] = "alloc_full" /\ head' = head
      BY <1>0, <1>6, <2>2 DEF AllocReserve
    <3>2. \A u \in Rank : ~Pending(r, u) /\ ~Pending(r, u)'
      BY <2>1, <3>1 DEF Pending
    <3>. QED BY <1>2, <2>1, <3>1, <3>2
  <2>3. CASE Fits({tmp[r]}, s)
    <3>1. pc'[r] = "alloc_unlock" /\ seen'[r] = s /\ head' = [head EXCEPT ![r] = head[r] + Size[tmp[r]]]
      BY <1>0, <1>6, <2>3 DEF AllocReserve
    <3>2. \A u \in Rank : ~Pending(r, u) /\ (Pending(r, u)' <=> u = r)
      BY <2>1, <3>1 DEF Pending
    <3>3. SizeOf({tmp[r]}) = Size[tmp[r]] /\ Size[tmp[r]] \in Nat /\ Size[tmp[r]] >= 1
      <4>1. tmp[r] \in Batch
        BY <1>0, <2>1 DEF ControlOf, Allocating
      <4>. QED BY <4>1, SizeOfOne
    <3>4. RankSpace(r)'.at = head[r] /\ RankSpace(r)'.n = Size[tmp[r]]
      <4>1. PendingBatches(r)' = {tmp[r]}
        BY <2>1, <3>1 DEF PendingBatches
      <4>2. seen'[r].head = head[r]
        BY <3>1
      <4>. QED BY <3>3, <4>1, <4>2 DEF RankSpace
    <3>5. RankSpace(r)'.n \in Nat \ {0} /\ head' = [head EXCEPT ![r] = head[r] + RankSpace(r)'.n]
      BY <3>1, <3>3, <3>4
    <3>. QED BY <1>5, <2>1, <3>2, <3>4, <3>5
  <2>. QED BY <2>2, <2>3
<1>7. CASE Reserve(r)
  <2>. DEFINE u == Target(r)
              S == selected[r]
  <2>1. /\ pc[r] = "reserve" /\ pc'[r] = "unlock_target" /\ wire' = wire /\ mem' = mem
        /\ UNCHANGED <<hops, seen, selected>> /\ head' = [head EXCEPT ![u] = head[u] + SizeOf(S)]
    BY <1>0, <1>7 DEF Reserve, flushVars, pushVars
  <2>2. u \in Rank
    BY <1>0, <2>1, TargetType DEF ControlOf, Serving
  <2>3. Target(r)' = u /\ selected'[r] = S /\ seen'[r] = seen[r]
    BY <2>1 DEF Target
  <2>4. S \in SUBSET Batch /\ SizeOf(S) \in Nat
    BY <1>0, TypeFacts, SizeType
  <2>5. CASE S = {}
    <3>1. \A t \in Rank : ~Pending(r, t) /\ ~Pending(r, t)'
      BY <2>1, <2>3, <2>5 DEF Pending
    <3>2. head' = head
      BY <1>0, <2>1, <2>2, <2>5, SizeOfNone
    <3>. QED BY <1>2, <2>1, <3>1, <3>2
  <2>6. CASE S # {}
    <3>1. \A t \in Rank : ~Pending(r, t) /\ (Pending(r, t)' <=> t = u)
      BY <2>1, <2>3, <2>6 DEF Pending
    <3>2. RankSpace(r)'.at = head[u] /\ RankSpace(r)'.n = SizeOf(S)
      <4>1. seen[r].head = head[u]
        BY <1>0, <2>1 DEF SeenOf
      <4>. QED BY <2>1, <2>3, <4>1 DEF RankSpace, PendingBatches
    <3>3. SizeOf(S) \in Nat \ {0}
      <4>1. PICK b \in S : b \in Batch
        BY <2>4, <2>6
      <4>2. SizeOf({b}) <= SizeOf(S) /\ SizeOf({b}) \in Nat
        BY <2>4, <4>1, SizeGrows
      <4>3. SizeOf({b}) >= 1
        BY <4>1, SizeOfOne
      <4>. QED BY <2>4, <4>2, <4>3
    <3>. QED BY <1>5, <2>1, <2>2, <3>1, <3>2, <3>3
  <2>. QED BY <2>5, <2>6
<1>8. CASE AllocWrite(r)
  <2>. DEFINE m == [Message(r, {tmp[r]}, seen[r]) EXCEPT !.arrived = TRUE]
              c == RankSpace(r)
              w == Written(mem[r], {tmp[r]}, seen[r].head)
  <2>1. /\ pc[r] = "alloc_write" /\ pc'[r] = "second_pass" /\ wire' = wire \cup {m} /\ head' = head
        /\ mem' = [mem EXCEPT ![r] = w]
    BY <1>0, <1>8 DEF AllocWrite
  <2>2. m.arrived = TRUE
    <3>1. m = [to |-> r, batches |-> {tmp[r]}, at |-> seen[r].head, id |-> seen[r].count, arrived |-> TRUE]
      BY ArrivedMessage
    <3>. QED BY <3>1
  <2>. HIDE DEF m
  <2>3. \A t \in Rank : WireSpaces(t)' = WireSpaces(t)
    BY <2>1, <2>2 DEF WireSpaces, WireSpace
  <2>4. \A t \in Rank : (Pending(r, t) <=> t = r) /\ ~Pending(r, t)'
    BY <2>1 DEF Pending
  <2>5. c.at = seen[r].head /\ c.n = SizeOf({tmp[r]}) /\ {tmp[r]} \in SUBSET problem
    BY <1>0, <2>1 DEF RankSpace, PendingBatches, ControlOf, Allocating
  <2>6. \A t \in Rank : \A o \in Rank \ {r} : (Pending(o, t)' <=> Pending(o, t)) /\ RankSpace(o)' = RankSpace(o)
    BY <1>0, OtherSpaces
  <2>7. RankSpaces(r)' = RankSpaces(r) \ {c} /\ c \in RankSpaces(r) /\ c \notin WireSpaces(r)
    <3>1. RankSpaces(r)' = RankSpaces(r) \ {c} /\ c \in RankSpaces(r)
      BY <2>4, <2>6, SpacesDiffer DEF RankSpaces
    <3>. QED BY <3>1, SpacesDiffer DEF WireSpaces
  <2>8. SpaceOf(r)'
    <3>1. mem'[r] = w /\ head'[r] = head[r]
      BY <1>0, <2>1
    <3>. HIDE DEF c, w
    <3>2. Tiles(((WireSpaces(r) \cup RankSpaces(r)) \ {c}) \cup ElementSpaces(w), 0, head[r])
      <4>1. w = Written(mem[r], {tmp[r]}, c.at) /\ c \in WireSpaces(r) \cup RankSpaces(r) /\ SpaceOf(r)
        BY <1>1, <2>5, <2>7 DEF w
      <4>. QED BY <1>0, <2>5, <4>1, RoomIsFilled
    <3>3. ElementSpaces(mem[r])' = ElementSpaces(w)
      BY <3>1 DEF ElementSpaces, ElementSpace
    <3>4. Space(r)' = ((WireSpaces(r) \cup RankSpaces(r)) \ {c}) \cup ElementSpaces(w)
      BY <2>3, <2>7, <3>3 DEF Space
    <3>. QED BY <3>1, <3>2, <3>4 DEF SpaceOf
  <2>9. ASSUME NEW o \in Rank \ {r} PROVE SpaceOf(o)'
    <3>1. RankSpaces(o)' = RankSpaces(o)
      BY <2>4, <2>6 DEF RankSpaces
    <3>2. mem'[o] = mem[o] /\ head'[o] = head[o]
      BY <1>0, <2>1
    <3>. QED BY <1>1, <2>3, <3>1, <3>2, SameRoom
  <2>. QED BY <2>8, <2>9 DEF SpaceInv, Rank
<1>9. CASE Write(r)
  <2>0. pc[r] = "write" /\ Target(r) \in Rank
    <3>1. pc[r] = "write"
      BY <1>9 DEF Write
    <3>. QED BY <1>0, <3>1, TargetType DEF ControlOf, Serving
  <2>2. PICK u \in Rank : u = Target(r)
    BY <2>0
  <2>. DEFINE S == selected[r]
              m == Message(u, S, seen[r])
  <2>1. /\ pc[r] = "write" /\ pc'[r] = "push" /\ mem' = mem /\ head' = head
        /\ (S = {} => wire' = wire) /\ (S # {} => wire' = wire \cup {m})
    BY <1>0, <1>9, <2>2 DEF Write, segmentVars
  <2>3. CASE S = {}
    <3>1. \A t \in Rank : ~Pending(r, t) /\ ~Pending(r, t)'
      BY <2>1, <2>3 DEF Pending
    <3>. QED BY <1>2, <2>1, <2>3, <3>1
  <2>4. CASE S # {}
    <3>. DEFINE c == RankSpace(r)
                d == WireSpace(m)
    <3>1. \A t \in Rank : (Pending(r, t) <=> t = u) /\ ~Pending(r, t)'
      BY <2>1, <2>2, <2>4 DEF Pending
    <3>2. m.to = u /\ ~m.arrived /\ d.at = c.at /\ d.n = c.n
      BY <2>1 DEF WireSpace, RankSpace, PendingBatches, Message
    <3>3. wire' = wire \cup {m}
      BY <2>1, <2>4
    <3>. HIDE DEF m
    <3>4. \A t \in Rank : \A o \in Rank \ {r} : (Pending(o, t)' <=> Pending(o, t)) /\ RankSpace(o)' = RankSpace(o)
      BY <1>0, OtherSpaces
    <3>5. RankSpaces(u)' = RankSpaces(u) \ {c} /\ c \in RankSpaces(u)
      BY <2>2, <3>1, <3>4, SpacesDiffer DEF RankSpaces
    <3>6. c \notin WireSpaces(u) /\ c \notin ElementSpaces(mem[u])
      BY SpacesDiffer DEF WireSpaces, ElementSpaces
    <3>7. WireSpaces(u)' = WireSpaces(u) \cup {d}
      BY <3>2, <3>3 DEF WireSpaces, WireSpace
    <3>8. SpaceOf(u)'
      <4>1. ElementSpaces(mem[u])' = ElementSpaces(mem[u])
        BY <2>1 DEF ElementSpaces, ElementSpace
      <4>. HIDE DEF c, d
      <4>2. Space(u)' = (Space(u) \ {c}) \cup {d} /\ c \in Space(u)
        BY <3>5, <3>6, <3>7, <4>1 DEF Space
      <4>3. Tiles((Space(u) \ {c}) \cup {d}, 0, head[u])
        BY <1>1, <2>2, <3>2, <4>2, TileReplaced DEF SpaceOf
      <4>. QED BY <2>1, <4>2, <4>3 DEF SpaceOf
    <3>9. ASSUME NEW o \in Rank \ {u} PROVE SpaceOf(o)'
      <4>1. RankSpaces(o)' = RankSpaces(o)
        BY <3>1, <3>4 DEF RankSpaces
      <4>2. WireSpaces(o)' = WireSpaces(o)
        BY <3>2, <3>3 DEF WireSpaces, WireSpace
      <4>. QED BY <1>1, <2>1, <4>1, <4>2, SameRoom
    <3>. QED BY <3>8, <3>9 DEF SpaceInv, Rank
  <2>. QED BY <2>3, <2>4
<1>. QED BY <1>3, <1>4, <1>6, <1>7, <1>8, <1>9 DEF Return, Flush

-----------------------------------------------------------------------------
(* What a rank has in its multimap *)

\* Those of them that lie on the segment are elements of it; those that do not have another owner; each of
\* the hops that are still to be served has some.
LocalOf(r) ==
  /\ onSegment[r] \subseteq local[r]
  /\ \A b \in onSegment[r] : Hop(r, b) \in hops[r] /\ \E i \in Room : mem[r][i] = b
  /\ \A b \in local[r] \ onSegment[r] : Owner[b] # r
  /\ \A t \in hops[r] : LocalFor(r, t) # {}

LocalInv == \A r \in Rank : LocalOf(r)

\* Once the flush has waited for all, nothing comes any more.
LEMMA NothingComes ==
  ASSUME BaseInv, IdInv, NEW t \in Rank, Low(t) >= count[t]
  PROVE  (\A m \in wire : m.to # t) /\ \A r \in Rank : ~Pending(r, t)
<1>1. IdsOf(t) /\ Low(t) \in Nat /\ count[t] \in Nat
  BY TypeFacts DEF Low, IdInv, BaseInv
<1>2. Ids(t) = {}
  BY <1>1, NoTile DEF IdsOf
<1>3. WireIds(t) = {} /\ RankIds(t) = {}
  BY <1>2 DEF Ids
<1>. QED BY <1>3 DEF WireIds, RankIds

LEMMA TakenIsSettled ==
  ASSUME BaseInv, IdInv, NEW t \in Rank, Taken(t)
  PROVE  (\A m \in wire : m.to # t) /\ \A r \in Rank : ~Pending(r, t)
<1>1. Low(t) = count[t] /\ count[t] \in Nat
  BY TypeFacts DEF Low, BaseInv
<1>2. Low(t) >= count[t]
  BY <1>1
<1>. QED BY <1>2, NothingComes

\* Elements begin where room is reserved.
LEMMA ElementsAreReserved ==
  ASSUME Types, NEW t \in Rank, SpaceOf(t)
  PROVE  /\ \A i \in Room : mem[t][i] # Free => i < head[t]
         /\ \A b \in problem : b \in Elements(t) <=> \E i \in Room : mem[t][i] = b
<1>0. head[t] \in Nat /\ head[t] < SegmentSize /\ SegmentSize \in Nat /\ \A b \in problem : b # Free
  BY TypeFacts, BatchAssumption DEF Free
<1>1. ASSUME NEW i \in Room, mem[t][i] # Free PROVE i < head[t]
  <2>. DEFINE e == ElementSpace(mem[t], i)
  <2>1. e \in Space(t) /\ e.at = i
    BY <1>1 DEF Space, ElementSpaces, ElementSpace, Room
  <2>. HIDE DEF e
  <2>2. e.n \in Nat \ {0} /\ e.at + e.n <= head[t]
    BY <2>1 DEF SpaceOf, Tiles
  <2>. QED BY <1>0, <2>1, <2>2 DEF Room
<1>. QED BY <1>0, <1>1 DEF Elements, Room

LEMMA OwnHop ==
  ASSUME NEW r \in Rank, NEW b \in Batch
  PROVE  Hop(r, b) = r <=> Owner[b] = r
<1>1. Owner[b] \in Rank
  BY BatchAssumption
<1>. QED BY <1>1, RouteAssumption DEF Hop

LEMMA LocalNext ==
  ASSUME BaseInv, IdInv, SpaceInv, LocalInv, NEW r \in Rank, Return(r) \/ Flush(r)
  PROVE  LocalInv'
<1>. USE DEF Goto
<1>0. /\ Types /\ ControlOf(r) /\ LocalOf(r) /\ SpaceOf(r) /\ pc \in [Rank -> Step]
      /\ local \in [Rank -> SUBSET problem] /\ onSegment \in [Rank -> SUBSET Batch] /\ hops \in [Rank -> SUBSET Rank]
      /\ mem \in [Rank -> [0 .. SegmentSize - 1 -> problem \cup {Free}]] /\ problem \subseteq Batch
  BY TypeFacts DEF BaseInv, ControlInv, LocalInv, SpaceInv
<1>1. ASSUME NEW o \in Rank \ {r} PROVE LocalOf(o)'
  <2>1. local'[o] = local[o] /\ onSegment'[o] = onSegment[o] /\ hops'[o] = hops[o] /\ mem'[o] = mem[o]
    BY <1>0, OtherRanks
  <2>2. LocalOf(o)
    BY DEF LocalInv
  <2>. QED BY <2>1, <2>2 DEF LocalOf, LocalFor, Hop
<1>s. SUFFICES LocalOf(r)'
  BY <1>1 DEF LocalInv, Rank
<1>2. CASE UNCHANGED <<local, onSegment, hops, mem>>
  BY <1>0, <1>2 DEF LocalOf, LocalFor, Hop
<1>3. CASE \/ \E b \in Batch : Compute(r, b)
           \/ ReturnResults(r) \/ PushTmpResults(r) \/ TryAlloc(r) \/ AllocFailed(r) \/ AllocReserve(r) \/ AllocUnlock(r)
           \/ SecondPass(r) \/ LockOwn(r) \/ WaitNotification(r) \/ Select(r) \/ Reserve(r) \/ UnlockTarget(r) \/ UnlockOwn(r)
  <2>1. ASSUME NEW b \in Batch, Compute(r, b) PROVE UNCHANGED <<local, onSegment, hops, mem>>
    BY <2>1 DEF Compute, flushVars, segmentVars
  <2>2. UNCHANGED <<local, onSegment, hops, mem>>
    BY <1>3, <2>1 DEF ReturnResults, PushTmpResults, TryAlloc, AllocFailed, AllocReserve, AllocUnlock, SecondPass, LockOwn,
       WaitNotification, Select, Reserve, UnlockTarget, UnlockOwn, flushVars, segmentVars
  <2>. QED BY <1>2, <2>2
\* the segment changes, but none of the multimap lies on it
<1>4. CASE AllocWrite(r) \/ Purge(r)
  <2>1. hops[r] = {} /\ UNCHANGED <<local, onSegment, hops>>
    BY <1>0, <1>4 DEF AllocWrite, Purge, ControlOf, Serving, flushVars
  <2>2. onSegment[r] = {}
    BY <1>0, <2>1 DEF LocalOf
  <2>. QED BY <1>0, <2>1, <2>2 DEF LocalOf
<1>5. CASE Aggregate(r)
  <2>. DEFINE E == Elements(r)
              all == local[r] \cup E
  <2>1. /\ pc[r] = "wait" /\ local'[r] = all /\ onSegment'[r] = E /\ hops'[r] = {Hop(r, b) : b \in all} /\ mem' = mem
    BY <1>0, <1>5 DEF Aggregate, segmentVars
  <2>2. hops[r] = {} /\ onSegment[r] = {}
    BY <1>0, <2>1 DEF ControlOf, Serving, LocalOf
  <2>3. E \subseteq problem
    BY <1>0, TypeFacts DEF Elements
  <2>4. \A b \in E : \E i \in Room : mem[r][i] = b
    BY <1>0, <2>3, ElementsAreReserved
  <2>5. \A b \in all \ E : Owner[b] # r
    BY <1>0, <2>2 DEF LocalOf
  <2>6. ASSUME NEW t \in hops'[r] PROVE LocalFor(r, t)' # {}
    <3>1. PICK b \in all : t = Hop(r, b)
      BY <2>1, <2>6
    <3>2. Hop(r, b)' = Hop(r, b)
      BY DEF Hop
    <3>. QED BY <2>1, <3>1, <3>2 DEF LocalFor
  <2>7. \A b \in E : Hop(r, b)' \in hops'[r]
    BY <2>1 DEF Hop
  <2>. HIDE DEF E
  <2>. QED BY <2>1, <2>4, <2>5, <2>6, <2>7 DEF LocalOf
<1>6. CASE SubmitOwn(r)
  <2>. DEFINE mine == LocalFor(r, r)
  <2>1. /\ Target(r) = r /\ hops[r] # {} /\ mem' = mem
        /\ local'[r] = local[r] \ mine /\ onSegment'[r] = onSegment[r] \ mine /\ hops'[r] = hops[r] \ {r}
    BY <1>0, <1>6 DEF SubmitOwn, Served, segmentVars
  <2>2. \A b : Hop(r, b)' = Hop(r, b)
    BY DEF Hop
  <2>3. \A b \in local[r] : b \in mine <=> Hop(r, b) = r
    BY DEF LocalFor
  <2>4. ASSUME NEW t \in hops'[r] PROVE LocalFor(r, t)' # {}
    <3>1. t \in hops[r] /\ t # r
      BY <2>1, <2>4
    <3>2. PICK b \in local[r] : Hop(r, b) = t
      BY <1>0, <3>1 DEF LocalOf, LocalFor
    <3>3. b \in local'[r]
      BY <2>1, <2>3, <3>1, <3>2
    <3>. QED BY <2>2, <3>2, <3>3 DEF LocalFor
  <2>. HIDE DEF mine
  <2>5. \A b \in onSegment'[r] : Hop(r, b)' \in hops'[r] /\ \E i \in Room : mem'[r][i] = b
    BY <1>0, <2>1, <2>2, <2>3 DEF LocalOf
  <2>6. onSegment'[r] \subseteq local'[r] /\ \A b \in local'[r] \ onSegment'[r] : Owner[b] # r
    BY <1>0, <2>1 DEF LocalOf
  <2>. QED BY <2>4, <2>5, <2>6 DEF LocalOf
\* what cannot be sent is set aside, what is sent leaves
<1>7. ASSUME NEW t \in Rank, t # r, NEW S \in SUBSET LocalFor(r, t), local'[r] = local[r] \ S,
             onSegment'[r] = onSegment[r] \ LocalFor(r, t), hops'[r] = hops[r] \ {t}, mem' = mem
      PROVE  LocalOf(r)'
  <2>2. \A b : Hop(r, b)' = Hop(r, b)
    BY DEF Hop
  <2>3. \A b \in local[r] : b \in LocalFor(r, t) <=> Hop(r, b) = t
    BY DEF LocalFor
  <2>4. ASSUME NEW u \in hops'[r] PROVE LocalFor(r, u)' # {}
    <3>1. u \in hops[r] /\ u # t
      BY <1>7, <2>4
    <3>2. PICK b \in local[r] : Hop(r, b) = u
      BY <1>0, <3>1 DEF LocalOf, LocalFor
    <3>3. b \in local'[r]
      BY <1>7, <2>3, <3>1, <3>2
    <3>. QED BY <2>2, <3>2, <3>3 DEF LocalFor
  <2>5. \A b \in onSegment'[r] : Hop(r, b)' \in hops'[r] /\ \E i \in Room : mem'[r][i] = b
    BY <1>0, <1>7, <2>2, <2>3 DEF LocalOf
  <2>6. ASSUME NEW b \in local'[r] \ onSegment'[r] PROVE Owner[b] # r
    <3>1. b \in local[r] /\ b \in Batch
      BY <1>0, <1>7
    <3>2. CASE b \in onSegment[r]
      <4>1. Hop(r, b) = t
        BY <1>7, <2>3, <3>1, <3>2
      <4>. QED BY <1>7, <3>1, <4>1, OwnHop
    <3>3. CASE b \notin onSegment[r]
      BY <1>0, <3>1, <3>3 DEF LocalOf
    <3>. QED BY <3>2, <3>3
  <2>7. onSegment'[r] \subseteq local'[r]
    BY <1>0, <1>7 DEF LocalOf
  <2>. QED BY <2>4, <2>5, <2>6, <2>7 DEF LocalOf
<1>8. CASE TryLockTarget(r)
  <2>1. hops[r] # {} /\ Target(r) # r
    BY <1>8 DEF TryLockTarget
  <2>2. PICK t \in Rank : t = Target(r)
    BY <1>0, <2>1, TargetType
  <2>3. CASE state[t] = SEGMENT_AVAILABLE
    <3>1. UNCHANGED <<local, onSegment, hops, mem>>
      BY <1>8, <2>2, <2>3 DEF TryLockTarget, segmentVars
    <3>. QED BY <1>2, <3>1
  <2>4. CASE state[t] # SEGMENT_AVAILABLE
    <3>1. /\ local' = local /\ mem' = mem
          /\ onSegment' = [onSegment EXCEPT ![r] = onSegment[r] \ LocalFor(r, t)] /\ hops' = [hops EXCEPT ![r] = hops[r] \ {t}]
      BY <1>8, <2>2, <2>4 DEF TryLockTarget, SetAside, Served, segmentVars
    <3>2. /\ local'[r] = local[r] \ {} /\ {} \in SUBSET LocalFor(r, t)
          /\ onSegment'[r] = onSegment[r] \ LocalFor(r, t) /\ hops'[r] = hops[r] \ {t}
      BY <1>0, <3>1
    <3>. QED BY <1>7, <2>1, <2>2, <3>1, <3>2
  <2>. QED BY <2>3, <2>4
<1>9. CASE Write(r)
  <2>1. pc[r] = "write"
    BY <1>9 DEF Write
  <2>2. hops[r] # {} /\ Target(r) # r
    BY <1>0, <2>1 DEF ControlOf, Serving
  <2>3. PICK t \in Rank : t = Target(r)
    BY <1>0, <2>2, TargetType
  <2>4. selected[r] \in SUBSET LocalFor(r, t)
    BY <2>1, <2>3 DEF BaseInv, SeenInv, SeenOf
  <2>5. /\ local' = [local EXCEPT ![r] = local[r] \ selected[r]] /\ mem' = mem
        /\ onSegment' = [onSegment EXCEPT ![r] = onSegment[r] \ LocalFor(r, t)] /\ hops' = [hops EXCEPT ![r] = hops[r] \ {t}]
    BY <1>9, <2>3 DEF Write, SetAside, Served, segmentVars
  <2>6. /\ local'[r] = local[r] \ selected[r]
        /\ onSegment'[r] = onSegment[r] \ LocalFor(r, t) /\ hops'[r] = hops[r] \ {t}
    BY <1>0, <2>5
  <2>. QED BY <1>7, <2>2, <2>3, <2>4, <2>5, <2>6
<1>. QED BY <1>3, <1>4, <1>5, <1>6, <1>8, <1>9 DEF Return, Flush

LEMMA DeliverSpace ==
  ASSUME BaseInv, IdInv, SpaceInv, LocalInv, Deliver
  PROVE  SpaceInv' /\ LocalInv'
<1>0. /\ Types /\ WireTypes /\ problem \subseteq Batch
      /\ mem \in [Rank -> [Room -> problem \cup {Free}]] /\ head \in [Rank -> 0 .. SegmentSize - 1]
  BY TypesInGroups, TypeFacts DEF BaseInv, Room
<1>1. UNCHANGED <<problem, pc, ret, todo, tmp, state, head, count, local, onSegment, index, hops, seen, selected, submitted>>
  BY DEF Deliver, DataArrive, NotificationArrives, batchVars, flushVars, pushVars, segmentVars
<1>2. PICK m \in wire : DataArrive(m) \/ NotificationArrives(m)
  BY DEF Deliver
<1>3. m \in MessageType /\ WireType(m) /\ m.to \in Rank
  BY <1>0, <1>2 DEF WireTypes, MessageType
<1>4. \A t \in Rank : RankSpaces(t)' = RankSpaces(t)
  BY <1>1 DEF RankSpaces, RankSpace, Pending, PendingBatches, Target
<1>5. CASE NotificationArrives(m)
  <2>1. m.arrived /\ wire' = wire \ {m} /\ mem' = mem
    BY <1>5 DEF NotificationArrives, segmentVars
  <2>2. \A t \in Rank : WireSpaces(t)' = WireSpaces(t)
    BY <2>1 DEF WireSpaces, WireSpace
  <2>3. SpaceInv'
    BY <1>1, <1>4, <2>1, <2>2, SameRoom DEF SpaceInv, Rank
  <2>4. LocalInv'
    BY <1>1, <2>1 DEF LocalInv, LocalOf, LocalFor, Hop
  <2>. QED BY <2>3, <2>4
<1>6. CASE DataArrive(m)
  <2>. DEFINE n == [m EXCEPT !.arrived = TRUE]
              c == WireSpace(m)
  <2>0. PICK t \in Rank : t = m.to
    BY <1>3
  <2>. DEFINE w == Written(mem[t], m.batches, m.at)
  <2>1. /\ ~m.arrived /\ wire' = (wire \ {m}) \cup {n} /\ mem' = [mem EXCEPT ![t] = w]
    BY <1>6, <2>0 DEF DataArrive
  <2>2. n.arrived /\ n.to = m.to
    BY <1>3 DEF MessageType
  <2>. HIDE DEF n
  <2>3. c.at = m.at /\ c.n = SizeOf(m.batches) /\ m.batches \in SUBSET problem
    BY <1>3 DEF WireSpace, WireType
  <2>4. WireSpaces(t)' = WireSpaces(t) \ {c} /\ c \in WireSpaces(t) /\ c \notin RankSpaces(t)
    <3>1. WireSpaces(t)' = WireSpaces(t) \ {c} /\ c \in WireSpaces(t)
      BY <1>2, <2>0, <2>1, <2>2, SpacesDiffer DEF WireSpaces
    <3>. QED BY <3>1, SpacesDiffer DEF RankSpaces
  <2>5. SpaceOf(t) /\ mem'[t] = w /\ head'[t] = head[t]
    BY <1>0, <1>1, <2>1 DEF SpaceInv
  <2>. HIDE DEF c, w
  <2>6. /\ Tiles(((WireSpaces(t) \cup RankSpaces(t)) \ {c}) \cup ElementSpaces(w), 0, head[t])
        /\ \A i \in Room : w[i] = mem[t][i] \/ (mem[t][i] = Free /\ w[i] \in m.batches)
    <3>1. w = Written(mem[t], m.batches, c.at) /\ c \in WireSpaces(t) \cup RankSpaces(t)
      BY <2>3, <2>4 DEF w
    <3>. DEFINE B == m.batches
    <3>2. B \in SUBSET problem /\ c.n = SizeOf(B) /\ w = Written(mem[t], B, c.at)
      BY <2>3, <3>1
    <3>. HIDE DEF B
    <3>3. Tiles(((WireSpaces(t) \cup RankSpaces(t)) \ {c}) \cup ElementSpaces(w), 0, head[t]) /\ Placed(mem[t], B, w)
      BY <1>0, <2>5, <3>1, <3>2, RoomIsFilled
    <3>. QED BY <3>3 DEF B, Placed
  <2>7. SpaceOf(t)'
    <3>1. ElementSpaces(mem[t])' = ElementSpaces(w)
      BY <2>5 DEF ElementSpaces, ElementSpace
    <3>2. Space(t)' = ((WireSpaces(t) \cup RankSpaces(t)) \ {c}) \cup ElementSpaces(w)
      BY <1>4, <2>4, <3>1 DEF Space
    <3>. QED BY <2>5, <2>6, <3>2 DEF SpaceOf
  <2>8. ASSUME NEW o \in Rank \ {t} PROVE SpaceOf(o)' /\ mem'[o] = mem[o]
    <3>1. WireSpaces(o)' = WireSpaces(o)
      BY <2>0, <2>1, <2>2 DEF WireSpaces, WireSpace
    <3>2. mem'[o] = mem[o] /\ head'[o] = head[o] /\ SpaceOf(o)
      BY <1>0, <1>1, <2>1 DEF SpaceInv
    <3>. QED BY <1>4, <3>1, <3>2, SameRoom
  <2>9. LocalInv'
    <3>1. ASSUME NEW o \in Rank, NEW i \in Room, mem[o][i] # Free PROVE mem'[o][i] = mem[o][i]
      BY <2>5, <2>6, <2>8, <3>1
    <3>2. \A o \in Rank : \A b \in onSegment[o] : b # Free
      BY BatchAssumption, TypeFacts, <1>0 DEF Free
    <3>3. ASSUME NEW o \in Rank PROVE LocalOf(o)'
      <4>1. LocalOf(o)
        BY DEF LocalInv
      <4>2. \A b \in onSegment[o] : Hop(o, b)' = Hop(o, b) /\ \E i \in Room : mem'[o][i] = b
        BY <3>1, <3>2, <4>1 DEF LocalOf, Hop
      <4>. QED BY <1>1, <4>1, <4>2 DEF LocalOf, LocalFor, Hop
    <3>. QED BY <3>3 DEF LocalInv, Rank
  <2>. QED BY <2>7, <2>8, <2>9 DEF SpaceInv, Rank
<1>. QED BY <1>2, <1>5, <1>6

-----------------------------------------------------------------------------
(* The one who has a batch *)

OnPlace(b, r, i) == mem[r][i] = b /\ (Taken(r) => b \in onSegment[r])

TmpOf(b)    == {r \in Rank : tmp[r] = b}
WireOf(b)   == {m \in wire : ~ m.arrived /\ b \in m.batches}
PlacesOf(b) == {x \in Rank \X Room : OnPlace(b, x[1], x[2])}
LocalsOf(b) == {r \in Rank : b \in local[r] \ onSegment[r]}

\* A tmp segment, a message, a place of a segment, a multimap, the batches to compute or the owner's array
OneHolder(b) ==
  \/ /\ \E r \in Rank : TmpOf(b) = {r}
     /\ WireOf(b) = {} /\ PlacesOf(b) = {} /\ LocalsOf(b) = {} /\ b \notin todo /\ b \notin submitted
  \/ /\ \E m \in wire : WireOf(b) = {m}
     /\ TmpOf(b) = {} /\ PlacesOf(b) = {} /\ LocalsOf(b) = {} /\ b \notin todo /\ b \notin submitted
  \/ /\ \E r \in Rank, i \in Room : PlacesOf(b) = {<<r, i>>}
     /\ TmpOf(b) = {} /\ WireOf(b) = {} /\ LocalsOf(b) = {} /\ b \notin todo /\ b \notin submitted
  \/ /\ \E r \in Rank : LocalsOf(b) = {r}
     /\ TmpOf(b) = {} /\ WireOf(b) = {} /\ PlacesOf(b) = {} /\ b \notin todo /\ b \notin submitted
  \/ /\ b \in todo /\ b \notin submitted
     /\ TmpOf(b) = {} /\ WireOf(b) = {} /\ PlacesOf(b) = {} /\ LocalsOf(b) = {}
  \/ /\ b \in submitted /\ b \notin todo
     /\ TmpOf(b) = {} /\ WireOf(b) = {} /\ PlacesOf(b) = {} /\ LocalsOf(b) = {}

HolderInv == \A b \in problem : OneHolder(b)

\* Who has it alone.
LEMMA OnlyInTmp ==
  ASSUME NEW b, OneHolder(b), NEW r \in Rank, tmp[r] = b
  PROVE  /\ TmpOf(b) = {r} /\ WireOf(b) = {} /\ PlacesOf(b) = {} /\ LocalsOf(b) = {}
         /\ b \notin todo /\ b \notin submitted
<1>1. r \in TmpOf(b)
  BY DEF TmpOf
<1>. QED BY <1>1 DEF OneHolder

LEMMA OnlyOnWire ==
  ASSUME NEW b, OneHolder(b), NEW m \in wire, ~m.arrived, b \in m.batches
  PROVE  /\ WireOf(b) = {m} /\ TmpOf(b) = {} /\ PlacesOf(b) = {} /\ LocalsOf(b) = {}
         /\ b \notin todo /\ b \notin submitted
<1>1. m \in WireOf(b)
  BY DEF WireOf
<1>. QED BY <1>1 DEF OneHolder

LEMMA OnlyOnPlace ==
  ASSUME NEW b, OneHolder(b), NEW r \in Rank, NEW i \in Room, OnPlace(b, r, i)
  PROVE  /\ PlacesOf(b) = {<<r, i>>} /\ TmpOf(b) = {} /\ WireOf(b) = {} /\ LocalsOf(b) = {}
         /\ b \notin todo /\ b \notin submitted
<1>1. <<r, i>> \in PlacesOf(b)
  BY DEF PlacesOf
<1>. QED BY <1>1 DEF OneHolder

LEMMA OnlyInLocal ==
  ASSUME NEW b, OneHolder(b), NEW r \in Rank, b \in local[r] \ onSegment[r]
  PROVE  /\ LocalsOf(b) = {r} /\ TmpOf(b) = {} /\ WireOf(b) = {} /\ PlacesOf(b) = {}
         /\ b \notin todo /\ b \notin submitted
<1>1. r \in LocalsOf(b)
  BY DEF LocalsOf
<1>. QED BY <1>1 DEF OneHolder

LEMMA OnlyInTodo ==
  ASSUME NEW b, OneHolder(b), b \in todo
  PROVE  TmpOf(b) = {} /\ WireOf(b) = {} /\ PlacesOf(b) = {} /\ LocalsOf(b) = {} /\ b \notin submitted
BY DEF OneHolder

LEMMA OnlySubmitted ==
  ASSUME NEW b, OneHolder(b), b \in submitted
  PROVE  TmpOf(b) = {} /\ WireOf(b) = {} /\ PlacesOf(b) = {} /\ LocalsOf(b) = {} /\ b \notin todo
BY DEF OneHolder

\* A rank's multimap has a batch alone, in local memory or on its segment.
LEMMA OnlyInMultimap ==
  ASSUME Types, NEW b, OneHolder(b), NEW r \in Rank, LocalOf(r), b \in local[r]
  PROVE  /\ TmpOf(b) = {} /\ WireOf(b) = {} /\ b \notin todo /\ b \notin submitted
         /\ \/ b \notin onSegment[r] /\ LocalsOf(b) = {r} /\ PlacesOf(b) = {}
            \/ b \in onSegment[r] /\ LocalsOf(b) = {} /\ \E i \in Room : PlacesOf(b) = {<<r, i>>}
<1>1. CASE b \in onSegment[r]
  <2>1. PICK i \in Room : mem[r][i] = b
    BY <1>1 DEF LocalOf
  <2>2. OnPlace(b, r, i)
    BY <1>1, <2>1 DEF OnPlace
  <2>. QED BY <1>1, <2>2, OnlyOnPlace
<1>2. CASE b \notin onSegment[r]
  BY <1>2, OnlyInLocal
<1>. QED BY <1>1, <1>2

\* The holder of a batch that a step of r does not touch.
LEMMA SameHolder ==
  ASSUME Types, NEW r \in Rank, Return(r) \/ Flush(r), NEW b \in problem,
         tmp'[r] = b <=> tmp[r] = b, b \in todo' <=> b \in todo, b \in submitted' <=> b \in submitted
  PROVE  /\ TmpOf(b)' = TmpOf(b)
         /\ (\A i \in Room : OnPlace(b, r, i)' <=> OnPlace(b, r, i)) => PlacesOf(b)' = PlacesOf(b)
         /\ (b \in local'[r] \ onSegment'[r] <=> b \in local[r] \ onSegment[r]) => LocalsOf(b)' = LocalsOf(b)
<1>1. \A o \in Rank \ {r} : /\ tmp'[o] = tmp[o] /\ local'[o] = local[o] /\ onSegment'[o] = onSegment[o]
                            /\ mem'[o] = mem[o] /\ (Taken(o)' <=> Taken(o))
  BY OtherRanks, LowOfOthers
<1>2. TmpOf(b)' = TmpOf(b)
  BY <1>1 DEF TmpOf, Rank
<1>3. \A o \in Rank \ {r} : \A i : OnPlace(b, o, i)' <=> OnPlace(b, o, i)
  BY <1>1 DEF OnPlace
<1>4. ASSUME \A i \in Room : OnPlace(b, r, i)' <=> OnPlace(b, r, i) PROVE PlacesOf(b)' = PlacesOf(b)
  <2>1. \A o \in Rank : \A i \in Room : OnPlace(b, o, i)' <=> OnPlace(b, o, i)
    BY <1>3, <1>4
  <2>2. (Rank \X Room)' = Rank \X Room
    BY DEF Rank, Room
  <2>. QED BY <2>1, <2>2 DEF PlacesOf
<1>5. ASSUME b \in local'[r] \ onSegment'[r] <=> b \in local[r] \ onSegment[r] PROVE LocalsOf(b)' = LocalsOf(b)
  BY <1>1, <1>5 DEF LocalsOf, Rank
<1>. QED BY <1>2, <1>4, <1>5

LEMMA SameOneHolder ==
  ASSUME NEW b, OneHolder(b), TmpOf(b)' = TmpOf(b), WireOf(b)' = WireOf(b), PlacesOf(b)' = PlacesOf(b),
         LocalsOf(b)' = LocalsOf(b), b \in todo' <=> b \in todo, b \in submitted' <=> b \in submitted
  PROVE  OneHolder(b)'
<1>1. \A m : WireOf(b)' = {m} => m \in wire'
  BY DEF WireOf
<1>. QED BY <1>1 DEF OneHolder, Rank, Room

LEMMA QuietHolders ==
  ASSUME Types, HolderInv, NEW r \in Rank, Return(r) \/ Flush(r),
         UNCHANGED <<todo, tmp, submitted, wire, local, onSegment, mem>>, Taken(r)' <=> Taken(r)
  PROVE  HolderInv'
<1>. SUFFICES ASSUME NEW b \in problem PROVE OneHolder(b)'
  BY SameProblem DEF HolderInv
<1>1. \A i \in Room : OnPlace(b, r, i)' <=> OnPlace(b, r, i)
  BY DEF OnPlace
<1>2. TmpOf(b)' = TmpOf(b) /\ PlacesOf(b)' = PlacesOf(b) /\ LocalsOf(b)' = LocalsOf(b)
  BY <1>1, SameHolder
<1>3. WireOf(b)' = WireOf(b)
  BY DEF WireOf
<1>. QED BY <1>2, <1>3, SameOneHolder DEF HolderInv

\* A flush takes the batches S from its multimap into a message and sets the rest of those for t aside.
LEMMA AsideHolders ==
  ASSUME BaseInv, LocalInv, HolderInv, NEW r \in Rank, Return(r) \/ Flush(r), NEW B \in SUBSET local[r],
         NEW S \in SUBSET B, NEW m, ~m.arrived, m.batches = S,
         UNCHANGED <<todo, tmp, submitted, mem>>, Taken(r), Taken(r)',
         wire' = IF S = {} THEN wire ELSE wire \cup {m}, local'[r] = local[r] \ S, onSegment'[r] = onSegment[r] \ B
  PROVE  HolderInv'
<1>. SUFFICES ASSUME NEW b \in problem PROVE OneHolder(b)'
  BY SameProblem DEF HolderInv
<1>0. OneHolder(b) /\ Types /\ LocalOf(r)
  BY DEF HolderInv, BaseInv, LocalInv
<1>1. b \in onSegment'[r] <=> b \in onSegment[r] /\ b \notin B
  OBVIOUS
<1>2. TmpOf(b)' = TmpOf(b)
  BY <1>0, SameHolder
<1>3. CASE b \notin B
  <2>1. PlacesOf(b)' = PlacesOf(b) /\ LocalsOf(b)' = LocalsOf(b)
    <3>1. \A i \in Room : OnPlace(b, r, i)' <=> OnPlace(b, r, i)
      BY <1>1, <1>3 DEF OnPlace
    <3>2. b \in local'[r] \ onSegment'[r] <=> b \in local[r] \ onSegment[r]
      BY <1>1, <1>3
    <3>. QED BY <1>0, <3>1, <3>2, SameHolder
  <2>2. WireOf(b)' = WireOf(b)
    BY <1>3 DEF WireOf
  <2>. QED BY <1>0, <1>2, <2>1, <2>2, SameOneHolder
<1>4. CASE b \in B
  <2>1. /\ TmpOf(b) = {} /\ WireOf(b) = {} /\ b \notin todo /\ b \notin submitted
        /\ \A o \in Rank \ {r} : b \notin local[o] \ onSegment[o] /\ \A i \in Room : ~OnPlace(b, o, i)
    <3>1. /\ TmpOf(b) = {} /\ WireOf(b) = {} /\ b \notin todo /\ b \notin submitted
          /\ \/ LocalsOf(b) = {r} /\ PlacesOf(b) = {}
             \/ LocalsOf(b) = {} /\ \E i \in Room : PlacesOf(b) = {<<r, i>>}
      BY <1>0, <1>4, OnlyInMultimap
    <3>2. \A o \in Rank \ {r} : o \notin LocalsOf(b) /\ \A i \in Room : <<o, i>> \notin PlacesOf(b)
      BY <3>1
    <3>. QED BY <3>1, <3>2 DEF LocalsOf, PlacesOf
  <2>2. \A o \in Rank \ {r} : local'[o] = local[o] /\ onSegment'[o] = onSegment[o] /\ (Taken(o)' <=> Taken(o))
    BY <1>0, OtherRanks, LowOfOthers
  <2>3. PlacesOf(b)' = {}
    <3>1. \A i \in Room : ~OnPlace(b, r, i)'
      BY <1>1, <1>4 DEF OnPlace
    <3>2. ASSUME NEW o \in Rank, NEW i \in Room PROVE ~OnPlace(b, o, i)'
      BY <2>1, <2>2, <3>1 DEF OnPlace
    <3>. QED BY <3>2 DEF PlacesOf, Rank, Room
  <2>4. LocalsOf(b)' = {o \in {r} : b \notin S}
    <3>1. \A o \in Rank \ {r} : b \notin local'[o] \ onSegment'[o]
      BY <2>1, <2>2
    <3>2. b \in local'[r] \ onSegment'[r] <=> b \notin S
      BY <1>1, <1>4
    <3>. QED BY <3>1, <3>2 DEF LocalsOf, Rank
  <2>5. CASE b \in S
    <3>1. wire' = wire \cup {m}
      BY <2>5
    <3>2. WireOf(b)' = {m} /\ m \in wire'
      BY <2>1, <2>5, <3>1 DEF WireOf
    <3>3. LocalsOf(b)' = {}
      BY <2>4, <2>5
    <3>. QED BY <1>2, <2>1, <2>3, <3>2, <3>3 DEF OneHolder
  <2>6. CASE b \notin S
    <3>1. WireOf(b)' = {}
      BY <2>1, <2>6 DEF WireOf
    <3>2. LocalsOf(b)' = {r} /\ r \in Rank'
      BY <2>4, <2>6 DEF Rank
    <3>. QED BY <1>2, <2>1, <2>3, <3>1, <3>2 DEF OneHolder
  <2>. QED BY <2>5, <2>6
<1>. QED BY <1>3, <1>4

LEMMA HolderNext ==
  ASSUME BaseInv, IdInv, SpaceInv, LocalInv, HolderInv, NEW r \in Rank, Return(r) \/ Flush(r)
  PROVE  HolderInv'
<1>. USE DEF Goto
<1>0. /\ Types /\ ControlOf(r) /\ SeenOf(r) /\ LocalOf(r) /\ SpaceOf(r)
      /\ pc \in [Rank -> Step] /\ tmp \in [Rank -> problem \cup {NoBatch}] /\ problem \subseteq Batch
      /\ local \in [Rank -> SUBSET problem] /\ onSegment \in [Rank -> SUBSET Batch] /\ hops \in [Rank -> SUBSET Rank]
      /\ mem \in [Rank -> [Room -> problem \cup {Free}]] /\ problem' = problem
  BY TypeFacts, SameProblem DEF BaseInv, ControlInv, SeenInv, LocalInv, SpaceInv, Room
<1>n. NoBatch \notin problem /\ Free \notin problem
  BY <1>0, BatchAssumption DEF NoBatch, Free
<1>1. CASE UNCHANGED <<todo, tmp, submitted, wire, local, onSegment, mem>> /\ (Taken(r)' <=> Taken(r))
  BY <1>0, <1>1, QuietHolders
<1>2. CASE ReturnResults(r) \/ TryAlloc(r) \/ AllocFailed(r) \/ AllocReserve(r) \/ AllocUnlock(r) \/ SecondPass(r)
           \/ LockOwn(r) \/ WaitNotification(r) \/ Select(r) \/ Reserve(r) \/ UnlockTarget(r)
  <2>1. UNCHANGED <<todo, tmp, submitted, wire, local, onSegment, mem>>
    BY <1>2 DEF ReturnResults, TryAlloc, AllocFailed, AllocReserve, AllocUnlock, SecondPass, LockOwn, WaitNotification,
                Select, Reserve, UnlockTarget, batchVars, segmentVars, flushVars
  <2>2. Taken(r)' <=> Taken(r)
    BY <1>0, <1>2 DEF ReturnResults, TryAlloc, AllocFailed, AllocReserve, AllocUnlock, SecondPass, LockOwn, WaitNotification,
                Select, Reserve, UnlockTarget, Taken, Flushing
  <2>. QED BY <1>1, <2>1, <2>2
<1>3. ASSUME NEW c \in Batch, Compute(r, c) PROVE HolderInv'
  <2>1. /\ pc[r] = "idle" /\ tmp[r] = NoBatch /\ c \in todo /\ todo' = todo \ {c} /\ tmp' = [tmp EXCEPT ![r] = c]
        /\ UNCHANGED <<pc, submitted, wire, local, onSegment, mem>>
    BY <1>3 DEF Compute, segmentVars, flushVars
  <2>2. ASSUME NEW b \in problem PROVE OneHolder(b)'
    <3>1. OneHolder(b) /\ UNCHANGED <<WireOf(b), PlacesOf(b), LocalsOf(b)>>
      BY <2>1 DEF HolderInv, WireOf, PlacesOf, LocalsOf, OnPlace, Taken, Flushing, Rank, Room
    <3>2. \A o \in Rank \ {r} : tmp'[o] = tmp[o]
      BY <1>0, <2>1
    <3>3. CASE b = c
      <4>1. TmpOf(b) = {} /\ WireOf(b) = {} /\ PlacesOf(b) = {} /\ LocalsOf(b) = {} /\ b \notin submitted
        BY <2>1, <3>1, <3>3, OnlyInTodo
      <4>2. TmpOf(b)' = {r}
        <5>1. tmp'[r] = b
          BY <1>0, <2>1, <3>3
        <5>2. \A o \in Rank \ {r} : tmp'[o] # b
          BY <3>2, <4>1 DEF TmpOf
        <5>. QED BY <5>1, <5>2 DEF TmpOf, Rank
      <4>3. r \in Rank' /\ b \notin todo'
        BY <2>1, <3>3 DEF Rank
      <4>. QED BY <2>1, <3>1, <4>1, <4>2, <4>3 DEF OneHolder
    <3>4. CASE b # c
      <4>1. tmp'[r] # b /\ tmp[r] # b
        BY <1>0, <1>n, <2>1, <3>4
      <4>2. TmpOf(b)' = TmpOf(b)
        BY <3>2, <4>1 DEF TmpOf, Rank
      <4>. QED BY <2>1, <3>1, <3>4, <4>2, SameOneHolder
    <3>. QED BY <3>3, <3>4
  <2>. QED BY <1>0, <2>2 DEF HolderInv
<1>4. CASE PushTmpResults(r)
  <2>0. /\ pc[r] = "push_tmp" /\ pc'[r] \in {"idle", "second_pass", "alloc"}
        /\ UNCHANGED <<todo, wire, local, onSegment, mem>>
    BY <1>0, <1>4 DEF PushTmpResults, segmentVars, flushVars
  <2>1. ~Taken(r)' /\ ~Taken(r)
    BY <2>0 DEF Taken, Flushing
  <2>2. CASE UNCHANGED <<tmp, submitted>>
    BY <1>1, <2>0, <2>1, <2>2
  <2>3. CASE tmp[r] # NoBatch /\ submitted' = submitted \cup {tmp[r]} /\ tmp' = [tmp EXCEPT ![r] = NoBatch]
    <3>1. ASSUME NEW b \in problem PROVE OneHolder(b)'
      <4>1. OneHolder(b) /\ UNCHANGED <<WireOf(b), LocalsOf(b)>>
        BY <2>0 DEF HolderInv, WireOf, LocalsOf, Rank
      <4>2. \A o \in Rank \ {r} : tmp'[o] = tmp[o] /\ (Taken(o)' <=> Taken(o))
        BY <1>0, OtherRanks, LowOfOthers
      <4>3. PlacesOf(b)' = PlacesOf(b)
        <5>1. \A o \in Rank, i \in Room : OnPlace(b, o, i)' <=> OnPlace(b, o, i)
          BY <2>0, <2>1, <4>2 DEF OnPlace
        <5>. QED BY <5>1 DEF PlacesOf, Rank, Room
      <4>4. tmp'[r] # b
        BY <1>0, <1>n, <2>3
      <4>5. CASE b = tmp[r]
        <5>1. /\ TmpOf(b) = {r} /\ WireOf(b) = {} /\ PlacesOf(b) = {} /\ LocalsOf(b) = {} /\ b \notin todo
          BY <4>1, <4>5, OnlyInTmp
        <5>2. TmpOf(b)' = {}
          BY <4>2, <4>4, <5>1 DEF TmpOf, Rank
        <5>3. b \in submitted'
          BY <2>3, <4>5
        <5>. QED BY <2>0, <4>1, <4>3, <5>1, <5>2, <5>3 DEF OneHolder
      <4>6. CASE b # tmp[r]
        <5>1. TmpOf(b)' = TmpOf(b)
          BY <4>2, <4>4, <4>6 DEF TmpOf, Rank
        <5>. QED BY <2>0, <2>3, <4>1, <4>3, <4>6, <5>1, SameOneHolder
      <4>. QED BY <4>5, <4>6
    <3>. QED BY <1>0, <3>1 DEF HolderInv
  <2>. QED BY <1>4, <2>2, <2>3 DEF PushTmpResults
<1>5. CASE AllocWrite(r)
  <2>. DEFINE c == RankSpace(r)
              a == tmp[r]
              w == Written(mem[r], {a}, seen[r].head)
              m == [Message(r, {a}, seen[r]) EXCEPT !.arrived = TRUE]
  <2>1. /\ pc[r] = "alloc_write" /\ pc'[r] = "second_pass" /\ wire' = wire \cup {m}
        /\ mem' = [mem EXCEPT ![r] = w] /\ tmp' = [tmp EXCEPT ![r] = NoBatch]
        /\ UNCHANGED <<todo, submitted, local, onSegment>>
    BY <1>0, <1>5 DEF AllocWrite, flushVars
  <2>2. a \in problem
    BY <1>0, <2>1 DEF ControlOf, Allocating
  <2>3. m.arrived = TRUE
    <3>1. m = [to |-> r, batches |-> {a}, at |-> seen[r].head, id |-> seen[r].count, arrived |-> TRUE]
      BY ArrivedMessage
    <3>. QED BY <3>1
  <2>4. /\ \E i \in Room : w[i] = a /\ mem[r][i] = Free /\ \A j \in Room : w[j] = a /\ mem[r][j] = Free => j = i
        /\ \A i \in Room : w[i] = mem[r][i] \/ (mem[r][i] = Free /\ w[i] = a)
    <3>1. c.at = seen[r].head /\ c.n = SizeOf({a}) /\ {a} \in SUBSET problem /\ c \in RankSpaces(r)
      BY <2>1, <2>2 DEF RankSpace, PendingBatches, RankSpaces, Pending
    <3>. DEFINE B == {a}
    <3>2. B \in SUBSET problem /\ c.n = SizeOf(B) /\ c \in WireSpaces(r) \cup RankSpaces(r) /\ w = Written(mem[r], B, c.at)
      BY <3>1
    <3>. HIDE DEF w, c, B
    <3>4. Placed(mem[r], B, w)
      BY <1>0, <3>2, RoomIsFilled
    <3>. QED BY <3>4 DEF B, Placed
  <2>. HIDE DEF m, w, c
  <2>5. ~Taken(r) /\ ~Taken(r)' /\ mem'[r] = w /\ tmp'[r] = NoBatch
    BY <1>0, <2>1 DEF Taken, Flushing
  <2>6. \A o \in Rank \ {r} : tmp'[o] = tmp[o] /\ mem'[o] = mem[o] /\ (Taken(o)' <=> Taken(o))
    BY <1>0, OtherRanks, LowOfOthers
  <2>7. ASSUME NEW b \in problem PROVE OneHolder(b)'
    <3>1. OneHolder(b) /\ UNCHANGED <<WireOf(b), LocalsOf(b)>> /\ b # NoBatch /\ b # Free
      BY <1>n, <2>1, <2>3 DEF HolderInv, WireOf, LocalsOf, Rank
    <3>2. \A o \in Rank \ {r}, i \in Room : OnPlace(b, o, i)' <=> OnPlace(b, o, i)
      BY <2>1, <2>6 DEF OnPlace
    <3>3. CASE b = a
      <4>1. /\ TmpOf(b) = {r} /\ WireOf(b) = {} /\ PlacesOf(b) = {} /\ LocalsOf(b) = {}
            /\ b \notin todo /\ b \notin submitted
        BY <3>1, <3>3, OnlyInTmp
      <4>2. TmpOf(b)' = {}
        BY <2>5, <2>6, <3>1, <4>1 DEF TmpOf, Rank
      <4>3. \A o \in Rank, i \in Room : ~OnPlace(b, o, i)
        <5>1. \A o \in Rank, i \in Room : <<o, i>> \notin PlacesOf(b)
          BY <4>1
        <5>. QED BY <5>1 DEF PlacesOf
      <4>4. \E i \in Room : PlacesOf(b)' = {<<r, i>>}
        <5>1. PICK i \in Room : w[i] = a /\ mem[r][i] = Free /\ \A j \in Room : w[j] = a /\ mem[r][j] = Free => j = i
          BY <2>4
        <5>2. \A j \in Room : mem[r][j] # b
          BY <2>5, <4>3 DEF OnPlace
        <5>3. \A j \in Room : OnPlace(b, r, j)' <=> j = i
          BY <2>4, <2>5, <3>3, <5>1, <5>2 DEF OnPlace
        <5>4. \A o \in Rank, j \in Room : OnPlace(b, o, j)' <=> o = r /\ j = i
          BY <3>2, <4>3, <5>3
        <5>5. PlacesOf(b)' = {x \in Rank \X Room : x[1] = r /\ x[2] = i}
          BY <5>4 DEF PlacesOf, Rank, Room
        <5>. QED BY <5>5
      <4>5. r \in Rank' /\ Room' = Room
        BY DEF Rank, Room
      <4>. QED BY <2>1, <3>1, <4>1, <4>2, <4>4, <4>5 DEF OneHolder
    <3>4. CASE b # a
      <4>1. TmpOf(b)' = TmpOf(b)
        BY <2>5, <2>6, <3>1, <3>4 DEF TmpOf, Rank
      <4>2. \A i \in Room : OnPlace(b, r, i)' <=> OnPlace(b, r, i)
        BY <2>4, <2>5, <3>1, <3>4 DEF OnPlace
      <4>3. PlacesOf(b)' = PlacesOf(b)
        BY <3>2, <4>2 DEF PlacesOf, Rank, Room
      <4>. QED BY <2>1, <3>1, <4>1, <4>3, SameOneHolder
    <3>. QED BY <3>3, <3>4
  <2>. QED BY <1>0, <2>7 DEF HolderInv
<1>6. CASE Aggregate(r)
  <2>1. /\ pc[r] = "wait" /\ pc'[r] = "push" /\ local'[r] = local[r] \cup Elements(r) /\ onSegment'[r] = Elements(r)
        /\ UNCHANGED <<todo, tmp, submitted, wire, mem>>
    BY <1>0, <1>6 DEF Aggregate, batchVars, segmentVars
  <2>2. onSegment[r] = {} /\ ~Taken(r)
    BY <1>0, <2>1 DEF ControlOf, Serving, LocalOf, Taken
  <2>3. ASSUME NEW b \in problem PROVE OneHolder(b)'
    <3>1. OneHolder(b) /\ WireOf(b)' = WireOf(b) /\ (b \in Elements(r) <=> \E i \in Room : mem[r][i] = b)
      BY <1>0, <2>1, ElementsAreReserved DEF HolderInv, WireOf
    <3>2. \A i \in Room : OnPlace(b, r, i)' <=> OnPlace(b, r, i)
      BY <2>1, <2>2, <3>1 DEF OnPlace
    <3>3. b \in local[r] => b \notin Elements(r)
      <4>1. SUFFICES ASSUME b \in local[r], NEW i \in Room, mem[r][i] = b PROVE FALSE
        BY <3>1
      <4>2. OnPlace(b, r, i)
        BY <2>2, <4>1 DEF OnPlace
      <4>3. LocalsOf(b) = {} /\ LocalsOf(b) = {r}
        BY <2>2, <3>1, <4>1, <4>2, OnlyOnPlace, OnlyInLocal
      <4>. QED BY <4>3
    <3>4. b \in local'[r] \ onSegment'[r] <=> b \in local[r] \ onSegment[r]
      BY <2>1, <2>2, <3>3
    <3>5. TmpOf(b)' = TmpOf(b) /\ PlacesOf(b)' = PlacesOf(b) /\ LocalsOf(b)' = LocalsOf(b)
      BY <1>0, <2>1, <3>2, <3>4, SameHolder
    <3>. QED BY <2>1, <3>1, <3>5, SameOneHolder
  <2>. QED BY <1>0, <2>3 DEF HolderInv
<1>7. CASE SubmitOwn(r)
  <2>. DEFINE mine == LocalFor(r, r)
  <2>1. /\ pc[r] = "push" /\ pc'[r] = "push" /\ local'[r] = local[r] \ mine /\ onSegment'[r] = onSegment[r] \ mine
        /\ submitted' = submitted \cup mine
        /\ UNCHANGED <<todo, tmp, wire, mem>>
    BY <1>0, <1>7 DEF SubmitOwn, batchVars, segmentVars
  <2>2. mine \subseteq onSegment[r]
    <3>1. SUFFICES ASSUME NEW b \in mine, b \notin onSegment[r] PROVE FALSE
      OBVIOUS
    <3>2. b \in local[r] /\ Hop(r, b) = r /\ b \in Batch
      BY <1>0 DEF LocalFor
    <3>3. Owner[b] # r
      BY <1>0, <3>1, <3>2 DEF LocalOf
    <3>. QED BY <3>2, <3>3, OwnHop
  <2>3. mine \subseteq local[r]
    BY DEF LocalFor
  <2>. HIDE DEF mine
  <2>4. Taken(r) /\ Taken(r)'
    BY <2>1 DEF Taken, Flushing
  <2>5. ASSUME NEW b \in problem PROVE OneHolder(b)'
    <3>1. OneHolder(b) /\ WireOf(b)' = WireOf(b)
      BY <2>1 DEF HolderInv, WireOf
    <3>2. CASE b \notin mine
      <4>1. \A i \in Room : OnPlace(b, r, i)' <=> OnPlace(b, r, i)
        BY <2>1, <2>4, <3>2 DEF OnPlace
      <4>2. b \in local'[r] \ onSegment'[r] <=> b \in local[r] \ onSegment[r]
        BY <2>1, <3>2
      <4>3. TmpOf(b)' = TmpOf(b) /\ PlacesOf(b)' = PlacesOf(b) /\ LocalsOf(b)' = LocalsOf(b)
        BY <1>0, <2>1, <3>2, <4>1, <4>2, SameHolder
      <4>. QED BY <2>1, <3>1, <3>2, <4>3, SameOneHolder
    <3>3. CASE b \in mine
      <4>1. PICK i \in Room : PlacesOf(b) = {<<r, i>>} /\ TmpOf(b) = {} /\ WireOf(b) = {} /\ LocalsOf(b) = {} /\ b \notin todo
        BY <1>0, <2>2, <2>3, <3>1, <3>3, OnlyInMultimap
      <4>2. TmpOf(b)' = {}
        BY <2>1, <4>1 DEF TmpOf, Rank
      <4>3. \A o \in Rank \ {r} : local'[o] = local[o] /\ onSegment'[o] = onSegment[o] /\ (Taken(o)' <=> Taken(o))
        BY <1>0, OtherRanks, LowOfOthers
      <4>4. LocalsOf(b)' = {}
        BY <2>1, <3>3, <4>1, <4>3 DEF LocalsOf, Rank
      <4>5. PlacesOf(b)' = {}
        <5>1. \A o \in Rank \ {r} : \A j \in Room : <<o, j>> \notin PlacesOf(b)
          BY <4>1
        <5>2. \A o \in Rank \ {r} : \A j \in Room : ~OnPlace(b, o, j)
          BY <5>1 DEF PlacesOf
        <5>3. \A j \in Room : ~OnPlace(b, r, j)'
          BY <2>1, <2>4, <3>3 DEF OnPlace
        <5>4. \A o \in Rank \ {r} : \A j \in Room : ~OnPlace(b, o, j)'
          BY <2>1, <4>3, <5>2 DEF OnPlace
        <5>. QED BY <5>3, <5>4 DEF PlacesOf, Rank, Room
      <4>6. b \in submitted'
        BY <2>1, <3>3
      <4>. QED BY <2>1, <3>1, <4>1, <4>2, <4>4, <4>5, <4>6 DEF OneHolder
    <3>. QED BY <3>2, <3>3
  <2>. QED BY <1>0, <2>5 DEF HolderInv
<1>8. CASE TryLockTarget(r)
  <2>1. /\ pc[r] = "push" /\ pc'[r] \in {"push", "select"}
        /\ UNCHANGED <<todo, tmp, submitted, wire, local, mem>>
        /\ onSegment' = onSegment \/ onSegment' = [onSegment EXCEPT ![r] = onSegment[r] \ LocalFor(r, Target(r))]
    BY <1>0, <1>8 DEF TryLockTarget, SetAside, batchVars, segmentVars
  <2>2. Taken(r) /\ Taken(r)'
    BY <2>1 DEF Taken, Flushing
  <2>3. CASE onSegment' = onSegment
    BY <1>1, <2>1, <2>2, <2>3
  <2>4. CASE onSegment' = [onSegment EXCEPT ![r] = onSegment[r] \ LocalFor(r, Target(r))]
    <3>. DEFINE B == LocalFor(r, Target(r))
    <3>1. B \in SUBSET local[r] /\ local'[r] = local[r] \ {} /\ {} \in SUBSET B /\ onSegment'[r] = onSegment[r] \ B
      BY <1>0, <2>1, <2>4 DEF LocalFor
    <3>. HIDE DEF B
    <3>2. PICK m : m = Message(r, {}, seen[r])
      OBVIOUS
    <3>3. ~m.arrived /\ m.batches = {}
      BY <3>2 DEF Message
    <3>4. wire' = IF {} = {} THEN wire ELSE wire \cup {m}
      BY <2>1
    <3>. QED BY <2>1, <2>2, <3>1, <3>3, <3>4, AsideHolders
  <2>. QED BY <2>1, <2>3, <2>4
<1>9. CASE Write(r)
  <2>. DEFINE B == LocalFor(r, Target(r))
              S == selected[r]
              m == Message(Target(r), S, seen[r])
  <2>1. /\ pc[r] = "write" /\ pc'[r] = "push" /\ wire' = IF S = {} THEN wire ELSE wire \cup {m}
        /\ local'[r] = local[r] \ S /\ onSegment'[r] = onSegment[r] \ B
        /\ UNCHANGED <<todo, tmp, submitted, mem>>
    BY <1>0, <1>9 DEF Write, SetAside, batchVars, segmentVars
  <2>2. Taken(r) /\ Taken(r)' /\ S \in SUBSET B /\ B \in SUBSET local[r]
    BY <1>0, <2>1 DEF Taken, Flushing, SeenOf, LocalFor
  <2>3. ~m.arrived /\ m.batches = S
    BY DEF Message
  <2>. HIDE DEF m, S, B
  <2>. QED BY <2>1, <2>2, <2>3, AsideHolders
<1>10. CASE Purge(r)
  <2>1. /\ pc[r] = "push" /\ pc'[r] = "unlock_own" /\ hops[r] = {}
        /\ UNCHANGED <<todo, tmp, submitted, wire, local, onSegment>>
    BY <1>0, <1>10 DEF Purge, batchVars, flushVars
  <2>2. Taken(r) /\ Taken(r)' /\ onSegment[r] = {}
    BY <1>0, <2>1 DEF Taken, Flushing, LocalOf
  <2>3. ASSUME NEW b \in problem PROVE OneHolder(b)'
    <3>1. OneHolder(b) /\ WireOf(b)' = WireOf(b)
      BY <2>1 DEF HolderInv, WireOf
    <3>2. \A i \in Room : OnPlace(b, r, i)' <=> OnPlace(b, r, i)
      BY <2>1, <2>2 DEF OnPlace
    <3>3. TmpOf(b)' = TmpOf(b) /\ PlacesOf(b)' = PlacesOf(b) /\ LocalsOf(b)' = LocalsOf(b)
      BY <1>0, <2>1, <3>2, SameHolder
    <3>. QED BY <2>1, <3>1, <3>3, SameOneHolder
  <2>. QED BY <1>0, <2>3 DEF HolderInv
<1>11. CASE UnlockOwn(r)
  <2>1. /\ pc[r] = "unlock_own" /\ UNCHANGED <<todo, tmp, submitted, wire, local, onSegment, mem>>
    BY <1>0, <1>11 DEF UnlockOwn, batchVars, segmentVars, flushVars
  <2>2. \A i \in Room : mem[r][i] = Free
    <3>1. head[r] = 0
      BY <1>0, <2>1 DEF SeenOf
    <3>2. \A i \in Room : mem[r][i] # Free => i < head[r]
      BY <1>0, ElementsAreReserved
    <3>3. \A i \in Room : i \in Nat
      BY DEF Room
    <3>. QED BY <3>1, <3>2, <3>3
  <2>3. ASSUME NEW b \in problem PROVE OneHolder(b)'
    <3>1. OneHolder(b) /\ WireOf(b)' = WireOf(b)
      BY <2>1 DEF HolderInv, WireOf
    <3>2. \A i \in Room : OnPlace(b, r, i)' <=> OnPlace(b, r, i)
      BY <1>n, <2>1, <2>2 DEF OnPlace
    <3>3. TmpOf(b)' = TmpOf(b) /\ PlacesOf(b)' = PlacesOf(b) /\ LocalsOf(b)' = LocalsOf(b)
      BY <1>0, <2>1, <3>2, SameHolder
    <3>. QED BY <2>1, <3>1, <3>3, SameOneHolder
  <2>. QED BY <1>0, <2>3 DEF HolderInv
<1>. QED BY <1>2, <1>3, <1>4, <1>5, <1>6, <1>7, <1>8, <1>9, <1>10, <1>11 DEF Return, Flush

LEMMA DeliverHolder ==
  ASSUME BaseInv, IdInv, SpaceInv, HolderInv, Deliver
  PROVE  HolderInv'
<1>0. /\ Types /\ WireTypes /\ mem \in [Rank -> [Room -> problem \cup {Free}]]
  BY TypesInGroups, TypeFacts DEF BaseInv, Room
<1>1. UNCHANGED <<problem, pc, todo, tmp, local, onSegment, submitted>>
  BY DEF Deliver, DataArrive, NotificationArrives, batchVars, flushVars
<1>2. PICK m \in wire : DataArrive(m) \/ NotificationArrives(m)
  BY DEF Deliver
<1>3. m \in MessageType /\ WireType(m)
  BY <1>0, <1>2 DEF WireTypes
<1>4. ASSUME NEW b \in problem PROVE OneHolder(b) /\ UNCHANGED <<TmpOf(b), LocalsOf(b)>> /\ b # Free
  BY <1>1, TypeFacts, <1>0, BatchAssumption DEF HolderInv, TmpOf, LocalsOf, Rank, Free
<1>5. \A o \in Rank : Taken(o)' <=> Taken(o)
  BY <1>1 DEF Taken, Flushing
<1>6. CASE NotificationArrives(m)
  <2>1. m.arrived /\ wire' = wire \ {m} /\ mem' = mem
    BY <1>6 DEF NotificationArrives, segmentVars
  <2>2. ASSUME NEW b \in problem PROVE OneHolder(b)'
    <3>1. WireOf(b)' = WireOf(b)
      BY <2>1 DEF WireOf
    <3>2. PlacesOf(b)' = PlacesOf(b)
      BY <1>1, <1>5, <2>1 DEF PlacesOf, OnPlace, Rank, Room
    <3>. QED BY <1>1, <1>4, <3>1, <3>2, SameOneHolder
  <2>. QED BY <1>1, <2>2 DEF HolderInv
<1>7. CASE DataArrive(m)
  <2>. DEFINE n == [m EXCEPT !.arrived = TRUE]
              c == WireSpace(m)
  <2>0. PICK t \in Rank : t = m.to
    BY <1>3 DEF MessageType
  <2>. DEFINE B == m.batches
              w == Written(mem[t], B, m.at)
  <2>1. /\ ~m.arrived /\ wire' = (wire \ {m}) \cup {n} /\ mem' = [mem EXCEPT ![t] = w]
    BY <1>7, <2>0 DEF DataArrive
  <2>2. n.arrived
    BY <1>3 DEF MessageType
  <2>. HIDE DEF n
  <2>3. B \in SUBSET problem /\ c.n = SizeOf(B) /\ w = Written(mem[t], B, c.at)
    BY <1>3 DEF WireSpace, WireType
  <2>4. c \in WireSpaces(t) \cup RankSpaces(t) /\ SpaceOf(t)
    BY <1>2, <2>0, <2>1 DEF WireSpaces, SpaceInv
  <2>5. mem'[t] = w /\ \A o \in Rank \ {t} : mem'[o] = mem[o]
    BY <1>0, <2>1
  <2>6. ~Taken(t) /\ ~Taken(t)'
    BY <1>2, <1>5, <2>0, TakenIsSettled
  <2>7. \A b : b \in B <=> b \in m.batches
    OBVIOUS
  <2>. HIDE DEF w, c, B
  <2>8. Placed(mem[t], B, w)
    BY <1>0, <2>3, <2>4, RoomIsFilled
  <2>9. ASSUME NEW b \in problem PROVE OneHolder(b)'
    <3>1. \A o \in Rank \ {t}, i \in Room : OnPlace(b, o, i)' <=> OnPlace(b, o, i)
      BY <1>1, <1>5, <2>5 DEF OnPlace
    <3>2. CASE b \in B
      <4>1. WireOf(b) = {m} /\ TmpOf(b) = {} /\ PlacesOf(b) = {} /\ LocalsOf(b) = {} /\ b \notin todo /\ b \notin submitted
        BY <1>2, <1>4, <2>1, <2>7, <3>2, OnlyOnWire
      <4>2. WireOf(b)' = {}
        <5>1. \A x \in wire : x # m => x.arrived \/ b \notin x.batches
          BY <4>1 DEF WireOf
        <5>. QED BY <2>1, <2>2, <5>1 DEF WireOf
      <4>3. \A o \in Rank, i \in Room : ~OnPlace(b, o, i)
        <5>1. \A o \in Rank, i \in Room : <<o, i>> \notin PlacesOf(b)
          BY <4>1
        <5>. QED BY <5>1 DEF PlacesOf
      <4>4. \E i \in Room : PlacesOf(b)' = {<<t, i>>}
        <5>1. PICK i \in Room : w[i] = b /\ mem[t][i] = Free /\ \A j \in Room : w[j] = b /\ mem[t][j] = Free => j = i
          BY <2>8, <3>2 DEF Placed
        <5>2. \A j \in Room : mem[t][j] # b
          BY <2>6, <4>3 DEF OnPlace
        <5>3. \A j \in Room : OnPlace(b, t, j)' <=> j = i
          BY <2>5, <2>6, <2>8, <5>1, <5>2 DEF OnPlace, Placed
        <5>4. \A o \in Rank, j \in Room : OnPlace(b, o, j)' <=> o = t /\ j = i
          BY <3>1, <4>3, <5>3
        <5>5. PlacesOf(b)' = {x \in Rank \X Room : x[1] = t /\ x[2] = i}
          BY <5>4 DEF PlacesOf, Rank, Room
        <5>. QED BY <5>5
      <4>5. t \in Rank' /\ Room' = Room
        BY DEF Rank, Room
      <4>. QED BY <1>1, <1>4, <4>1, <4>2, <4>4, <4>5 DEF OneHolder
    <3>3. CASE b \notin B
      <4>1. WireOf(b)' = WireOf(b)
        <5>1. n.arrived /\ b \notin m.batches
          BY <2>2, <2>7, <3>3
        <5>. QED BY <2>1, <5>1 DEF WireOf
      <4>2. \A i \in Room : OnPlace(b, t, i)' <=> OnPlace(b, t, i)
        BY <1>4, <2>5, <2>6, <2>8, <3>3 DEF OnPlace, Placed
      <4>3. PlacesOf(b)' = PlacesOf(b)
        BY <3>1, <4>2 DEF PlacesOf, Rank, Room
      <4>. QED BY <1>1, <1>4, <4>1, <4>3, SameOneHolder
    <3>. QED BY <3>2, <3>3
  <2>. QED BY <1>1, <2>9 DEF HolderInv
<1>. QED BY <1>2, <1>6, <1>7

-----------------------------------------------------------------------------
(* The number of elements *)

\* The batches for which there is room on t: its elements, and those that are under way to it.
Coming(t, b) ==
  \/ \E i \in Room : mem[t][i] = b
  \/ \E m \in wire : m.to = t /\ ~ m.arrived /\ b \in m.batches
  \/ \E r \in Rank : Pending(r, t) /\ b \in PendingBatches(r)

Bound(t) == {b \in problem : Coming(t, b)}

NumberInv == \A t \in Rank : Cardinality(Bound(t)) = count[t]

LEMMA SpaceInit == Init => SpaceInv /\ LocalInv /\ HolderInv /\ NumberInv
<1>. SUFFICES ASSUME Init PROVE SpaceInv /\ LocalInv /\ HolderInv /\ NumberInv
  OBVIOUS
<1>0. problem \subseteq Batch /\ Batch \subseteq Nat /\ \A t \in Rank, i \in Room : mem[t][i] = Free
  BY BatchAssumption DEF Init, EmptySegment, Room
<1>1. ASSUME NEW t \in Rank PROVE SpaceOf(t) /\ LocalOf(t)
  <2>1. \A r \in Rank : ~Pending(r, t)
    BY DEF Init, Pending
  <2>2. WireSpaces(t) = {} /\ RankSpaces(t) = {} /\ ElementSpaces(mem[t]) = {}
    BY <1>0, <2>1 DEF Init, WireSpaces, RankSpaces, ElementSpaces, Room
  <2>3. head[t] = 0 /\ local[t] = {} /\ onSegment[t] = {} /\ hops[t] = {}
    BY DEF Init
  <2>. QED BY <2>2, <2>3 DEF SpaceOf, Space, Tiles, LocalOf
<1>2. ASSUME NEW t \in Rank PROVE Cardinality(Bound(t)) = count[t]
  <2>1. \A r \in Rank : ~Pending(r, t)
    BY DEF Init, Pending
  <2>2. Bound(t) = {}
    BY <1>0, <2>1 DEF Bound, Coming, Init, Free
  <2>. QED BY <2>2, SizeOfNone DEF Init
<1>3. ASSUME NEW b \in problem PROVE OneHolder(b)
  <2>1. b \in todo /\ b \notin submitted /\ b # NoBatch /\ b # Free
    BY <1>0 DEF Init, NoBatch, Free
  <2>2. TmpOf(b) = {} /\ WireOf(b) = {} /\ LocalsOf(b) = {}
    BY <2>1 DEF Init, TmpOf, WireOf, LocalsOf
  <2>3. PlacesOf(b) = {}
    BY <1>0, <2>1 DEF PlacesOf, OnPlace
  <2>. QED BY <2>1, <2>2, <2>3 DEF OneHolder
<1>. QED BY <1>1, <1>2, <1>3 DEF SpaceInv, LocalInv, NumberInv, HolderInv

\* What is still with a rank has no room elsewhere.
LEMMA NoRoomYet ==
  ASSUME BaseInv, IdInv, LocalInv, HolderInv, NEW r \in Rank, NEW t \in Rank, ~Taken(t), NEW b \in problem,
         \/ b \in local[r] /\ t # r /\ ~ \E u \in Rank : Pending(r, u)
         \/ b = tmp[r] /\ ~ \E u \in Rank : Pending(r, u)
  PROVE  b \notin Bound(t)
<1>0. Types /\ OneHolder(b) /\ (\A o \in Rank : LocalOf(o)) /\ b # NoBatch
  BY TypeFacts, BatchAssumption DEF BaseInv, HolderInv, LocalInv, NoBatch
<1>1. /\ WireOf(b) = {} /\ TmpOf(b) \subseteq {r}
      /\ \A o \in Rank \ {r} : b \notin local[o]
      /\ \A i \in Room : mem[t][i] # b
  <2>1. CASE b \in local[r] /\ t # r
    <3>1. /\ TmpOf(b) = {} /\ WireOf(b) = {}
          /\ \/ LocalsOf(b) = {r} /\ PlacesOf(b) = {}
             \/ LocalsOf(b) = {} /\ \E i \in Room : PlacesOf(b) = {<<r, i>>}
      BY <1>0, <2>1, OnlyInMultimap
    <3>2. \A o \in Rank \ {r} : b \notin local[o]
      <4>1. SUFFICES ASSUME NEW o \in Rank \ {r}, b \in local[o] PROVE FALSE
        OBVIOUS
      <4>2. \/ LocalsOf(b) = {o} /\ PlacesOf(b) = {}
            \/ LocalsOf(b) = {} /\ \E i \in Room : PlacesOf(b) = {<<o, i>>}
        BY <1>0, <4>1, OnlyInMultimap
      <4>3. \A i, j \in Room : {<<o, i>>} # {<<r, j>>}
        <5>1. \A i, j \in Room : <<o, i>> # <<r, j>>
          BY <4>1
        <5>. QED BY <5>1
      <4>4. o # r
        BY <4>1
      <4>. QED BY <3>1, <4>2, <4>3, <4>4
    <3>3. ASSUME NEW i \in Room, mem[t][i] = b PROVE FALSE
      <4>1. OnPlace(b, t, i)
        BY <3>3 DEF OnPlace
      <4>2. PlacesOf(b) = {<<t, i>>} /\ LocalsOf(b) = {}
        BY <1>0, <4>1, OnlyOnPlace
      <4>3. \A j \in Room : {<<t, i>>} # {<<r, j>>}
        <5>1. \A j \in Room : <<t, i>> # <<r, j>>
          BY <2>1
        <5>. QED BY <5>1
      <4>. QED BY <3>1, <4>2, <4>3
    <3>. QED BY <3>1, <3>2, <3>3
  <2>2. CASE b = tmp[r]
    <3>1. WireOf(b) = {} /\ TmpOf(b) = {r} /\ PlacesOf(b) = {} /\ LocalsOf(b) = {}
      BY <1>0, <2>2, OnlyInTmp
    <3>2. \A o \in Rank \ {r} : b \notin local[o]
      <4>1. SUFFICES ASSUME NEW o \in Rank \ {r}, b \in local[o] PROVE FALSE
        OBVIOUS
      <4>2. TmpOf(b) = {}
        BY <1>0, <4>1, OnlyInMultimap
      <4>. QED BY <3>1, <4>2
    <3>3. ASSUME NEW i \in Room, mem[t][i] = b PROVE FALSE
      <4>1. OnPlace(b, t, i)
        BY <3>3 DEF OnPlace
      <4>2. TmpOf(b) = {}
        BY <1>0, <4>1, OnlyOnPlace
      <4>. QED BY <3>1, <4>2
    <3>. QED BY <3>1, <3>2, <3>3
  <2>. QED BY <2>1, <2>2
<1>2. \A m \in wire : m.arrived \/ b \notin m.batches
  BY <1>1 DEF WireOf
<1>3. ASSUME NEW o \in Rank, Pending(o, t), b \in PendingBatches(o) PROVE FALSE
  <2>1. o # r
    BY <1>3
  <2>2. CASE pc[o] \in {"unlock_target", "write"}
    <3>1. selected[o] \subseteq LocalFor(o, Target(o)) /\ b \in selected[o]
      BY <1>3, <2>2 DEF BaseInv, SeenInv, SeenOf, PendingBatches
    <3>2. b \in local[o]
      BY <3>1 DEF LocalFor
    <3>. QED BY <1>1, <2>1, <3>2
  <2>3. CASE pc[o] \notin {"unlock_target", "write"}
    <3>1. b = tmp[o]
      BY <1>3, <2>3 DEF PendingBatches
    <3>. QED BY <1>1, <2>1, <3>1 DEF TmpOf
  <2>. QED BY <2>2, <2>3
<1>. QED BY <1>1, <1>2, <1>3 DEF Bound, Coming

\* A reservation of r for batches that had no room yet.
LEMMA ReservingNumber ==
  ASSUME Types, NumberInv, NEW r \in Rank, Return(r) \/ Flush(r), NEW u \in Rank, NEW S \in SUBSET problem,
         wire' = wire, mem' = mem, \A t \in Rank : ~Pending(r, t) /\ (Pending(r, t)' <=> t = u /\ S # {}),
         S # {} => PendingBatches(r)' = S, count' = [count EXCEPT ![u] = @ + Cardinality(S)], S \cap Bound(u) = {}
  PROVE  NumberInv'
<1>0. problem' = problem /\ problem \subseteq Batch /\ count \in [Rank -> 0 .. MaxElts]
  BY SameProblem, TypeFacts
<1>1. ASSUME NEW t \in Rank, NEW b \in problem PROVE Coming(t, b)' <=> Coming(t, b) \/ (t = u /\ b \in S)
  <2>1. \A o \in Rank \ {r} : (Pending(o, t)' <=> Pending(o, t)) /\ PendingBatches(o)' = PendingBatches(o)
    BY OtherPending
  <2>2. (\E o \in Rank : Pending(o, t)' /\ b \in PendingBatches(o)')
        <=> (\E o \in Rank : Pending(o, t) /\ b \in PendingBatches(o)) \/ (t = u /\ b \in S)
    BY <2>1
  <2>. QED BY <2>2 DEF Coming, Rank, Room
<1>2. ASSUME NEW t \in Rank \ {u} PROVE Cardinality(Bound(t))' = count'[t]
  <2>1. Bound(t)' = Bound(t) /\ count'[t] = count[t]
    BY <1>0, <1>1, <1>2 DEF Bound
  <2>. QED BY <2>1 DEF NumberInv
<1>3. Cardinality(Bound(u))' = count'[u]
  <2>1. Bound(u)' = Bound(u) \cup S /\ Bound(u) \in SUBSET Batch /\ S \in SUBSET Batch
    BY <1>0, <1>1 DEF Bound
  <2>2. Cardinality(Bound(u) \cup S) = Cardinality(Bound(u)) + Cardinality(S)
    BY <2>1, SizeOfBoth
  <2>3. count'[u] = count[u] + Cardinality(S)
    BY <1>0
  <2>. QED BY <2>1, <2>2, <2>3 DEF NumberInv
<1>. QED BY <1>2, <1>3 DEF NumberInv, Rank

LEMMA SameNumber ==
  ASSUME NumberInv, problem' = problem, count' = count, \A t \in Rank, b \in problem : Coming(t, b)' <=> Coming(t, b)
  PROVE  NumberInv'
<1>1. \A t \in Rank : Bound(t)' = Bound(t)
  BY DEF Bound
<1>. QED BY <1>1 DEF NumberInv, Rank

LEMMA NumberNext ==
  ASSUME BaseInv, IdInv, SpaceInv, LocalInv, HolderInv, NumberInv, NEW r \in Rank, Return(r) \/ Flush(r)
  PROVE  NumberInv'
<1>. USE DEF Goto
<1>0. /\ Types /\ ControlOf(r) /\ SeenOf(r) /\ LocalOf(r) /\ SpaceOf(r) /\ problem \subseteq Batch
      /\ pc \in [Rank -> Step] /\ count \in [Rank -> 0 .. MaxElts]
      /\ mem \in [Rank -> [Room -> problem \cup {Free}]] /\ problem' = problem
  BY TypeFacts, SameProblem DEF BaseInv, ControlInv, SeenInv, LocalInv, SpaceInv, Room
<1>n. NoBatch \notin problem /\ Free \notin problem
  BY <1>0, BatchAssumption DEF NoBatch, Free
<1>1. \A o \in Rank \ {r} : \A t : (Pending(o, t)' <=> Pending(o, t)) /\ PendingBatches(o)' = PendingBatches(o)
  BY <1>0, OtherPending
<1>2. CASE \/ \E b \in Batch : Compute(r, b)
           \/ ReturnResults(r) \/ PushTmpResults(r) \/ TryAlloc(r) \/ AllocFailed(r) \/ AllocUnlock(r) \/ SecondPass(r)
           \/ LockOwn(r) \/ WaitNotification(r) \/ Aggregate(r) \/ SubmitOwn(r) \/ TryLockTarget(r) \/ Select(r)
           \/ UnlockTarget(r) \/ UnlockOwn(r)
  <2>1. /\ wire' = wire
        /\ \A u \in Rank : Pending(r, u)' <=> Pending(r, u)
        /\ (\E u \in Rank : Pending(r, u)) => PendingBatches(r)' = PendingBatches(r)
    BY <1>2, QuietReservations
  <2>2. ASSUME NEW b \in Batch, Compute(r, b) PROVE count' = count /\ mem' = mem
    BY <2>2 DEF Compute, segmentVars
  <2>3. count' = count /\ mem' = mem
    BY <1>2, <2>2 DEF ReturnResults, PushTmpResults, TryAlloc, AllocFailed, AllocUnlock, SecondPass, LockOwn,
       WaitNotification, Aggregate, SubmitOwn, TryLockTarget, Select, UnlockTarget, UnlockOwn, segmentVars
  <2>4. ASSUME NEW t \in Rank, NEW b \in problem PROVE Coming(t, b)' <=> Coming(t, b)
    <3>1. \A o \in Rank : Pending(o, t)' /\ b \in PendingBatches(o)' <=> Pending(o, t) /\ b \in PendingBatches(o)
      BY <1>1, <2>1
    <3>. QED BY <2>1, <2>3, <3>1 DEF Coming, Rank, Room
  <2>. QED BY <1>0, <2>3, <2>4, SameNumber
<1>3. CASE AllocReserve(r)
  <2>. DEFINE s == [head |-> head[r], count |-> count[r]]
  <2>1. /\ pc[r] = "alloc_reserve" /\ wire' = wire /\ mem' = mem /\ tmp' = tmp
        /\ \/ pc'[r] = "alloc_full" /\ count' = [count EXCEPT ![r] = @]
           \/ pc'[r] = "alloc_unlock" /\ count' = [count EXCEPT ![r] = @ + 1]
    BY <1>0, <1>3 DEF AllocReserve, batchVars
  <2>2. tmp[r] \in problem /\ \A t \in Rank : ~Pending(r, t)
    BY <1>0, <2>1, TypeFacts DEF ControlOf, Allocating, Pending
  <2>3. CASE pc'[r] = "alloc_full" /\ count' = [count EXCEPT ![r] = @]
    <3>1. count' = count
      BY <1>0, <2>3
    <3>2. \A t \in Rank : ~Pending(r, t)'
      BY <2>3 DEF Pending
    <3>3. ASSUME NEW t \in Rank, NEW b \in problem PROVE Coming(t, b)' <=> Coming(t, b)
      <4>1. \A o \in Rank : Pending(o, t)' /\ b \in PendingBatches(o)' <=> Pending(o, t) /\ b \in PendingBatches(o)
        BY <1>1, <2>2, <3>2
      <4>. QED BY <2>1, <4>1 DEF Coming, Rank, Room
    <3>. QED BY <1>0, <3>1, <3>3, SameNumber
  <2>4. CASE pc'[r] = "alloc_unlock" /\ count' = [count EXCEPT ![r] = @ + 1]
    <3>0. PICK S : S = {tmp[r]}
      OBVIOUS
    <3>1. \A t \in Rank : Pending(r, t)' <=> t = r /\ S # {}
      BY <2>4, <3>0 DEF Pending
    <3>2. PendingBatches(r)' = S /\ Cardinality(S) = 1 /\ S \in SUBSET problem
      BY <1>0, <2>1, <2>2, <2>4, <3>0, SizeOfOne DEF PendingBatches
    <3>3. ~Taken(r)
      BY <2>1 DEF Taken, Flushing
    <3>4. S \cap Bound(r) = {}
      BY <2>2, <3>0, <3>3, NoRoomYet
    <3>5. count' = [count EXCEPT ![r] = @ + Cardinality(S)]
      BY <2>4, <3>2
    <3>6. /\ \A t \in Rank : ~Pending(r, t) /\ (Pending(r, t)' <=> t = r /\ S # {})
          /\ S # {} => PendingBatches(r)' = S
      BY <2>2, <3>1, <3>2
    <3>7. Types /\ wire' = wire /\ mem' = mem /\ S \in SUBSET problem
      BY <1>0, <2>1, <3>2
    <3>. QED BY <3>4, <3>5, <3>6, <3>7, ReservingNumber
  <2>. QED BY <2>1, <2>3, <2>4
<1>4. CASE Reserve(r)
  <2>0. pc[r] = "reserve" /\ pc'[r] = "unlock_target"
    BY <1>0, <1>4 DEF Reserve
  <2>1. PICK u \in Rank : u = Target(r) /\ u # r
    BY <1>0, <2>0, TargetType DEF ControlOf, Serving
  <2>s. PICK S : S = selected[r]
    OBVIOUS
  <2>2. /\ wire' = wire /\ mem' = mem /\ selected' = selected /\ hops' = hops
        /\ count' = [count EXCEPT ![u] = @ + Cardinality(S)]
    BY <1>4, <2>1, <2>s DEF Reserve, flushVars, pushVars
  <2>3. S \in SUBSET problem /\ S \subseteq local[r]
    BY <1>0, <2>0, <2>s, TypeFacts DEF SeenOf, LocalFor
  <2>4. \A t \in Rank : ~Pending(r, t) /\ (Pending(r, t)' <=> t = u /\ S # {})
    BY <2>0, <2>1, <2>2, <2>s DEF Pending, Target
  <2>5. PendingBatches(r)' = S
    BY <2>0, <2>2, <2>s DEF PendingBatches
  <2>6. ~Taken(u)
    <3>1. state[u] = r
      BY <2>0, <2>1 DEF BaseInv, LockInv, LockOf, Locking
    <3>2. ~Flushing(u)
      BY <3>1 DEF BaseInv, LockInv, LockOf, COPY_IN_PROGRESS, Rank
    <3>. QED BY <3>2 DEF Taken
  <2>7. S \cap Bound(u) = {}
    BY <2>1, <2>3, <2>4, <2>6, NoRoomYet
  <2>8. S # {} => PendingBatches(r)' = S
    BY <2>5
  <2>9. Types /\ wire' = wire /\ mem' = mem /\ S \in SUBSET problem /\ count' = [count EXCEPT ![u] = @ + Cardinality(S)]
    BY <1>0, <2>2, <2>3
  <2>. QED BY <2>4, <2>7, <2>8, <2>9, ReservingNumber, ZenonT(30)
<1>5. CASE AllocWrite(r)
  <2>. DEFINE c == RankSpace(r)
              a == tmp[r]
              B == {a}
              w == Written(mem[r], B, seen[r].head)
              m == [Message(r, B, seen[r]) EXCEPT !.arrived = TRUE]
  <2>1. /\ pc[r] = "alloc_write" /\ pc'[r] = "second_pass" /\ wire' = wire \cup {m} /\ mem' = [mem EXCEPT ![r] = w]
        /\ count' = count
    BY <1>0, <1>5 DEF AllocWrite
  <2>2. a \in problem
    BY <1>0, <2>1, TypeFacts DEF ControlOf, Allocating
  <2>3. m.arrived = TRUE
    <3>1. m = [to |-> r, batches |-> B, at |-> seen[r].head, id |-> seen[r].count, arrived |-> TRUE]
      BY ArrivedMessage
    <3>. QED BY <3>1
  <2>4. c \in WireSpaces(r) \cup RankSpaces(r) /\ c.n = SizeOf(B) /\ B \in SUBSET problem /\ w = Written(mem[r], B, c.at)
    BY <2>1, <2>2 DEF RankSpace, PendingBatches, RankSpaces, Pending
  <2>5. PendingBatches(r) = B /\ \A t \in Rank : (Pending(r, t) <=> t = r) /\ ~Pending(r, t)'
    BY <2>1 DEF Pending, PendingBatches
  <2>6. mem'[r] = w /\ \A o \in Rank \ {r} : mem'[o] = mem[o]
    BY <1>0, <2>1
  <2>7. \A b : b \in B <=> b = a
    OBVIOUS
  <2>. HIDE DEF m, w, c, B
  <2>8. Placed(mem[r], B, w)
    BY <1>0, <2>4, RoomIsFilled
  <2>9. ASSUME NEW t \in Rank, NEW b \in problem PROVE Coming(t, b)' <=> Coming(t, b)
    <3>1. (\E o \in Rank : Pending(o, t) /\ b \in PendingBatches(o))
          <=> (\E o \in Rank : Pending(o, t)' /\ b \in PendingBatches(o)') \/ (t = r /\ b = a)
      BY <1>1, <2>5, <2>7
    <3>2. (\E n \in wire' : n.to = t /\ ~n.arrived /\ b \in n.batches) <=> (\E n \in wire : n.to = t /\ ~n.arrived /\ b \in n.batches)
      BY <2>1, <2>3
    <3>3. (\E i \in Room : mem'[t][i] = b) <=> (\E i \in Room : mem[t][i] = b) \/ (t = r /\ b = a)
      BY <1>n, <2>6, <2>7, <2>8 DEF Placed
    <3>. QED BY <3>1, <3>2, <3>3 DEF Coming, Rank, Room
  <2>. QED BY <1>0, <2>1, <2>9, SameNumber
<1>6. CASE Write(r)
  <2>0. pc[r] = "write" /\ pc'[r] = "push"
    BY <1>0, <1>6 DEF Write
  <2>1. PICK u \in Rank : u = Target(r)
    BY <1>0, <2>0, TargetType DEF ControlOf, Serving
  <2>. DEFINE S == selected[r]
              m == Message(u, S, seen[r])
  <2>2. wire' = (IF S = {} THEN wire ELSE wire \cup {m}) /\ mem' = mem /\ count' = count
    BY <1>6, <2>1 DEF Write, segmentVars
  <2>3. \A t \in Rank : (Pending(r, t) <=> t = u /\ S # {}) /\ ~Pending(r, t)'
    BY <2>0, <2>1 DEF Pending
  <2>4. PendingBatches(r) = S /\ m.to = u /\ ~m.arrived /\ m.batches = S
    BY <2>0 DEF PendingBatches, Message
  <2>. HIDE DEF m, S
  <2>5. ASSUME NEW t \in Rank, NEW b \in problem PROVE Coming(t, b)' <=> Coming(t, b)
    <3>1. (\E o \in Rank : Pending(o, t) /\ b \in PendingBatches(o))
          <=> (\E o \in Rank : Pending(o, t)' /\ b \in PendingBatches(o)') \/ (t = u /\ b \in S)
      BY <1>1, <2>3, <2>4
    <3>2. (\E n \in wire' : n.to = t /\ ~n.arrived /\ b \in n.batches)
          <=> (\E n \in wire : n.to = t /\ ~n.arrived /\ b \in n.batches) \/ (t = u /\ b \in S)
      BY <2>2, <2>4
    <3>. QED BY <2>2, <3>1, <3>2 DEF Coming, Rank, Room
  <2>. QED BY <1>0, <2>2, <2>5, SameNumber
<1>7. CASE Purge(r)
  <2>1. /\ pc[r] = "push" /\ wire' = wire /\ mem' = [mem EXCEPT ![r] = EmptySegment]
        /\ count' = [count EXCEPT ![r] = 0]
    BY <1>7 DEF Purge
  <2>2. (\A m \in wire : m.to # r) /\ \A o \in Rank : ~Pending(o, r)
    BY <2>1, TakenIsSettled DEF Taken, Flushing
  <2>3. \A t \in Rank : (Pending(r, t)' <=> Pending(r, t)) /\ ~Pending(r, t)
    <3>1. \A u \in Rank : Pending(r, u)' <=> Pending(r, u)
      BY <1>7, QuietReservations
    <3>. QED BY <2>1, <3>1 DEF Pending
  <2>4. Cardinality(Bound(r))' = count'[r]
    <3>1. \A i \in Room : mem'[r][i] = Free
      BY <1>0, <2>1 DEF EmptySegment, Room
    <3>2. \A o \in Rank : ~Pending(o, r)'
      BY <1>1, <2>2, <2>3
    <3>3. Bound(r)' = {}
      BY <1>n, <1>0, <2>1, <2>2, <3>1, <3>2 DEF Bound, Coming, Room, Rank
    <3>. QED BY <1>0, <2>1, <3>3, SizeOfNone
  <2>5. ASSUME NEW t \in Rank \ {r} PROVE Cardinality(Bound(t))' = count'[t]
    <3>1. mem'[t] = mem[t] /\ count'[t] = count[t]
      BY <1>0, <2>1
    <3>2. \A b : (\E o \in Rank : Pending(o, t)' /\ b \in PendingBatches(o)') <=> (\E o \in Rank : Pending(o, t) /\ b \in PendingBatches(o))
      BY <1>1, <2>3
    <3>3. \A b \in problem : Coming(t, b)' <=> Coming(t, b)
      BY <2>1, <3>1, <3>2 DEF Coming, Rank, Room
    <3>4. Bound(t)' = Bound(t)
      BY <1>0, <3>3 DEF Bound
    <3>. QED BY <3>1, <3>4 DEF NumberInv
  <2>. QED BY <2>4, <2>5 DEF NumberInv, Rank
<1>. QED BY <1>2, <1>3, <1>4, <1>5, <1>6, <1>7 DEF Return, Flush

LEMMA DeliverNumber ==
  ASSUME BaseInv, IdInv, SpaceInv, NumberInv, Deliver
  PROVE  NumberInv'
<1>0. Types /\ WireTypes /\ problem \subseteq Batch /\ mem \in [Rank -> [Room -> problem \cup {Free}]]
  BY TypesInGroups, TypeFacts DEF BaseInv, Room
<1>n. Free \notin problem
  BY <1>0, BatchAssumption DEF Free
<1>1. UNCHANGED <<problem, pc, tmp, hops, selected, count>>
  BY DEF Deliver, DataArrive, NotificationArrives, batchVars, flushVars, pushVars, segmentVars
<1>2. PICK m \in wire : DataArrive(m) \/ NotificationArrives(m)
  BY DEF Deliver
<1>3. m \in MessageType /\ WireType(m)
  BY <1>0, <1>2 DEF WireTypes
<1>4. \A t, b : (\E o \in Rank : Pending(o, t)' /\ b \in PendingBatches(o)') <=> (\E o \in Rank : Pending(o, t) /\ b \in PendingBatches(o))
  BY <1>1 DEF Pending, PendingBatches, Target
<1>5. CASE NotificationArrives(m)
  <2>1. m.arrived /\ wire' = wire \ {m} /\ mem' = mem
    BY <1>5 DEF NotificationArrives, segmentVars
  <2>2. ASSUME NEW t \in Rank, NEW b \in problem PROVE Coming(t, b)' <=> Coming(t, b)
    BY <1>4, <2>1 DEF Coming, Rank, Room
  <2>. QED BY <1>1, <2>2, SameNumber
<1>6. CASE DataArrive(m)
  <2>. DEFINE n == [m EXCEPT !.arrived = TRUE]
              c == WireSpace(m)
  <2>0. PICK t \in Rank : t = m.to
    BY <1>3 DEF MessageType
  <2>. DEFINE B == m.batches
              w == Written(mem[t], B, m.at)
  <2>1. /\ ~m.arrived /\ wire' = (wire \ {m}) \cup {n} /\ mem' = [mem EXCEPT ![t] = w]
    BY <1>6, <2>0 DEF DataArrive
  <2>2. n.arrived
    BY <1>3 DEF MessageType
  <2>. HIDE DEF n
  <2>3. B \in SUBSET problem /\ c.n = SizeOf(B) /\ w = Written(mem[t], B, c.at)
    BY <1>3 DEF WireSpace, WireType
  <2>4. c \in WireSpaces(t) \cup RankSpaces(t) /\ SpaceOf(t)
    BY <1>2, <2>0, <2>1 DEF WireSpaces, SpaceInv
  <2>5. mem'[t] = w /\ \A o \in Rank \ {t} : mem'[o] = mem[o]
    BY <1>0, <2>1
  <2>7. \A b : b \in B <=> b \in m.batches
    OBVIOUS
  <2>. HIDE DEF w, c, B
  <2>8. Placed(mem[t], B, w)
    BY <1>0, <2>3, <2>4, RoomIsFilled
  <2>9. ASSUME NEW o \in Rank, NEW b \in problem PROVE Coming(o, b)' <=> Coming(o, b)
    <3>1. (\E x \in wire : x.to = o /\ ~x.arrived /\ b \in x.batches)
          <=> (\E x \in wire' : x.to = o /\ ~x.arrived /\ b \in x.batches) \/ (o = t /\ b \in B)
      BY <1>2, <2>0, <2>1, <2>2, <2>7
    <3>2. (\E i \in Room : mem'[o][i] = b) <=> (\E i \in Room : mem[o][i] = b) \/ (o = t /\ b \in B)
      BY <1>n, <2>5, <2>8 DEF Placed
    <3>. QED BY <1>4, <3>1, <3>2 DEF Coming, Rank, Room
  <2>. QED BY <1>1, <2>9, SameNumber
<1>. QED BY <1>2, <1>5, <1>6

-----------------------------------------------------------------------------
(* The invariant *)

PlaceInv == SpaceInv /\ LocalInv /\ HolderInv /\ NumberInv

LEMMA PlaceNext == BaseInv /\ IdInv /\ PlaceInv /\ [Next]_vars => PlaceInv'
<1>. SUFFICES ASSUME BaseInv, IdInv, PlaceInv, [Next]_vars PROVE PlaceInv'
  OBVIOUS
<1>. USE DEF PlaceInv
<1>1. ASSUME NEW r \in Rank, Return(r) \/ Flush(r) PROVE PlaceInv'
  BY <1>1, SpaceNext, LocalNext, HolderNext, NumberNext
<1>2. CASE UNCHANGED vars
  <2>. USE <1>2 DEF vars
  <2>1. \A r, t : (Pending(r, t)' <=> Pending(r, t)) /\ PendingBatches(r)' = PendingBatches(r)
    BY DEF Pending, PendingBatches, Target
  <2>2. SpaceInv'
    BY <2>1 DEF SpaceInv, SpaceOf, Space, WireSpaces, RankSpaces, WireSpace, RankSpace
  <2>3. LocalInv'
    BY DEF LocalInv, LocalOf, LocalFor, Hop
  <2>4. HolderInv'
    <3>1. ASSUME NEW b \in problem PROVE OneHolder(b)'
      <4>1. /\ TmpOf(b)' = TmpOf(b) /\ WireOf(b)' = WireOf(b) /\ PlacesOf(b)' = PlacesOf(b)
            /\ LocalsOf(b)' = LocalsOf(b)
        BY DEF TmpOf, WireOf, PlacesOf, LocalsOf, OnPlace, Taken, Flushing
      <4>. QED BY <4>1, SameOneHolder DEF HolderInv
    <3>. QED BY <3>1 DEF HolderInv
  <2>5. NumberInv'
    BY <2>1, SameNumber DEF Coming
  <2>. QED BY <2>2, <2>3, <2>4, <2>5
<1>3. CASE Deliver
  BY <1>3, DeliverSpace, DeliverHolder, DeliverNumber
<1>. QED BY <1>1, <1>2, <1>3 DEF Next, Stop

LEMMA PlaceInvariant == Spec => [](BaseInv /\ IdInv /\ PlaceInv)
<1>1. Init => PlaceInv
  BY SpaceInit DEF PlaceInv
<1>. QED BY <1>1, PlaceNext, BaseInvariant, PTL DEF Spec

-----------------------------------------------------------------------------
(* Every batch is in one place *)

LEMMA OnePlace ==
  ASSUME Types, SpaceInv, NEW b \in problem, OneHolder(b)
  PROVE  \E p \in Places(b) : Places(b) = {p}
<1>. DEFINE T == {<<"tmp", r>> : r \in {s \in Rank : tmp[s] = b}}
            W == {<<"wire", m>> : m \in {n \in wire : ~ n.arrived /\ b \in n.batches}}
            G == {<<"segment", r>> : r \in {s \in Rank : b \in Elements(s) /\ (Taken(s) => b \in onSegment[s])}}
            L == {<<"local", r>> : r \in {s \in Rank : b \in local[s] \ onSegment[s]}}
            D == IF b \in todo THEN {<<"todo">>} ELSE {}
            S == IF b \in submitted THEN {<<"submitted">>} ELSE {}
<1>1. Places(b) = T \cup W \cup G \cup L \cup D \cup S
  BY DEF Places
<1>2. T = {<<"tmp", r>> : r \in TmpOf(b)}
  BY DEF TmpOf
<1>3. W = {<<"wire", m>> : m \in WireOf(b)}
  BY DEF WireOf
<1>4. L = {<<"local", r>> : r \in LocalsOf(b)}
  BY DEF LocalsOf
<1>5. /\ PlacesOf(b) = {} => G = {}
      /\ \A r \in Rank, i \in Room : PlacesOf(b) = {<<r, i>>} => G = {<<"segment", r>>}
  <2>1. \A s \in Rank : (b \in Elements(s) /\ (Taken(s) => b \in onSegment[s])) <=> \E i \in Room : OnPlace(b, s, i)
    <3>1. \A s \in Rank : b \in Elements(s) <=> \E i \in Room : mem[s][i] = b
      BY ElementsAreReserved DEF SpaceInv
    <3>. QED BY <3>1 DEF OnPlace
  <2>2. G = {<<"segment", r>> : r \in {s \in Rank : \E i \in Room : OnPlace(b, s, i)}}
    BY <2>1
  <2>3. \A s \in Rank, i \in Room : OnPlace(b, s, i) <=> <<s, i>> \in PlacesOf(b)
    BY DEF PlacesOf
  <2>4. G = {<<"segment", r>> : r \in {s \in Rank : \E i \in Room : <<s, i>> \in PlacesOf(b)}}
    BY <2>2, <2>3
  <2>. HIDE DEF G
  <2>5. PlacesOf(b) = {} => G = {}
    BY <2>4
  <2>6. ASSUME NEW r \in Rank, NEW i \in Room, PlacesOf(b) = {<<r, i>>} PROVE G = {<<"segment", r>>}
    <3>1. {s \in Rank : \E j \in Room : <<s, j>> \in PlacesOf(b)} = {r}
      BY <2>6
    <3>. QED BY <2>4, <3>1
  <2>. QED BY <2>5, <2>6
<1>6. D = IF b \in todo THEN {<<"todo">>} ELSE {}
  OBVIOUS
<1>7. S = IF b \in submitted THEN {<<"submitted">>} ELSE {}
  OBVIOUS
<1>. HIDE DEF T, W, G, L, D, S
<1>8. \E p : Places(b) = {p}
  <2>e. /\ TmpOf(b) = {} => T = {}
        /\ WireOf(b) = {} => W = {}
        /\ LocalsOf(b) = {} => L = {}
        /\ b \notin todo => D = {}
        /\ b \notin submitted => S = {}
    BY <1>2, <1>3, <1>4, <1>6, <1>7
  <2>1. CASE (\E r \in Rank : TmpOf(b) = {r}) /\ WireOf(b) = {} /\ PlacesOf(b) = {} /\ LocalsOf(b) = {}
             /\ b \notin todo /\ b \notin submitted
    <3>1. PICK r \in Rank : TmpOf(b) = {r}
      BY <2>1
    <3>2. T = {<<"tmp", r>>}
      BY <1>2, <3>1
    <3>3. W = {} /\ G = {} /\ L = {} /\ D = {} /\ S = {}
      BY <1>5, <2>1, <2>e
    <3>. QED BY <1>1, <3>2, <3>3
  <2>2. CASE (\E m \in wire : WireOf(b) = {m}) /\ TmpOf(b) = {} /\ PlacesOf(b) = {} /\ LocalsOf(b) = {}
             /\ b \notin todo /\ b \notin submitted
    <3>1. PICK m \in wire : WireOf(b) = {m}
      BY <2>2
    <3>2. W = {<<"wire", m>>}
      BY <1>3, <3>1
    <3>3. T = {} /\ G = {} /\ L = {} /\ D = {} /\ S = {}
      BY <1>5, <2>2, <2>e
    <3>. QED BY <1>1, <3>2, <3>3
  <2>3. CASE (\E r \in Rank, i \in Room : PlacesOf(b) = {<<r, i>>}) /\ TmpOf(b) = {} /\ WireOf(b) = {} /\ LocalsOf(b) = {}
             /\ b \notin todo /\ b \notin submitted
    <3>1. PICK r \in Rank : G = {<<"segment", r>>}
      BY <1>5, <2>3
    <3>2. T = {} /\ W = {} /\ L = {} /\ D = {} /\ S = {}
      BY <2>3, <2>e
    <3>. QED BY <1>1, <3>1, <3>2
  <2>4. CASE (\E r \in Rank : LocalsOf(b) = {r}) /\ TmpOf(b) = {} /\ WireOf(b) = {} /\ PlacesOf(b) = {}
             /\ b \notin todo /\ b \notin submitted
    <3>1. PICK r \in Rank : LocalsOf(b) = {r}
      BY <2>4
    <3>2. L = {<<"local", r>>}
      BY <1>4, <3>1
    <3>3. T = {} /\ W = {} /\ G = {} /\ D = {} /\ S = {}
      BY <1>5, <2>4, <2>e
    <3>. QED BY <1>1, <3>2, <3>3
  <2>5. CASE TmpOf(b) = {} /\ WireOf(b) = {} /\ PlacesOf(b) = {} /\ LocalsOf(b) = {}
             /\ (b \in todo <=> b \notin submitted)
    <3>1. T = {} /\ W = {} /\ G = {} /\ L = {}
      BY <1>5, <2>5, <2>e
    <3>2. D \cup S = {<<"todo">>} \/ D \cup S = {<<"submitted">>}
      BY <1>6, <1>7, <2>5
    <3>. QED BY <1>1, <3>1, <3>2
  <2>. QED BY <2>1, <2>2, <2>3, <2>4, <2>5 DEF OneHolder
<1>. QED BY <1>8

\* Whatever the order of reservations, writes, flushes and failed pushes, no batch is lost, sent twice or
\* written over (EveryBatchOnce).
THEOREM BatchesAreInOnePlace == Spec => []EveryBatchOnce
<1>1. BaseInv /\ IdInv /\ PlaceInv => EveryBatchOnce
  BY OnePlace DEF BaseInv, PlaceInv, HolderInv, EveryBatchOnce
<1>. QED BY <1>1, PlaceInvariant, PTL

-----------------------------------------------------------------------------
(* The assertions of the code *)

\* A segment with nothing but elements can be iterated over.
LEMMA SettledIsReadable ==
  ASSUME Types, NEW r \in Rank, SpaceOf(r), WireSpaces(r) = {}, RankSpaces(r) = {}
  PROVE  Readable(r)
<1>. DEFINE E(i) == ElementSpace(mem[r], i)
<1>0. /\ head[r] \in Nat /\ head[r] < SegmentSize /\ SegmentSize \in Nat
      /\ mem[r] \in [Room -> problem \cup {Free}] /\ problem \subseteq Batch
  BY TypeFacts DEF Room
<1>1. Space(r) = ElementSpaces(mem[r]) /\ Tiles(Space(r), 0, head[r])
  BY DEF Space, SpaceOf
<1>2. \A i \in Room : mem[r][i] # Free => /\ E(i) \in Space(r) /\ E(i).at = i /\ E(i).n = Size[mem[r][i]]
                                          /\ Size[mem[r][i]] \in Nat \ {0} /\ i + Size[mem[r][i]] <= head[r]
  <2>1. \A i \in Room : mem[r][i] # Free => E(i) \in Space(r)
    BY <1>1 DEF ElementSpaces, Room
  <2>2. \A i : E(i).at = i /\ E(i).n = Size[mem[r][i]]
    BY DEF ElementSpace
  <2>. HIDE DEF E
  <2>. QED BY <1>1, <2>1, <2>2 DEF Tiles
<1>3. \A c \in Space(r) : \E i \in Room : mem[r][i] # Free /\ c = E(i)
  BY <1>1 DEF ElementSpaces, Room
<1>. HIDE DEF E
<1>4. \A j \in 0 .. head[r] - 1 : \E i \in Room : mem[r][i] # Free /\ i <= j /\ j < i + Size[mem[r][i]]
  <2>1. SUFFICES ASSUME NEW j \in 0 .. head[r] - 1
                 PROVE  \E i \in Room : mem[r][i] # Free /\ i <= j /\ j < i + Size[mem[r][i]]
    OBVIOUS
  <2>2. PICK c \in Space(r) : c.at <= j /\ j < c.at + c.n
    BY <1>1 DEF Tiles
  <2>. QED BY <1>2, <1>3, <2>2
<1>5. \A i, k \in Room : mem[r][i] # Free /\ mem[r][k] # Free /\ i < k => i + Size[mem[r][i]] <= k
  <2>1. SUFFICES ASSUME NEW i \in Room, NEW k \in Room, mem[r][i] # Free, mem[r][k] # Free, i < k
                 PROVE  i + Size[mem[r][i]] <= k
    OBVIOUS
  <2>2. E(i).at = i /\ E(k).at = k /\ E(i) \in Space(r) /\ E(k) \in Space(r) /\ i \in Nat /\ k \in Nat
        /\ E(i).n = Size[mem[r][i]] /\ E(k).n = Size[mem[r][k]] /\ E(k).n \in Nat \ {0}
    BY <1>2, <2>1 DEF Room
  <2>3. E(i) # E(k)
    BY <2>1, <2>2
  <2>4. E(i).at + E(i).n <= E(k).at \/ E(k).at + E(k).n <= E(i).at
    BY <1>1, <2>2, <2>3 DEF Tiles
  <2>. QED BY <2>1, <2>2, <2>4
<1>6. 0 \in Room /\ \A j \in 0 .. head[r] - 1 : j \in Room
  BY <1>0 DEF Room
<1>7. head[r] > 0 => mem[r][0] # Free
  <2>1. SUFFICES ASSUME head[r] > 0 PROVE mem[r][0] # Free
    OBVIOUS
  <2>2. PICK i \in Room : mem[r][i] # Free /\ i <= 0
    BY <1>0, <1>4, <2>1
  <2>3. i = 0
    BY <2>2 DEF Room
  <2>. QED BY <2>2, <2>3
<1>8. ASSUME NEW i \in 0 .. head[r] - 1, mem[r][i] # Free, NEW n, n = i + Size[mem[r][i]]
      PROVE  n <= head[r] /\ (n < head[r] => mem[r][n] # Free) /\ \A j \in i + 1 .. n - 1 : mem[r][j] = Free
  <2>1. i \in Room /\ n \in Nat /\ i < n /\ n <= head[r] /\ i \in Nat
    BY <1>2, <1>6, <1>8
  <2>2. n < head[r] => mem[r][n] # Free
    <3>1. SUFFICES ASSUME n < head[r] PROVE mem[r][n] # Free
      OBVIOUS
    <3>a. n \in 0 .. head[r] - 1
      BY <1>0, <2>1, <3>1
    <3>2. PICK k \in Room : mem[r][k] # Free /\ k <= n /\ n < k + Size[mem[r][k]]
      BY <1>4, <3>a, Zenon
    <3>3. k \in Nat /\ Size[mem[r][k]] \in Nat
      BY <1>2, <3>2 DEF Room
    <3>4. CASE k = n
      BY <3>2, <3>4
    <3>5. CASE i < k /\ k < n
      BY <1>5, <1>8, <2>1, <3>3, <3>2, <3>5
    <3>6. CASE k < i
      <4>1. k + Size[mem[r][k]] <= i
        BY <1>5, <1>8, <2>1, <3>2, <3>6
      <4>. QED BY <2>1, <3>2, <3>3, <4>1
    <3>7. CASE k = i
      BY <1>8, <2>1, <3>2, <3>7
    <3>. QED BY <2>1, <3>2, <3>3, <3>4, <3>5, <3>6, <3>7
  <2>3. ASSUME NEW j \in i + 1 .. n - 1 PROVE mem[r][j] = Free
    <3>1. j \in Nat /\ i < j /\ j < n /\ j \in Room
      BY <1>0, <2>1, <2>3 DEF Room
    <3>2. mem[r][j] # Free => n <= j
      BY <1>5, <1>8, <2>1, <3>1
    <3>. QED BY <2>1, <3>1, <3>2
  <2>. QED BY <2>1, <2>2, <2>3
<1>. QED BY <1>7, <1>8 DEF Readable

\* What is bound for a segment to which nothing comes are its elements.
LEMMA SettledNumber ==
  ASSUME Types, NumberInv, NEW r \in Rank, SpaceOf(r), \A m \in wire : m.to # r, \A o \in Rank : ~Pending(o, r)
  PROVE  Cardinality(Elements(r)) = count[r]
<1>1. \A b \in problem : b \in Elements(r) <=> \E i \in Room : mem[r][i] = b
  BY ElementsAreReserved
<1>2. Elements(r) \subseteq problem
  <2>1. mem[r] \in [Room -> problem \cup {Free}] /\ head[r] \in Nat /\ head[r] < SegmentSize /\ SegmentSize \in Nat
    BY TypeFacts DEF Room
  <2>. QED BY <2>1 DEF Elements, Room
<1>3. Bound(r) = Elements(r)
  BY <1>1, <1>2 DEF Bound, Coming
<1>. QED BY <1>3 DEF NumberInv

\* A fetch and add returns what was read under the lock, an unlock finds the word that the lock left, the
\* flush iterates over complete elements only, as many as are counted, and what it submits itself lies on the
\* segment (BufferAsserts).
THEOREM AssertionsHold == Spec => []BufferAsserts
<1>1. BaseInv /\ IdInv /\ PlaceInv => BufferAsserts
  <2>. SUFFICES ASSUME BaseInv, IdInv, PlaceInv, NEW r \in Rank
                PROVE  /\ pc[r] = "reserve" => seen[r] = [head |-> head[Target(r)], count |-> count[Target(r)]]
                       /\ \A t \in Rank : Locking(r, t) => state[t] = r
                       /\ Flushing(r) => state[r] = COPY_IN_PROGRESS
                       /\ pc[r] = "wait" /\ index[r] >= count[r] => Readable(r) /\ Cardinality(Elements(r)) = count[r]
                       /\ pc[r] = "push" /\ hops[r] # {} /\ Target(r) = r => LocalFor(r, r) \subseteq onSegment[r]
    BY DEF BufferAsserts
  <2>0. Types /\ SpaceOf(r) /\ LocalOf(r) /\ NumberInv /\ local[r] \subseteq problem /\ problem \subseteq Batch
    BY TypeFacts DEF BaseInv, PlaceInv, SpaceInv, LocalInv
  <2>1. pc[r] = "reserve" => seen[r] = [head |-> head[Target(r)], count |-> count[Target(r)]]
    BY DEF BaseInv, SeenInv, SeenOf
  <2>2. (\A t \in Rank : Locking(r, t) => state[t] = r) /\ (Flushing(r) => state[r] = COPY_IN_PROGRESS)
    BY DEF BaseInv, LockInv, LockOf
  <2>3. ASSUME pc[r] = "wait", index[r] >= count[r] PROVE Readable(r) /\ Cardinality(Elements(r)) = count[r]
    <3>1. Low(r) >= count[r]
      BY <2>3 DEF Low, Taken
    <3>2. (\A m \in wire : m.to # r) /\ \A o \in Rank : ~Pending(o, r)
      BY <3>1, NothingComes
    <3>3. WireSpaces(r) = {} /\ RankSpaces(r) = {}
      BY <3>2 DEF WireSpaces, RankSpaces
    <3>. QED BY <2>0, <3>2, <3>3, SettledIsReadable, SettledNumber
  <2>4. ASSUME NEW b \in LocalFor(r, r) PROVE b \in onSegment[r]
    <3>1. b \in local[r] /\ b \in Batch /\ Hop(r, b) = r
      BY <2>0 DEF LocalFor
    <3>2. Owner[b] = r
      BY <3>1, OwnHop
    <3>. QED BY <2>0, <3>1, <3>2 DEF LocalOf
  <2>. QED BY <2>1, <2>2, <2>3, <2>4
<1>. QED BY <1>1, PlaceInvariant, PTL

-----------------------------------------------------------------------------
(* When every batch is with its owner *)

\* No segment has elements, or anything that comes to it.
LEMMA NothingIsLeft ==
  ASSUME BaseInv, IdInv, PlaceInv, submitted = problem, NEW t \in Rank
  PROVE  /\ local[t] = {}
         /\ \A m \in wire : m.to # t
         /\ \A r \in Rank : ~Pending(r, t)
         /\ ~Taken(t) => head[t] = 0 /\ count[t] = 0
<1>0. Types /\ SpaceOf(t) /\ WireTypes /\ local \in [Rank -> SUBSET problem]
      /\ mem \in [Rank -> [Room -> problem \cup {Free}]] /\ NumberInv
      /\ tmp \in [Rank -> problem \cup {NoBatch}] /\ count[t] \in Nat /\ index[t] \in Nat /\ head[t] \in Nat
  BY TypesInGroups, TypeFacts DEF BaseInv, PlaceInv, SpaceInv, Room
<1>1. ASSUME NEW b \in problem
      PROVE  /\ TmpOf(b) = {} /\ WireOf(b) = {} /\ PlacesOf(b) = {} /\ LocalsOf(b) = {}
  BY OnlySubmitted DEF PlaceInv, HolderInv
<1>2. \A r \in Rank : local[r] = {}
  <2>1. SUFFICES ASSUME NEW r \in Rank, NEW b \in local[r] PROVE FALSE
    OBVIOUS
  <2>2. b \in problem /\ OneHolder(b) /\ LocalOf(r)
    BY <1>0, <2>1 DEF PlaceInv, HolderInv, LocalInv
  <2>3. b \notin submitted
    BY <1>0, <2>1, <2>2, OnlyInMultimap
  <2>. QED BY <2>2, <2>3
<1>3. ASSUME NEW r \in Rank, Pending(r, t) PROVE FALSE
  <2>1. CASE pc[r] \in {"unlock_target", "write"}
    <3>1. selected[r] \subseteq LocalFor(r, Target(r)) /\ selected[r] # {}
      BY <1>3, <2>1 DEF BaseInv, SeenInv, SeenOf, Pending
    <3>. QED BY <1>2, <3>1 DEF LocalFor
  <2>2. CASE pc[r] \in {"alloc_unlock", "alloc_write"}
    <3>1. tmp[r] \in problem
      BY <1>0, <2>2 DEF BaseInv, ControlInv, ControlOf, Allocating
    <3>. QED BY <1>1, <3>1 DEF TmpOf
  <2>. QED BY <1>3, <2>1, <2>2 DEF Pending
<1>4. CASE Taken(t)
  BY <1>2, <1>3, <1>4, TakenIsSettled
<1>5. CASE ~Taken(t)
  <2>1. \A i \in Room : mem[t][i] = Free
    <3>1. SUFFICES ASSUME NEW i \in Room, mem[t][i] # Free PROVE FALSE
      OBVIOUS
    <3>2. mem[t][i] \in problem /\ OnPlace(mem[t][i], t, i)
      BY <1>0, <1>5, <3>1 DEF OnPlace
    <3>3. <<t, i>> \in PlacesOf(mem[t][i])
      BY <3>2 DEF PlacesOf
    <3>. QED BY <1>1, <3>2, <3>3
  <2>2. Bound(t) = {}
    <3>1. SUFFICES ASSUME NEW b \in problem, Coming(t, b) PROVE FALSE
      BY DEF Bound
    <3>2. b # Free
      BY TypeFacts, BatchAssumption, <1>0 DEF Free
    <3>3. \A m \in wire : m.arrived \/ b \notin m.batches
      BY <1>1 DEF WireOf
    <3>. QED BY <1>3, <2>1, <3>1, <3>2, <3>3 DEF Coming
  <2>3. count[t] = 0
    BY <1>0, <2>2, SizeOfNone DEF NumberInv
  <2>4. Low(t) >= count[t]
    BY <1>0, <2>3 DEF Low
  <2>5. \A m \in wire : m.to # t
    BY <2>4, NothingComes
  <2>6. head[t] = 0
    <3>1. WireSpaces(t) = {} /\ RankSpaces(t) = {} /\ ElementSpaces(mem[t]) = {}
      BY <1>3, <2>1, <2>5 DEF WireSpaces, RankSpaces, ElementSpaces, Room
    <3>2. Space(t) = {}
      BY <3>1 DEF Space
    <3>3. ~(0 < head[t])
      BY <1>0, <3>2, FirstTile DEF SpaceOf
    <3>. QED BY <1>0, <3>3
  <2>. QED BY <1>2, <1>3, <2>3, <2>5, <2>6
<1>. QED BY <1>4, <1>5

\* When every result is with its owner, a rank that goes back to its loop finds its buffer empty, unlocked
\* and without a notification (QuietWhenComplete).
THEOREM QuietWhenAllSubmitted == Spec => []QuietWhenComplete
<1>1. BaseInv /\ IdInv /\ PlaceInv => QuietWhenComplete
  <2>. SUFFICES ASSUME BaseInv, IdInv, PlaceInv, submitted = problem
                PROVE  /\ wire = {}
                       /\ \A r \in Rank : pc[r] = "idle" =>
                            /\ IsEmpty(r) /\ state[r] = SEGMENT_AVAILABLE
                            /\ \A i \in DOMAIN notif[r] : notif[r][i] = 0
    BY DEF QuietWhenComplete
  <2>0. Types /\ WireTypes /\ state \in [Rank -> LockWord] /\ notif \in [Rank -> [0 .. MaxElts - 1 -> 0 .. MaxElts]]
    BY TypesInGroups, TypeFacts DEF BaseInv
  <2>1. wire = {}
    <3>1. \A m \in wire : m.to \in Rank
      BY <2>0 DEF WireTypes, MessageType
    <3>. QED BY <3>1, NothingIsLeft
  <2>2. ASSUME NEW r \in Rank, pc[r] = "idle"
        PROVE  IsEmpty(r) /\ state[r] = SEGMENT_AVAILABLE /\ \A i \in DOMAIN notif[r] : notif[r][i] = 0
    <3>1. ~Flushing(r) /\ ~Taken(r)
      BY <2>2 DEF Flushing, Taken
    <3>2. head[r] = 0 /\ count[r] = 0 /\ local[r] = {}
      BY <3>1, NothingIsLeft
    <3>3. \A o \in Rank : ~Locking(o, r)
      <4>1. SUFFICES ASSUME NEW o \in Rank, Locking(o, r) PROVE FALSE
        OBVIOUS
      <4>2. CASE pc[o] \in {"select", "reserve", "unlock_target"}
        <5>1. hops[o] # {}
          BY <4>2 DEF BaseInv, ControlInv, ControlOf, Serving
        <5>2. \A t \in hops[o] : LocalFor(o, t) # {}
          BY DEF PlaceInv, LocalInv, LocalOf
        <5>3. local[o] = {}
          BY NothingIsLeft
        <5>. QED BY <5>1, <5>2, <5>3 DEF LocalFor
      <4>3. CASE pc[o] \in {"alloc_reserve", "alloc_unlock", "alloc_full"} /\ r = o
        BY <2>2, <4>3
      <4>. QED BY <4>1, <4>2, <4>3 DEF Locking
    <3>4. state[r] = SEGMENT_AVAILABLE
      <4>1. state[r] # COPY_IN_PROGRESS /\ state[r] \notin Rank
        BY <3>1, <3>3 DEF BaseInv, LockInv, LockOf
      <4>. QED BY <2>0, <4>1 DEF LockWord
    <3>5. \A i \in DOMAIN notif[r] : notif[r][i] = 0
      <4>1. Low(r) \in Nat /\ Low(r) >= count[r] /\ count[r] \in Nat
        BY <2>0, <3>2, TypeFacts DEF Low
      <4>2. Ids(r) = {}
        BY <4>1, NoTile DEF IdInv, IdsOf
      <4>3. NotifIds(r) = {} /\ DOMAIN notif[r] = 0 .. MaxElts - 1
        BY <2>0, <4>2 DEF Ids
      <4>. QED BY <4>3 DEF NotifIds
    <3>. QED BY <3>2, <3>4, <3>5 DEF IsEmpty
  <2>. QED BY <2>1, <2>2
<1>. QED BY <1>1, PlaceInvariant, PTL

-----------------------------------------------------------------------------
(* The abstract specification *)

Transit == {b \in problem : InTransit(b)}

\* In transit is what has been computed and not been submitted yet.
LEMMA TransitIsRest ==
  Types /\ SpaceInv /\ HolderInv => Transit = problem \ (todo \cup submitted) /\ todo \cap submitted = {}
<1>. SUFFICES ASSUME Types, SpaceInv, HolderInv
              PROVE  Transit = problem \ (todo \cup submitted) /\ todo \cap submitted = {}
  OBVIOUS
<1>1. ASSUME NEW b \in problem PROVE InTransit(b) <=> b \notin todo /\ b \notin submitted
  <2>. DEFINE D == IF b \in todo THEN {<<"todo">>} ELSE {}
              S == IF b \in submitted THEN {<<"submitted">>} ELSE {}
              moving == {"tmp", "wire", "segment", "local"}
  <2>1. PICK p \in Places(b) : Places(b) = {p}
    BY OnePlace DEF HolderInv
  <2>2. D \cup S \subseteq Places(b) /\ \A q \in Places(b) : q \in D \cup S \/ q[1] \in moving
    BY DEF Places
  <2>3. \A q \in D \cup S : q[1] \notin moving
    OBVIOUS
  <2>4. D \cup S = {} <=> b \notin todo /\ b \notin submitted
    OBVIOUS
  <2>5. InTransit(b) <=> p[1] \in moving
    BY <2>1 DEF InTransit
  <2>. HIDE DEF D, S, moving
  <2>6. p[1] \in moving <=> D \cup S = {}
    BY <2>1, <2>2, <2>3
  <2>. QED BY <2>4, <2>5, <2>6
<1>2. ASSUME NEW b \in todo PROVE b \notin submitted
  BY TypeFacts, OnlyInTodo DEF HolderInv
<1>. QED BY <1>1, <1>2 DEF Transit

LEMMA TransportInit == Init => Transport!Init
<1>. SUFFICES ASSUME Init PROVE Transport!Init
  OBVIOUS
<1>1. Types /\ SpaceInv /\ HolderInv
  BY BaseInit, SpaceInit DEF BaseInv
<1>2. Transit = {} /\ todo \in Problems /\ submitted = {}
  BY <1>1, TransitIsRest DEF Init
<1>. QED BY <1>2 DEF Transport!Init, Transit

LEMMA TransportNext ==
  ASSUME BaseInv, IdInv, PlaceInv, BaseInv', PlaceInv', [Next]_vars
  PROVE  [Transport!Next]_(Transport!vars)
<1>0. /\ Types /\ HolderInv /\ Transit = problem \ (todo \cup submitted) /\ todo \cap submitted = {}
      /\ problem \subseteq Batch /\ local \in [Rank -> SUBSET problem] /\ todo \subseteq problem
      /\ tmp \in [Rank -> problem \cup {NoBatch}]
  BY TransitIsRest, TypeFacts DEF BaseInv, PlaceInv
<1>1. Transit' = problem' \ (todo' \cup submitted')
  <2>1. Types' /\ SpaceInv' /\ HolderInv'
    BY DEF BaseInv, PlaceInv
  <2>2. (Transit = problem \ (todo \cup submitted))'
    BY <2>1, TransitIsRest, PTL
  <2>. QED BY <2>2
<1>2. ASSUME UNCHANGED <<problem, todo, submitted>> PROVE UNCHANGED Transport!vars
  <2>1. Transit' = Transit
    BY <1>0, <1>1, <1>2
  <2>. QED BY <1>2, <2>1 DEF Transport!vars, Transit
<1>3. ASSUME NEW B \in SUBSET Transit, B # {}, \A b, c \in B : Owner[b] = Owner[c],
             problem' = problem, todo' = todo, submitted' = submitted \cup B
      PROVE  Transport!Next
  <2>1. Transit' = Transit \ B
    BY <1>0, <1>1, <1>3
  <2>2. Transport!Submit(B)
    BY <1>3, <2>1 DEF Transport!Submit, Transit
  <2>. QED BY <1>3, <2>2 DEF Transport!Next, Transit
<1>4. ASSUME NEW r \in Rank, Return(r) \/ Flush(r) PROVE [Transport!Next]_(Transport!vars)
  <2>0. problem' = problem /\ LocalOf(r)
    BY <1>4, SameProblem DEF PlaceInv, LocalInv
  <2>1. ASSUME NEW b \in Batch, Compute(r, b) PROVE Transport!Next
    <3>1. b \in todo /\ todo' = todo \ {b} /\ submitted' = submitted
      BY <2>1 DEF Compute
    <3>2. Transit' = Transit \cup {b}
      BY <1>0, <1>1, <2>0, <3>1
    <3>3. Transport!HandOver(b)
      BY <3>1, <3>2 DEF Transport!HandOver, Transit
    <3>. QED BY <3>3 DEF Transport!Next
  <2>2. ASSUME PushTmpResults(r) PROVE [Transport!Next]_(Transport!vars)
    <3>1. todo' = todo
      BY <2>2 DEF PushTmpResults
    <3>2. CASE submitted' = submitted
      BY <1>2, <2>0, <3>1, <3>2
    <3>3. CASE tmp[r] # NoBatch /\ submitted' = submitted \cup {tmp[r]}
      <4>1. PICK b \in problem : b = tmp[r]
        BY <1>0, <3>3
      <4>2. b \notin todo /\ b \notin submitted
        BY <1>0, <4>1, OnlyInTmp DEF HolderInv
      <4>3. {b} \in SUBSET Transit
        BY <1>0, <4>2
      <4>. QED BY <1>3, <2>0, <3>1, <3>3, <4>1, <4>3
    <3>. QED BY <2>2, <3>2, <3>3 DEF PushTmpResults
  <2>3. ASSUME SubmitOwn(r) PROVE Transport!Next
    <3>1. PICK B : B = LocalFor(r, r)
      OBVIOUS
    <3>2. todo' = todo /\ submitted' = submitted \cup B /\ hops[r] # {} /\ Target(r) = r
      BY <2>3, <3>1 DEF SubmitOwn
    <3>3. B # {}
      BY <1>0, <2>0, <3>1, <3>2, TargetType DEF LocalOf
    <3>4. \A b \in B : Owner[b] = r
      BY <1>0, <3>1, OwnHop DEF LocalFor
    <3>5. B \in SUBSET Transit
      <4>1. SUFFICES ASSUME NEW b \in B PROVE b \in Transit
        OBVIOUS
      <4>2. b \in local[r] /\ b \in problem /\ OneHolder(b)
        BY <1>0, <3>1 DEF LocalFor, HolderInv
      <4>3. b \notin todo /\ b \notin submitted
        BY <1>0, <2>0, <4>2, OnlyInMultimap
      <4>. QED BY <1>0, <4>2, <4>3
    <3>. QED BY <1>3, <2>0, <3>2, <3>3, <3>4, <3>5
  <2>4. CASE \/ ReturnResults(r) \/ TryAlloc(r) \/ AllocFailed(r) \/ AllocReserve(r) \/ AllocUnlock(r) \/ AllocWrite(r)
             \/ SecondPass(r) \/ LockOwn(r) \/ WaitNotification(r) \/ Aggregate(r) \/ TryLockTarget(r) \/ Select(r)
             \/ Reserve(r) \/ UnlockTarget(r) \/ Write(r) \/ Purge(r) \/ UnlockOwn(r)
    <3>1. todo' = todo /\ submitted' = submitted
      BY <2>4 DEF ReturnResults, TryAlloc, AllocFailed, AllocReserve, AllocUnlock, AllocWrite, SecondPass, LockOwn,
         WaitNotification, Aggregate, TryLockTarget, Select, Reserve, UnlockTarget, Write, Purge, UnlockOwn, batchVars
    <3>. QED BY <1>2, <2>0, <3>1
  <2>. QED BY <1>4, <2>1, <2>2, <2>3, <2>4 DEF Return, Flush
<1>5. CASE Deliver \/ UNCHANGED vars
  <2>1. UNCHANGED <<problem, todo, submitted>>
    BY <1>5 DEF Deliver, DataArrive, NotificationArrives, batchVars, vars
  <2>. QED BY <1>2, <2>1
<1>. QED BY <1>4, <1>5 DEF Next, Stop

\* Through the segments, locks, hops and detours, a batch is handed over once, is in transit, and is submitted
\* once, by the rank whose tasks it is of.
THEOREM BuffersImplementTransport == Spec => ImplementsTransport
<1>1. BaseInv /\ IdInv /\ PlaceInv /\ (BaseInv /\ IdInv /\ PlaceInv)' /\ [Next]_vars => [Transport!Next]_(Transport!vars)
  BY TransportNext
<1>. QED BY <1>1, TransportInit, PlaceInvariant, PTL DEF Spec, ImplementsTransport, Transport!Spec
=============================================================================
