---------------------------- MODULE ProcessProofs ----------------------------
(***************************************************************************)
(* Proofs about what a process does on its own, in SegmentSizing and in    *)
(* Logger.  For segments, tasks and results of any size, what set_problem  *)
(* accepts stays in its memory, as long as the bytes of a problem's tasks  *)
(* are not more than an int can wrap around.  For any entries and any      *)
(* calls, the timers are exact and end_session adds up every snapshot.     *)
(***************************************************************************)
EXTENDS SegmentSizing, Logger, FiniteSetTheorems, SequenceTheorems, TLAPS

-----------------------------------------------------------------------------
(* Quotients and products *)

LEMMA QuotientFits ==
  ASSUME NEW a \in Nat, NEW b \in Nat \ {0}, NEW n \in Nat, n <= a \div b
  PROVE  n * b <= a
  <1>1. a \div b \in Nat /\ (a \div b) * b <= a
    OBVIOUS
  <1>2. n * b <= (a \div b) * b
    <2>. DEFINE q == a \div b
    <2>1. q \in Nat /\ n <= q
      BY <1>1
    <2>. HIDE DEF q
    <2>2. n * b <= q * b
      BY <2>1
    <2>. QED BY <2>2 DEF q
  <1>3. n * b \in Nat /\ (a \div b) * b \in Nat
    BY <1>1
  <1>. QED BY <1>1, <1>2, <1>3

LEMMA QuotientPositive ==
  ASSUME NEW a \in Nat, NEW b \in Nat \ {0}, NEW c \in Nat, a >= b + c
  PROVE  a - c \in Nat /\ (a - c) \div b \in Nat /\ (a - c) \div b >= 1
  <1>1. a - c \in Nat /\ b <= a - c
    OBVIOUS
  <1>. QED BY <1>1

\* Unless the bytes of all tasks wrap around past zero, the size of the buffer is at least that
\* number, or so large that there is no memory for it.
LEMMA NeededSuffices ==
  ASSUME NEW x \in Nat, x < IntRange
  PROVE  /\ AsLong(AsInt(x)) \in Nat
         /\ AsLong(AsInt(x)) >= x \/ AsLong(AsInt(x)) >= LongRange \div 2
  <1>. DEFINE half == IntRange \div 2
  <1>1. IntRange \in Nat /\ LongRange \in Nat /\ 0 < IntRange /\ IntRange <= LongRange
    BY SizingAssumption
  <1>2. half \in Nat /\ 2 * half <= IntRange /\ LongRange - half >= LongRange \div 2
    BY <1>1
  <1>3. AsInt(x) = ((x + half) % IntRange) - half
    BY DEF AsInt
  <1>. HIDE DEF half
  <1>4. CASE x + half < IntRange
    <2>1. (x + half) % IntRange = x + half
      BY <1>1, <1>2, <1>4
    <2>. QED BY <1>1, <1>2, <1>3, <2>1 DEF AsLong
  <1>5. CASE x + half >= IntRange
    <2>1. (x + half) % IntRange = x + half - IntRange
      BY <1>1, <1>2, <1>5
    <2>2. AsInt(x) = x - IntRange /\ x - IntRange < 0
      BY <1>1, <1>2, <1>3, <2>1
    <2>3. AsLong(AsInt(x)) = x - IntRange + LongRange
      BY <2>2 DEF AsLong
    <2>4. LongRange \div 2 \in Nat
      BY <1>1
    <2>. QED BY <1>1, <1>2, <1>5, <2>3, <2>4
  <1>. QED BY <1>1, <1>2, <1>4, <1>5

-----------------------------------------------------------------------------
(* The invariant *)

Positive == Nat \ {0}

\* The variables have their types; the buffer of the dequeue holds what the task segment holds.
SizeTypes ==
  /\ shared_task_segment_size \in Positive
  /\ shared_tmp_result_segment_size \in Nat /\ shared_result_segment_size \in Nat
  /\ problem_size_allocated \in Nat /\ problem_size_allocated >= shared_task_segment_size
  /\ problem \in [task_size : Positive, result_size : Positive]
  /\ tasks \in Nat /\ nb_result \in Nat

\* The tmp and the result segment are made together, for the same number of results.
MadeTogether ==
  shared_result_segment_size # 0 =>
    /\ shared_tmp_result_segment_size >= HeaderTmp
    /\ shared_result_segment_size - HeaderResult > shared_tmp_result_segment_size - HeaderTmp + HeaderElt

\* What set_problem has accepted, and what the work loop keeps.
WorkFits ==
  mode = "work" =>
    /\ shared_result_segment_size # 0
    /\ shared_task_segment_size >= problem.task_size + HeaderTask
    /\ shared_tmp_result_segment_size >= problem.result_size + HeaderTmp
    /\ nb_result <= (shared_tmp_result_segment_size - HeaderTmp) \div problem.result_size
    /\ tasks * problem.task_size <= problem_size_allocated

SizingInv == SizeTypes /\ MadeTogether /\ WorkFits

\* No problem has tasks of so many bytes that their int product wraps around past zero.
ProductsFit == \A t \in TaskSizes, n \in TaskCounts : t * n < IntRange

LEMMA SizingInit == Init => SizingInv
  BY SizingAssumption DEF Init, SizingInv, SizeTypes, Positive, MadeTogether, WorkFits

\* The segments that the first problem makes.
LEMMA NewSegments ==
  ASSUME SizeTypes, NEW p \in Problem
  PROVE  /\ TmpSize(p) \in Nat /\ ResultSize(p) \in Nat
         /\ TmpSize(p) >= HeaderTmp
         /\ ResultSize(p) - HeaderResult > TmpSize(p) - HeaderTmp + HeaderElt
  <1>. DEFINE results == (shared_task_segment_size \div p.task_size) * p.result_size
  <1>1. shared_task_segment_size \in Nat /\ p.task_size \in Nat \ {0} /\ p.result_size \in Nat
    BY SizingAssumption DEF SizeTypes, Positive, Problem
  <1>2. shared_task_segment_size \div p.task_size \in Nat
    BY <1>1
  <1>3. results \in Nat
    BY <1>1, <1>2
  <1>4. TmpSize(p) = results + HeaderTmp /\ ResultSize(p) = (results + HeaderResult) * 2
    BY DEF TmpSize, ResultSize
  <1>. HIDE DEF results
  <1>. QED BY <1>3, <1>4, SizingAssumption

LEMMA ProblemFits ==
  ASSUME ProductsFit, SizingInv, NEW p \in Problem, NEW nb \in TaskCounts, SetProblem(p, nb)
  PROVE  SizingInv'
  <1>. DEFINE S == shared_task_segment_size
              T == shared_tmp_result_segment_size
              R == shared_result_segment_size
              A == problem_size_allocated
  <1>1. /\ p.task_size \in Positive /\ p.result_size \in Positive /\ nb \in Nat
        /\ p \in [task_size : Positive, result_size : Positive]
    BY SizingAssumption DEF Problem, Positive
  <1>2. /\ S \in Positive /\ T \in Nat /\ R \in Nat /\ A \in Nat /\ A >= S
    BY DEF SizingInv, SizeTypes
  <1>3. /\ problem' = p /\ S' = S /\ tasks' = nb /\ nb_result' = 0
        /\ IF R = 0 THEN T' = TmpSize(p) /\ R' = ResultSize(p) ELSE T' = T /\ R' = R
        /\ A' = IF Needed(p, nb) > A THEN Needed(p, nb) ELSE A
        /\ mode' = "work" => Accepted(p, R = 0, T') /\ A' < LongRange \div 2
    BY DEF SetProblem
  <1>4. HeaderTask \in Nat /\ HeaderTmp \in Nat /\ HeaderResult \in Nat /\ HeaderElt \in Nat /\ LongRange \in Nat
    BY SizingAssumption
  <1>5. p.task_size * nb \in Nat /\ p.task_size * nb < IntRange
    BY <1>1 DEF ProductsFit, Problem, Positive
  <1>6. /\ Needed(p, nb) \in Nat
        /\ Needed(p, nb) >= p.task_size * nb \/ Needed(p, nb) >= LongRange \div 2
    BY <1>5, NeededSuffices DEF Needed
  <1>7. A' \in Nat /\ A' >= S'
    BY <1>2, <1>3, <1>6 DEF Positive
  <1>8. T' \in Nat /\ R' \in Nat /\ MadeTogether'
    <2>1. CASE R = 0
      BY <2>1, <1>3, NewSegments DEF SizingInv, MadeTogether
    <2>2. CASE R # 0
      BY <2>2, <1>2, <1>3 DEF SizingInv, MadeTogether
    <2>. QED BY <2>1, <2>2
  <1>9. SizeTypes'
    BY <1>1, <1>2, <1>3, <1>7, <1>8 DEF SizeTypes
  <1>10. WorkFits'
    <2>. SUFFICES ASSUME mode' = "work"
                  PROVE  /\ R' # 0 /\ S' >= p.task_size + HeaderTask /\ T' >= p.result_size + HeaderTmp
                         /\ 0 <= (T' - HeaderTmp) \div p.result_size
                         /\ nb * p.task_size <= A'
      BY <1>3 DEF WorkFits
    <2>1. S' >= p.task_size + HeaderTask /\ T' >= p.result_size + HeaderTmp
      BY <1>3 DEF Accepted
    <2>2. R' # 0
      <3>1. R = 0 => ResultSize(p) # 0
        BY <1>4, NewSegments, SizingAssumption DEF SizingInv
      <3>. QED BY <1>3, <3>1
    <2>3. 0 <= (T' - HeaderTmp) \div p.result_size
      <3>1. p.result_size \in Nat \ {0} /\ HeaderTmp \in Nat /\ T' \in Nat
        BY <1>1, <1>4, <1>8 DEF Positive
      <3>. QED BY <2>1, <3>1, QuotientPositive
    <2>4. nb * p.task_size <= A'
      <3>1. nb * p.task_size = p.task_size * nb
        BY <1>1 DEF Positive
      <3>2. A' < LongRange \div 2 /\ LongRange \div 2 \in Nat
        BY <1>3, <1>4
      <3>3. A' >= Needed(p, nb)
        BY <1>2, <1>3, <1>6
      <3>. QED BY <1>5, <1>6, <1>7, <3>1, <3>2, <3>3
    <2>. QED BY <2>1, <2>2, <2>3, <2>4
  <1>. QED BY <1>8, <1>9, <1>10 DEF SizingInv

LEMMA WorkKeepsFitting ==
  ASSUME SizingInv, DoNextTask \/ Finish
         \/ \E n \in 1 .. shared_task_segment_size, stolen \in BOOLEAN : TakeFromSegment(n, stolen)
  PROVE  SizingInv'
  <1>. DEFINE S    == shared_task_segment_size
              T    == shared_tmp_result_segment_size
              ts   == problem.task_size
              rs   == problem.result_size
              room == (T - HeaderTmp) \div rs
  <1>1. /\ S \in Positive /\ T \in Nat /\ ts \in Nat \ {0} /\ rs \in Nat \ {0}
        /\ tasks \in Nat /\ nb_result \in Nat /\ problem_size_allocated \in Nat
        /\ problem_size_allocated >= S
    BY DEF SizingInv, SizeTypes, Positive
  <1>2. /\ HeaderTask \in Nat /\ HeaderTmp \in Nat
    BY SizingAssumption
  <1>3. UNCHANGED <<sizes, problem_size_allocated, problem>> /\ mode = "work"
    BY DEF DoNextTask, TakeFromSegment, Finish
  <1>4. /\ shared_result_segment_size # 0
        /\ S >= ts + HeaderTask /\ T >= rs + HeaderTmp
        /\ nb_result <= room /\ tasks * ts <= problem_size_allocated
    BY <1>3 DEF SizingInv, WorkFits
  <1>5. room \in Nat /\ room >= 1
    BY <1>1, <1>2, <1>4, QuotientPositive
  <1>6. nb_result_max = room - 1
    <2>1. nb_result_max = AsLong(room - 1)
      BY DEF nb_result_max
    <2>. HIDE DEF room
    <2>. QED BY <1>5, <2>1 DEF AsLong
  <1>7. SUFFICES /\ tasks' \in Nat /\ nb_result' \in Nat
                 /\ mode' = "work" => nb_result' <= room /\ tasks' * ts <= problem_size_allocated
    BY <1>3, <1>4 DEF SizingInv, SizeTypes, MadeTogether, WorkFits, sizes
  <1>. HIDE DEF room
  <1>8. CASE DoNextTask
    <2>1. CASE nb_result > nb_result_max
      BY <1>1, <1>8, <2>1 DEF DoNextTask
    <2>2. CASE ~(nb_result > nb_result_max)
      <3>1. tasks > 0 /\ tasks' = tasks - 1 /\ nb_result' = (IF nb_result = nb_result_max THEN 0 ELSE nb_result) + 1
        BY <1>8, <2>2 DEF DoNextTask
      <3>2. tasks' \in Nat /\ nb_result' \in Nat /\ nb_result' <= room
        BY <1>1, <1>5, <1>6, <2>2, <3>1
      <3>3. tasks' * ts <= tasks * ts
        BY <1>1, <3>1
      <3>4. tasks' * ts \in Nat /\ tasks * ts \in Nat
        BY <1>1, <3>2
      <3>. QED BY <1>1, <1>4, <3>2, <3>3, <3>4
    <2>. QED BY <2>1, <2>2
  <1>9. CASE Finish
    BY <1>1, <1>9 DEF Finish
  <1>10. ASSUME NEW n \in 1 .. S, NEW stolen \in BOOLEAN, TakeFromSegment(n, stolen)
         PROVE  /\ tasks' \in Nat /\ nb_result' \in Nat
                /\ nb_result' <= room /\ tasks' * ts <= problem_size_allocated
    <2>1. n <= (S - HeaderTask) \div ts /\ tasks' = n /\ n \in Nat
          /\ nb_result' = IF stolen THEN 0 ELSE nb_result
      BY <1>1, <1>10 DEF TakeFromSegment, nb_task_max, Positive
    <2>2. S - HeaderTask \in Nat /\ S - HeaderTask <= S
      BY <1>1, <1>2, <1>4 DEF Positive
    <2>3. n * ts <= S - HeaderTask
      BY <1>1, <2>1, <2>2, QuotientFits
    <2>4. n * ts \in Nat
      BY <1>1, <2>1
    <2>. QED BY <1>1, <1>4, <1>5, <2>1, <2>2, <2>3, <2>4 DEF Positive
  <1>. QED BY <1>8, <1>9, <1>10

LEMMA SizingNext == ProductsFit /\ SizingInv /\ [Next]_vars => SizingInv'
<1>. SUFFICES ASSUME ProductsFit, SizingInv, [Next]_vars PROVE SizingInv'
  OBVIOUS
<1>1. CASE UNCHANGED vars
  BY <1>1 DEF vars, sizes, SizingInv, SizeTypes, MadeTogether, WorkFits
<1>. QED BY <1>1, ProblemFits, WorkKeepsFitting DEF Next, Stop

LEMMA FittingSizes == SizingInv => MemoryFits
<1>. SUFFICES ASSUME SizingInv, mode = "work"
              PROVE  /\ nb_result * problem.result_size + HeaderElt
                          <= shared_tmp_result_segment_size - (HeaderTmp - HeaderElt)
                     /\ nb_result * problem.result_size + HeaderElt
                          < shared_result_segment_size - HeaderResult
                     /\ tasks * problem.task_size <= problem_size_allocated
  BY DEF MemoryFits, TmpFits, EntryFits, DequeueFits
<1>. DEFINE T == shared_tmp_result_segment_size
            R == shared_result_segment_size
            rs == problem.result_size
<1>1. T \in Nat /\ R \in Nat /\ rs \in Nat \ {0} /\ nb_result \in Nat
  BY DEF SizingInv, SizeTypes, Positive
<1>2. R # 0 /\ T >= rs + HeaderTmp /\ nb_result <= (T - HeaderTmp) \div rs
      /\ tasks * problem.task_size <= problem_size_allocated
  BY DEF SizingInv, WorkFits
<1>3. HeaderTmp \in Nat /\ HeaderElt \in Nat /\ HeaderResult \in Nat
  BY SizingAssumption
<1>4. R - HeaderResult > T - HeaderTmp + HeaderElt
  BY <1>2 DEF SizingInv, MadeTogether
<1>5. nb_result * rs \in Nat /\ nb_result * rs <= T - HeaderTmp
  <2>1. T - HeaderTmp \in Nat
    BY <1>1, <1>2, <1>3
  <2>. QED BY <1>1, <1>2, <2>1, QuotientFits
<1>. QED BY <1>1, <1>2, <1>3, <1>4, <1>5

\* Unless the bytes of a problem's tasks wrap around past zero, what set_problem accepts stays in
\* its memory: the results of a batch in the tmp segment and in an empty result segment, the tasks
\* in the dequeue's buffer, also after another problem has had other sizes.
THEOREM AcceptedProblemsFit ==
  ASSUME ProductsFit
  PROVE  Spec => []MemoryFits
<1>1. SizingInv /\ [Next]_vars => SizingInv'
  BY SizingNext
<1>. QED BY <1>1, SizingInit, FittingSizes, PTL DEF Spec

-----------------------------------------------------------------------------
(* Sums by counting *)

\* The units of a function over a finite set are finitely many.
LEMMA UnitsFinite ==
  ASSUME NEW S, IsFiniteSet(S), NEW f \in [S -> Nat]
  PROVE  IsFiniteSet(Units(f)) /\ Total(f) \in Nat
  <1>. DEFINE column == [x \in S |-> {x} \X (1 .. f[x])]
              columns == {column[x] : x \in S}
  <1>1. column \in Surjection(S, columns)
    BY DEF Surjection
  <1>2. IsFiniteSet(columns)
    BY <1>1, FS_Surjection
  <1>3. \A x \in S : IsFiniteSet({x} \X (1 .. f[x]))
    <2>. SUFFICES ASSUME NEW x \in S PROVE IsFiniteSet({x} \X (1 .. f[x]))
      OBVIOUS
    <2>1. f[x] \in Nat
      OBVIOUS
    <2>2. IsFiniteSet(1 .. f[x])
      BY <2>1, FS_Interval
    <2>. QED BY <2>2, FS_Singleton, FS_Product
  <1>4. \A T \in columns : IsFiniteSet(T)
    BY <1>3
  <1>5. IsFiniteSet(UNION columns)
    BY <1>2, <1>4, FS_UNION
  <1>6. Units(f) = UNION columns
    BY DEF Units
  <1>. QED BY <1>5, <1>6, FS_CardinalityType DEF Total

LEMMA TotalOfNothing ==
  ASSUME NEW S, NEW f \in [S -> Nat], \A x \in S : f[x] = 0
  PROVE  Total(f) = 0
  <1>1. Units(f) = {}
    BY DEF Units
  <1>. QED BY <1>1, FS_EmptySet DEF Total

\* A sum is the value at one place and the sum of the others.
LEMMA TotalSplit ==
  ASSUME NEW S, IsFiniteSet(S), NEW x, x \notin S, NEW f \in [S -> Nat], NEW g \in [S \cup {x} -> Nat],
         \A y \in S : g[y] = f[y]
  PROVE  Total(g) = Total(f) + g[x]
  <1>. DEFINE column == {x} \X (1 .. g[x])
  <1>1. g[x] \in Nat
    OBVIOUS
  <1>2. IsFiniteSet(column) /\ Cardinality(column) = g[x]
    <2>1. IsFiniteSet(1 .. g[x]) /\ Cardinality(1 .. g[x]) = g[x]
      BY <1>1, FS_Interval
    <2>2. IsFiniteSet({x}) /\ Cardinality({x}) = 1
      BY FS_Singleton
    <2>3. IsFiniteSet(column) /\ Cardinality(column) = Cardinality({x}) * Cardinality(1 .. g[x])
      BY <2>1, <2>2, FS_Product
    <2>. QED BY <1>1, <2>1, <2>2, <2>3
  <1>3. Units(g) = Units(f) \cup column
    BY DEF Units
  <1>4. Units(f) \cap column = {}
    BY DEF Units
  <1>5. IsFiniteSet(Units(f)) /\ Cardinality(Units(f)) \in Nat
    BY UnitsFinite DEF Total
  <1>. HIDE DEF column
  <1>6. Cardinality(Units(f) \cup column) = Cardinality(Units(f)) + Cardinality(column) - Cardinality({})
    BY <1>2, <1>4, <1>5, FS_Union
  <1>. QED BY <1>1, <1>2, <1>3, <1>5, <1>6, FS_EmptySet DEF Total

\* Two functions that differ in one place have sums that differ as they do there.
LEMMA SameRest ==
  ASSUME NEW S, IsFiniteSet(S), NEW x, x \in S, NEW f, f \in [S -> Nat], NEW g, g \in [S -> Nat],
         \A y \in S \ {x} : g[y] = f[y]
  PROVE  \E rest \in Nat : Total(f) = rest + f[x] /\ Total(g) = rest + g[x]
  <1>. DEFINE R == S \ {x}
              h == [y \in R |-> f[y]]
  <1>1. IsFiniteSet(R) /\ x \notin R /\ S = R \cup {x} /\ h \in [R -> Nat]
    BY FS_RemoveElement
  <1>2. f \in [R \cup {x} -> Nat] /\ \A y \in R : f[y] = h[y]
    BY <1>1
  <1>3. g \in [R \cup {x} -> Nat] /\ \A y \in R : g[y] = h[y]
    BY <1>1
  <1>. HIDE DEF h, R
  <1>4. Total(f) = Total(h) + f[x]
    BY <1>1, <1>2, TotalSplit
  <1>5. Total(g) = Total(h) + g[x]
    BY <1>1, <1>3, TotalSplit
  <1>6. Total(h) \in Nat
    BY <1>1, UnitsFinite
  <1>. QED BY <1>4, <1>5, <1>6

\* A value that grows by one makes the sum grow by one.
LEMMA OneMore ==
  ASSUME NEW S, IsFiniteSet(S), NEW x \in S, NEW f \in [S -> Nat]
  PROVE  LET g == [f EXCEPT ![x] = @ + 1] IN g \in [S -> Nat] /\ Total(g) = Total(f) + 1
  <1>. DEFINE g == [f EXCEPT ![x] = @ + 1]
  <1>1. g \in [S -> Nat]
    OBVIOUS
  <1>2. g[x] = f[x] + 1
    OBVIOUS
  <1>3. \A y \in S \ {x} : g[y] = f[y]
    OBVIOUS
  <1>. HIDE DEF g
  <1>4. PICK rest \in Nat : Total(f) = rest + f[x] /\ Total(g) = rest + g[x]
    BY <1>1, <1>3, SameRest
  <1>5. f[x] \in Nat
    OBVIOUS
  <1>. QED BY <1>1, <1>2, <1>4, <1>5 DEF g

-----------------------------------------------------------------------------
(* What a call does to an entry *)

\* The time stamps are not in the future.
Past(t, now) == t.last_start <= now /\ t.last_stop <= now

\* The interval that the entry has not counted yet.
Pending(t, now) == IF Running(t) THEN now - t.last_start ELSE 0

\* The entry has counted what was pending.
Exact(t, new, now) == new \in Field /\ Past(new, now) /\ Shown(new) = Shown(t) + Pending(t, now)

LEMMA FieldTypes ==
  ASSUME NEW t \in Field
  PROVE  /\ t.count \in Nat /\ t.hit \in Nat /\ t.miss \in Nat
         /\ t.last_start \in 0 .. MaxTime /\ t.last_stop \in 0 .. MaxTime
         /\ t.histogram \in [0 .. Last -> Nat]
  BY DEF Field

LEMMA PendingType ==
  ASSUME NEW now \in 0 .. MaxTime, NEW t \in Field, Past(t, now)
  PROVE  Pending(t, now) \in Nat
  BY FieldTypes, EntriesAssumption DEF Past, Pending

LEMMA AccumulateIsExact ==
  ASSUME NEW now \in 0 .. MaxTime, NEW t \in Field, Past(t, now)
  PROVE  LET new == Accumulate(t, now) IN
         /\ new \in Field
         /\ new.count = t.count + Pending(t, now) /\ new.hit = t.hit /\ new.miss = t.miss
         /\ new.last_start = t.last_start /\ new.last_stop = t.last_stop
         /\ new.histogram = t.histogram
  <1>1. MaxTime \in Nat
    BY EntriesAssumption
  <1>2. CASE ~Running(t)
    BY <1>2, FieldTypes DEF Accumulate, Pending
  <1>3. CASE Running(t)
    <2>1. t.count + now - t.last_start \in Nat
      BY <1>1, FieldTypes DEF Past
    <2>2. Accumulate(t, now) = [t EXCEPT !.count = t.count + now - t.last_start]
      BY <1>3 DEF Accumulate, Field
    <2>3. Pending(t, now) = now - t.last_start
      BY <1>3 DEF Pending
    <2>4. t.count + now - t.last_start = t.count + (now - t.last_start)
      BY <1>1, FieldTypes
    <2>. QED BY <2>1, <2>2, <2>3, <2>4 DEF Field
  <1>. QED BY <1>2, <1>3

LEMMA StartedIsExact ==
  ASSUME NEW now \in 0 .. MaxTime, NEW t \in Field, Past(t, now), t.last_stop < now
  PROVE  LET new == Started(t, now) IN
         /\ Exact(t, new, now)
         /\ new.last_start = now /\ Running(new)
         /\ new.histogram = t.histogram
  <1>. DEFINE a == Accumulate(t, now)
              new == Started(t, now)
  <1>1. /\ a \in Field /\ a.last_stop = t.last_stop /\ a.histogram = t.histogram
        /\ a.count = t.count + Pending(t, now) /\ a.hit = t.hit /\ a.miss = t.miss
    BY AccumulateIsExact
  <1>2. new = [a EXCEPT !.last_start = now]
    BY DEF Started
  <1>. HIDE DEF a, new
  <1>3. /\ new \in Field /\ new.last_start = now /\ new.last_stop = t.last_stop
        /\ new.histogram = t.histogram
        /\ new.count = a.count /\ new.hit = a.hit /\ new.miss = a.miss
    BY <1>1, <1>2 DEF Field
  <1>4. Shown(new) = Shown(t) + Pending(t, now)
    BY <1>1, <1>3, FieldTypes, PendingType DEF Shown
  <1>5. Past(new, now) /\ Running(new)
    BY <1>3, EntriesAssumption DEF Past, Running
  <1>. QED BY <1>3, <1>4, <1>5 DEF Exact, new

LEMMA StoppedIsExact ==
  ASSUME NEW now \in 0 .. MaxTime, NEW t \in Field, Past(t, now)
  PROVE  LET new == Stopped(t, now) IN
         /\ Exact(t, new, now)
         /\ new.last_start = t.last_start /\ ~Running(new)
         /\ new.histogram = t.histogram
  <1>. DEFINE a == Accumulate(t, now)
              new == Stopped(t, now)
  <1>1. /\ a \in Field /\ a.last_start = t.last_start /\ a.histogram = t.histogram
        /\ a.count = t.count + Pending(t, now) /\ a.hit = t.hit /\ a.miss = t.miss
    BY AccumulateIsExact
  <1>2. new = [a EXCEPT !.last_stop = now]
    BY DEF Stopped
  <1>. HIDE DEF a, new
  <1>3. /\ new \in Field /\ new.last_start = t.last_start /\ new.last_stop = now
        /\ new.histogram = t.histogram
        /\ new.count = a.count /\ new.hit = a.hit /\ new.miss = a.miss
    BY <1>1, <1>2 DEF Field
  <1>4. Shown(new) = Shown(t) + Pending(t, now)
    BY <1>1, <1>3, FieldTypes, PendingType DEF Shown
  <1>5. Past(new, now) /\ ~Running(new)
    BY <1>3, FieldTypes, EntriesAssumption DEF Past, Running
  <1>. QED BY <1>3, <1>4, <1>5 DEF Exact, new

LEMMA TheftStoppedIsExact ==
  ASSUME NEW now \in 0 .. MaxTime, NEW t \in Field, Past(t, now), NEW theft_hit \in BOOLEAN
  PROVE  LET new == TheftStopped(t, now, theft_hit) IN
         /\ Exact(t, new, now)
         /\ new.last_start = t.last_start /\ ~Running(new)
         /\ new.histogram = t.histogram
  <1>. DEFINE s == Stopped(t, now)
              new == TheftStopped(t, now, theft_hit)
  <1>1. /\ s \in Field /\ Exact(t, s, now) /\ s.last_start = t.last_start /\ ~Running(s)
        /\ s.histogram = t.histogram
    BY StoppedIsExact DEF Exact
  <1>2. CASE theft_hit
    <2>1. new = [s EXCEPT !.hit = s.hit + s.count, !.miss = s.miss, !.count = 0]
      BY <1>1, <1>2 DEF TheftStopped, Field
    <2>. HIDE DEF s, new
    <2>2. s.hit + s.count \in Nat /\ s.miss \in Nat
      BY <1>1, FieldTypes
    <2>3. /\ new \in Field /\ new.last_start = s.last_start /\ new.last_stop = s.last_stop
          /\ new.histogram = s.histogram
          /\ new.count = 0 /\ new.hit = s.hit + s.count /\ new.miss = s.miss
      BY <1>1, <2>1, <2>2 DEF Field
    <2>4. Shown(new) = Shown(s)
      BY <1>1, <2>3, FieldTypes DEF Shown
    <2>. QED BY <1>1, <2>3, <2>4 DEF Exact, Past, Running, new
  <1>3. CASE ~theft_hit
    <2>1. new = [s EXCEPT !.hit = s.hit, !.miss = s.miss + s.count, !.count = 0]
      BY <1>1, <1>3 DEF TheftStopped, Field
    <2>. HIDE DEF s, new
    <2>2. s.miss + s.count \in Nat /\ s.hit \in Nat
      BY <1>1, FieldTypes
    <2>3. /\ new \in Field /\ new.last_start = s.last_start /\ new.last_stop = s.last_stop
          /\ new.histogram = s.histogram
          /\ new.count = 0 /\ new.hit = s.hit /\ new.miss = s.miss + s.count
      BY <1>1, <2>1, <2>2 DEF Field
    <2>4. Shown(new) = Shown(s)
      BY <1>1, <2>3, FieldTypes DEF Shown
    <2>. QED BY <1>1, <2>3, <2>4 DEF Exact, Past, Running, new
  <1>. QED BY <1>2, <1>3

\* Any duration has a bucket, and only buckets of the histogram.
LEMMA BucketsAreInRange ==
  ASSUME NEW ns
  PROVE  BucketOf(ns) \subseteq 0 .. Last
  <1>1. Last \in Nat
    BY EntriesAssumption DEF Last
  <1>. QED BY <1>1 DEF BucketOf

\* Recording changes the histogram alone, by one interval when the timer was running.
LEMMA RecordedIsExact ==
  ASSUME NEW now, NEW t \in Field, NEW new \in Field, NEW old, Exact(old, new, now),
         new.histogram = t.histogram,
         NEW r \in Recorded(t, new, now)
  PROVE  /\ Exact(old, r, now)
         /\ r.last_start = new.last_start /\ Running(r) = Running(new)
         /\ Total(r.histogram) = Total(t.histogram) + IF Running(t) THEN 1 ELSE 0
  <1>1. CASE ~Running(t)
    <2>1. r = new
      BY <1>1 DEF Recorded
    <2>2. Total(t.histogram) \in Nat
      <3>1. t.histogram \in [0 .. Last -> Nat] /\ Last \in Int
        BY EntriesAssumption DEF Field, Last
      <3>. QED BY <3>1, UnitsFinite, FS_Interval
    <2>. QED BY <1>1, <2>1, <2>2
  <1>2. CASE Running(t)
    <2>1. PICK b : b \in 0 .. Last /\ r = [new EXCEPT !.histogram[b] = @ + 1]
      BY <1>2, BucketsAreInRange DEF Recorded
    <2>2. new.histogram \in [0 .. Last -> Nat] /\ Last \in Int
      BY EntriesAssumption DEF Field, Last
    <2>3. r.histogram = [new.histogram EXCEPT ![b] = @ + 1]
      BY <2>1, <2>2 DEF Field
    <2>4. Total(r.histogram) = Total(new.histogram) + 1 /\ r.histogram \in [0 .. Last -> Nat]
      <3>. DEFINE S == 0 .. Last
                  h == new.histogram
                  g == r.histogram
      <3>1. IsFiniteSet(S)
        BY <2>2, FS_Interval
      <3>2. b \in S /\ h \in [S -> Nat] /\ g = [h EXCEPT ![b] = @ + 1]
        BY <2>1, <2>2, <2>3
      <3>. HIDE DEF S, h, g
      <3>3. Total(g) = Total(h) + 1 /\ g \in [S -> Nat]
        BY <3>1, <3>2, OneMore
      <3>. QED BY <3>3 DEF S, h, g
    <2>5. r \in Field /\ r.last_start = new.last_start /\ r.last_stop = new.last_stop
             /\ r.count = new.count /\ r.hit = new.hit /\ r.miss = new.miss
      BY <2>1, <2>4 DEF Field
    <2>. QED BY <1>2, <2>4, <2>5 DEF Exact, Past, Shown, Running
  <1>. QED BY <1>1, <1>2

-----------------------------------------------------------------------------
(* The invariant *)

TimesArePast == \A e \in Entries : Past(timer[e], clock)

PhaseIsRunning == \A e \in Entries : phase[e] = "on" <=> Running(timer[e])

\* While end_session loops, the entries it still has to merge are in front of its iterator, not
\* in the new snapshot yet, and every start lies before the call.
MergeIsInOrder ==
    /\ to_merge \cap DOMAIN aggregated_sessions \subseteq ahead
    /\ to_merge /= {} =>
        /\ previous_sessions /= <<>>
        /\ to_merge \cap DOMAIN previous_sessions[Len(previous_sessions)] = {}
        /\ \A e \in Entries : timer[e].last_start < clock

TimersInv == TimersAreExact /\ TimesArePast /\ PhaseIsRunning

LoggerInv == TimersInv /\ MergeIsInOrder /\ AggregateIsSumOfSnapshots

LEMMA DueIsPending ==
  DueTimeIsCounted <=> \A e \in Entries : Shown(timer[e]) + Pending(timer[e], clock) = due[e]
  BY DEF DueTimeIsCounted, Pending

LEMMA ShownType ==
  ASSUME NEW t \in Field
  PROVE  Shown(t) \in Nat
  BY FieldTypes DEF Shown

\* The clock of a call is later, or not earlier, and what was pending grows with it.
LEMMA AdvanceKeeps ==
  ASSUME TimersInv, NEW delays \in SUBSET Nat, Advance(delays)
  PROVE  /\ clock' \in 0 .. MaxTime /\ clock \in 0 .. MaxTime /\ clock <= clock'
         /\ 0 \notin delays => clock < clock'
         /\ due' \in [Entries -> Nat]
         /\ \A e \in Entries : /\ timer[e] \in Field /\ Past(timer[e], clock')
                               /\ due'[e] = Shown(timer[e]) + Pending(timer[e], clock')
  <1>1. PICK delay \in delays :
          /\ clock + delay <= MaxTime /\ clock' = clock + delay
          /\ due' = [e \in Entries |-> due[e] + IF phase[e] = "on" THEN delay ELSE 0]
    BY DEF Advance
  <1>2. clock \in 0 .. MaxTime /\ timer \in [Entries -> Field] /\ due \in [Entries -> Nat] /\ MaxTime \in Nat
    BY EntriesAssumption DEF TimersInv, TimersAreExact, TimerTypes
  <1>3. clock' \in 0 .. MaxTime /\ clock <= clock' /\ (0 \notin delays => clock < clock')
    BY <1>1, <1>2
  <1>4. due' \in [Entries -> Nat]
    BY <1>1, <1>2
  <1>5. ASSUME NEW e \in Entries
        PROVE  /\ timer[e] \in Field /\ Past(timer[e], clock')
               /\ due'[e] = Shown(timer[e]) + Pending(timer[e], clock')
    <2>1. timer[e] \in Field /\ Past(timer[e], clock)
      BY <1>2 DEF TimersInv, TimesArePast
    <2>2. Past(timer[e], clock')
      BY <1>2, <1>3, <2>1, FieldTypes DEF Past
    <2>3. Shown(timer[e]) + Pending(timer[e], clock) = due[e]
      BY DueIsPending DEF TimersInv, TimersAreExact
    <2>4. Shown(timer[e]) \in Nat /\ Pending(timer[e], clock) \in Nat
      BY <1>2, <2>1, ShownType, PendingType
    <2>5. due'[e] = due[e] + IF Running(timer[e]) THEN delay ELSE 0
      BY <1>1 DEF TimersInv, PhaseIsRunning
    <2>6. Pending(timer[e], clock') = Pending(timer[e], clock) + IF Running(timer[e]) THEN delay ELSE 0
      BY <1>1, <1>2, <2>1, FieldTypes DEF Pending
    <2>. QED BY <2>1, <2>2, <2>3, <2>4, <2>5, <2>6
  <1>. QED BY <1>2, <1>3, <1>4, <1>5

\* A call that leaves its entry exact leaves all of them exact.
LEMMA CalledKeeps ==
  ASSUME TimersInv, NEW delays \in SUBSET Nat, Advance(delays), NEW e \in Entries, NEW new,
         Called(e, new), Exact(timer[e], new, clock'), new.last_start = clock' <=> Running(new)
  PROVE  /\ timer' \in [Entries -> Field] /\ timer'[e] = new
         /\ \A x \in Entries \ {e} : timer'[x] = timer[x]
         /\ phase' \in [Entries -> {"off", "on"}]
         /\ TimesArePast' /\ PhaseIsRunning' /\ DueTimeIsCounted'
  <1>1. /\ timer \in [Entries -> Field] /\ phase \in [Entries -> {"off", "on"}]
    BY DEF TimersInv, TimersAreExact, TimerTypes
  <1>2. /\ timer' = [timer EXCEPT ![e] = new]
        /\ phase' = [phase EXCEPT ![e] = IF new.last_start = clock' THEN "on" ELSE "off"]
    BY DEF Called
  <1>3. new \in Field /\ Past(new, clock') /\ Shown(new) = Shown(timer[e]) + Pending(timer[e], clock')
    BY DEF Exact
  <1>4. /\ timer' \in [Entries -> Field] /\ timer'[e] = new
        /\ \A x \in Entries \ {e} : timer'[x] = timer[x] /\ phase'[x] = phase[x]
        /\ phase' \in [Entries -> {"off", "on"}]
        /\ phase'[e] = IF new.last_start = clock' THEN "on" ELSE "off"
    BY <1>1, <1>2, <1>3
  <1>5. TimesArePast'
    BY <1>3, <1>4, AdvanceKeeps DEF TimesArePast
  <1>6. PhaseIsRunning'
    BY <1>4 DEF TimersInv, PhaseIsRunning
  <1>7. DueTimeIsCounted'
    <2>1. Pending(new, clock') = 0
      <3>1. clock' \in 0 .. MaxTime /\ MaxTime \in Nat
        BY AdvanceKeeps, EntriesAssumption
      <3>. QED BY <1>3, <3>1, FieldTypes DEF Pending
    <2>2. Shown(new) \in Nat
      BY <1>3, ShownType
    <2>3. ASSUME NEW x \in Entries
          PROVE  Shown(timer'[x]) + Pending(timer'[x], clock') = due'[x]
      <3>1. CASE x = e
        BY <1>3, <1>4, <2>1, <2>2, <3>1, AdvanceKeeps
      <3>2. CASE x /= e
        BY <1>4, <3>2, AdvanceKeeps
      <3>. QED BY <3>1, <3>2
    <2>. QED BY <2>3 DEF DueTimeIsCounted, Pending
  <1>. QED BY <1>4, <1>5, <1>6, <1>7

-----------------------------------------------------------------------------
(* The steps, in their effect on the entries *)

\* start() and stop(), and so the first call of end_session, enter the interval they close.
LEMMA ClosedKeeps ==
  ASSUME TimersInv, NEW e \in Entries, NEW new, timer' = [timer EXCEPT ![e] = new], Closed(e),
         e \in Histograms => Total(new.histogram) = Total(timer[e].histogram) + IF Running(timer[e]) THEN 1 ELSE 0
  PROVE  closed' \in [Entries -> Nat] /\ HistogramHoldsClosedIntervals'
  <1>1. timer \in [Entries -> Field] /\ closed \in [Entries -> Nat] /\ Histograms \subseteq Entries
    BY DEF TimersInv, TimersAreExact, TimerTypes, Entries
  <1>2. /\ closed' \in [Entries -> Nat]
        /\ \A x \in Entries : closed'[x] = IF x = e THEN closed[e] + IF Running(timer[e]) THEN 1 ELSE 0
                                           ELSE closed[x]
    BY <1>1 DEF Closed, TimersInv, PhaseIsRunning
  <1>3. ASSUME NEW x \in Histograms
        PROVE  Total(timer'[x].histogram) = closed'[x]
    <2>1. Total(timer[x].histogram) = closed[x]
      BY DEF TimersInv, TimersAreExact, HistogramHoldsClosedIntervals
    <2>2. CASE x = e
      <3>1. timer'[x] = new
        BY <1>1, <2>2
      <3>. QED BY <1>1, <1>2, <2>1, <2>2, <3>1
    <2>3. CASE x /= e
      <3>1. timer'[x] = timer[x]
        BY <1>1, <2>3
      <3>. QED BY <1>1, <1>2, <2>1, <2>3, <3>1
    <2>. QED BY <2>2, <2>3
  <1>. QED BY <1>2, <1>3 DEF HistogramHoldsClosedIntervals

\* The maps stay maps when entries are registered and nothing else happens to the sessions.
LEMMA MapsKept ==
  ASSUME TimerTypes, current_session \subseteq current_session', UNCHANGED sessions
  PROVE  /\ previous_sessions' \in Seq({previous_sessions'[i] : i \in DOMAIN previous_sessions'})
         /\ \A i \in DOMAIN previous_sessions' : IsMap(previous_sessions[i])'
         /\ IsMap(aggregated_sessions)'
         /\ to_merge' \subseteq current_session' /\ ahead' \subseteq DOMAIN aggregated_sessions'
  <1>1. UNCHANGED <<previous_sessions, aggregated_sessions, to_merge, ahead>>
    BY DEF sessions
  <1>2. \A i \in DOMAIN previous_sessions : IsMap(previous_sessions[i])'
    BY <1>1 DEF TimerTypes, IsMap
  <1>. QED BY <1>1, <1>2 DEF TimerTypes, IsMap

\* What a start of an entry computes.
LEMMA StartIsExact ==
  ASSUME NEW now \in 0 .. MaxTime, NEW t \in Field, Past(t, now), t.last_stop < now,
         NEW e,
         NEW new \in IF e \in Histograms THEN Recorded(t, Started(t, now), now) ELSE {Started(t, now)}
  PROVE  /\ Exact(t, new, now) /\ new.last_start = now /\ Running(new)
         /\ e \in Histograms => Total(new.histogram) = Total(t.histogram) + IF Running(t) THEN 1 ELSE 0
  <1>. DEFINE s == Started(t, now)
  <1>1. s \in Field /\ Exact(t, s, now) /\ s.last_start = now /\ Running(s) /\ s.histogram = t.histogram
    BY StartedIsExact DEF Exact
  <1>. HIDE DEF s
  <1>2. CASE e \in Histograms
    <2>1. new \in Recorded(t, s, now)
      BY <1>2 DEF s
    <2>. QED BY <1>1, <2>1, RecordedIsExact
  <1>3. CASE e \notin Histograms
    <2>1. new = s
      BY <1>3 DEF s
    <2>. QED BY <1>1, <1>3, <2>1
  <1>. QED BY <1>2, <1>3

\* What a stop of an entry computes.
LEMMA StopIsExact ==
  ASSUME NEW now \in 0 .. MaxTime, NEW t \in Field, Past(t, now),
         NEW e,
         NEW new \in IF e \in Histograms THEN Recorded(t, Stopped(t, now), now)
                     ELSE IF e \in Thefts THEN {TheftStopped(t, now, h) : h \in BOOLEAN}
                     ELSE {Stopped(t, now)}
  PROVE  /\ Exact(t, new, now) /\ new.last_start = t.last_start /\ ~Running(new)
         /\ e \in Histograms => Total(new.histogram) = Total(t.histogram) + IF Running(t) THEN 1 ELSE 0
  <1>. DEFINE s == Stopped(t, now)
  <1>1. s \in Field /\ Exact(t, s, now) /\ s.last_start = t.last_start /\ ~Running(s) /\ s.histogram = t.histogram
    BY StoppedIsExact DEF Exact
  <1>2. CASE e \in Histograms
    <2>. HIDE DEF s
    <2>1. new \in Recorded(t, s, now)
      BY <1>2 DEF s
    <2>. QED BY <1>1, <2>1, RecordedIsExact
  <1>3. CASE e \notin Histograms /\ e \in Thefts
    <2>1. PICK h \in BOOLEAN : new = TheftStopped(t, now, h)
      BY <1>3
    <2>. QED BY <1>3, <2>1, TheftStoppedIsExact
  <1>4. CASE e \notin Histograms /\ e \notin Thefts
    <2>1. new = s
      BY <1>4
    <2>. HIDE DEF s
    <2>. QED BY <1>1, <1>4, <2>1
  <1>. QED BY <1>2, <1>3, <1>4

\* A start or a stop: the entries stay exact, the sessions are not touched.
LEMMA CallStep ==
  ASSUME LoggerInv, NEW e \in Entries, Idle, e \in current_session, Advance(Delays), NEW new,
         Called(e, new), Exact(timer[e], new, clock'), new.last_start = clock' <=> Running(new),
         e \in Histograms => Total(new.histogram) = Total(timer[e].histogram) + IF Running(timer[e]) THEN 1 ELSE 0,
         Closed(e), UNCHANGED <<current_session, sessions>>
  PROVE  LoggerInv'
  <1>1. Delays \in SUBSET Nat /\ 0 \notin Delays
    BY EntriesAssumption
  <1>2. TimersInv /\ TimerTypes
    BY DEF LoggerInv, TimersInv, TimersAreExact
  <1>3. /\ timer' \in [Entries -> Field] /\ phase' \in [Entries -> {"off", "on"}]
        /\ TimesArePast' /\ PhaseIsRunning' /\ DueTimeIsCounted'
    BY <1>1, <1>2, CalledKeeps
  <1>4. closed' \in [Entries -> Nat] /\ HistogramHoldsClosedIntervals'
    BY <1>2, ClosedKeeps DEF Called
  <1>5. clock' \in 0 .. MaxTime /\ due' \in [Entries -> Nat]
    BY <1>1, <1>2, AdvanceKeeps
  <1>6. TimerTypes'
    BY <1>2, <1>3, <1>4, <1>5, MapsKept DEF TimerTypes
  <1>7. MergeIsInOrder' /\ AggregateIsSumOfSnapshots'
    BY DEF LoggerInv, Idle, MergeIsInOrder, AggregateIsSumOfSnapshots, sessions
  <1>. QED BY <1>3, <1>4, <1>6, <1>7 DEF LoggerInv, TimersInv, TimersAreExact

LEMMA StartTimerKeeps ==
  ASSUME LoggerInv, NEW e \in Entries, StartTimer(e)
  PROVE  LoggerInv'
  <1>1. /\ Idle /\ e \in current_session /\ Advance(Delays) /\ Closed(e)
        /\ UNCHANGED <<current_session, sessions>>
    BY DEF StartTimer
  <1>2. PICK new \in IF e \in Histograms THEN Recorded(timer[e], Started(timer[e], clock'), clock')
                     ELSE {Started(timer[e], clock')} : Called(e, new)
    BY DEF StartTimer
  <1>3. /\ clock' \in 0 .. MaxTime /\ clock < clock' /\ clock \in 0 .. MaxTime
        /\ timer[e] \in Field /\ Past(timer[e], clock') /\ Past(timer[e], clock)
    BY <1>1, EntriesAssumption, AdvanceKeeps DEF LoggerInv, TimersInv, TimesArePast
  <1>4. timer[e].last_stop < clock'
    BY <1>3, FieldTypes, EntriesAssumption DEF Past
  <1>5. /\ Exact(timer[e], new, clock') /\ new.last_start = clock' /\ Running(new)
        /\ e \in Histograms => Total(new.histogram) = Total(timer[e].histogram) + IF Running(timer[e]) THEN 1 ELSE 0
    BY <1>2, <1>3, <1>4, StartIsExact
  <1>. QED BY <1>1, <1>2, <1>5, CallStep

LEMMA StopTimerKeeps ==
  ASSUME LoggerInv, NEW e \in Entries, StopTimer(e)
  PROVE  LoggerInv'
  <1>1. /\ Idle /\ e \in current_session /\ Advance(Delays) /\ Closed(e)
        /\ UNCHANGED <<current_session, sessions>>
    BY DEF StopTimer
  <1>2. PICK new \in IF e \in Histograms THEN Recorded(timer[e], Stopped(timer[e], clock'), clock')
                     ELSE IF e \in Thefts THEN {TheftStopped(timer[e], clock', h) : h \in BOOLEAN}
                     ELSE {Stopped(timer[e], clock')} : Called(e, new)
    BY DEF StopTimer
  <1>3. /\ clock' \in 0 .. MaxTime /\ clock < clock' /\ clock \in 0 .. MaxTime
        /\ timer[e] \in Field /\ Past(timer[e], clock') /\ Past(timer[e], clock)
    BY <1>1, EntriesAssumption, AdvanceKeeps DEF LoggerInv, TimersInv, TimesArePast
  <1>4. timer[e].last_start /= clock'
    BY <1>3, FieldTypes, EntriesAssumption DEF Past
  <1>5. /\ Exact(timer[e], new, clock') /\ new.last_start = timer[e].last_start /\ ~Running(new)
        /\ e \in Histograms => Total(new.histogram) = Total(timer[e].histogram) + IF Running(timer[e]) THEN 1 ELSE 0
    BY <1>2, <1>3, StopIsExact
  <1>. QED BY <1>1, <1>2, <1>4, <1>5, CallStep

LEMMA AddEntryKeeps ==
  ASSUME LoggerInv, NEW e \in Entries, AddEntry(e)
  PROVE  LoggerInv'
  <1>1. /\ Idle /\ current_session' = current_session \cup {e}
        /\ UNCHANGED <<clock, timer, sessions, phase, due, closed>>
    BY DEF AddEntry, ghosts
  <1>2. TimerTypes
    BY DEF LoggerInv, TimersInv, TimersAreExact
  <1>3. TimerTypes'
    <2>1. current_session \subseteq current_session' /\ current_session' \subseteq Entries /\ SessionTime \in current_session'
      BY <1>1, <1>2 DEF TimerTypes
    <2>. QED BY <1>1, <1>2, <2>1, MapsKept DEF TimerTypes
  <1>4. (DueTimeIsCounted /\ HistogramHoldsClosedIntervals /\ TimesArePast /\ PhaseIsRunning)'
    BY <1>1 DEF LoggerInv, TimersInv, TimersAreExact, DueTimeIsCounted, HistogramHoldsClosedIntervals,
                TimesArePast, PhaseIsRunning
  <1>5. MergeIsInOrder' /\ AggregateIsSumOfSnapshots'
    <2>1. Idle /\ UNCHANGED <<previous_sessions, aggregated_sessions, to_merge, ahead>>
      BY <1>1 DEF sessions
    <2>2. MergeIsInOrder'
      BY <2>1 DEF LoggerInv, Idle, MergeIsInOrder
    <2>3. AggregateIsSumOfSnapshots'
      BY <2>1 DEF LoggerInv, AggregateIsSumOfSnapshots
    <2>. QED BY <2>2, <2>3
  <1>. QED BY <1>3, <1>4, <1>5 DEF LoggerInv, TimersInv, TimersAreExact

\* What a reset leaves of an entry: the time stamps.
LEMMA ResetIsEmpty ==
  ASSUME NEW t \in Field
  PROVE  LET new == Reset(t) IN
         /\ new \in Field /\ Shown(new) = 0 /\ Total(new.histogram) = 0
         /\ new.last_start = t.last_start /\ new.last_stop = t.last_stop
  <1>. DEFINE new == Reset(t)
              zero == [b \in 0 .. Last |-> 0]
  <1>1. Last \in Nat /\ MaxTime \in Nat
    BY EntriesAssumption DEF Last
  <1>2. zero \in [0 .. Last -> Nat] /\ \A b \in 0 .. Last : zero[b] = 0
    OBVIOUS
  <1>3. Total(zero) = 0
    <2>. HIDE DEF zero
    <2>. QED BY <1>2, TotalOfNothing
  <1>. HIDE DEF zero
  <1>4. Fresh = [count |-> 0, last_start |-> 0, last_stop |-> 0, hit |-> 0, miss |-> 0, histogram |-> zero]
    BY DEF Fresh, zero
  <1>5. /\ new.count = 0 /\ new.hit = 0 /\ new.miss = 0 /\ new.histogram = zero
        /\ new.last_start = t.last_start /\ new.last_stop = t.last_stop
    BY <1>4 DEF Reset
  <1>6. new \in Field
    BY <1>2, <1>4, FieldTypes DEF Reset, Field
  <1>. HIDE DEF new
  <1>7. Shown(new) = 0
    BY <1>5 DEF Shown
  <1>. QED BY <1>3, <1>5, <1>6, <1>7 DEF new

LEMMA ResetAllEntriesKeeps ==
  ASSUME LoggerInv, ResetAllEntries
  PROVE  LoggerInv'
  <1>1. /\ Idle /\ UNCHANGED <<clock, current_session, sessions, phase>>
        /\ timer' = [e \in Entries |-> IF e \in current_session THEN Reset(timer[e]) ELSE timer[e]]
        /\ due' = [e \in Entries |-> IF e \notin current_session THEN due[e]
                                     ELSE IF phase[e] = "on" THEN clock - timer[e].last_start ELSE 0]
        /\ closed' = [e \in Entries |-> IF e \in current_session THEN 0 ELSE closed[e]]
    BY DEF ResetAllEntries
  <1>2. /\ TimerTypes /\ TimesArePast /\ PhaseIsRunning /\ DueTimeIsCounted /\ HistogramHoldsClosedIntervals
    BY DEF LoggerInv, TimersInv, TimersAreExact
  <1>3. /\ timer \in [Entries -> Field] /\ due \in [Entries -> Nat] /\ closed \in [Entries -> Nat]
        /\ clock \in 0 .. MaxTime /\ MaxTime \in Nat /\ current_session \subseteq Entries
    BY <1>2, EntriesAssumption DEF TimerTypes
  <1>4. ASSUME NEW e \in Entries
        PROVE  /\ timer'[e] \in Field /\ due'[e] \in Nat /\ closed'[e] \in Nat
               /\ timer'[e].last_start = timer[e].last_start /\ timer'[e].last_stop = timer[e].last_stop
               /\ Shown(timer'[e]) + Pending(timer'[e], clock) = due'[e]
               /\ e \in Histograms => Total(timer'[e].histogram) = closed'[e]
    <2>1. timer[e] \in Field /\ Past(timer[e], clock)
      BY <1>2, <1>3 DEF TimesArePast
    <2>2. CASE e \in current_session
      <3>1. timer'[e] = Reset(timer[e]) /\ closed'[e] = 0
               /\ due'[e] = IF phase[e] = "on" THEN clock - timer[e].last_start ELSE 0
        BY <1>1, <2>2
      <3>2. due'[e] = Pending(timer[e], clock)
        BY <1>2, <3>1 DEF PhaseIsRunning, Pending
      <3>3. due'[e] \in Nat
        BY <1>3, <2>1, <3>2, PendingType
      <3>4. /\ timer'[e] \in Field /\ Shown(timer'[e]) = 0 /\ Total(timer'[e].histogram) = 0
            /\ timer'[e].last_start = timer[e].last_start /\ timer'[e].last_stop = timer[e].last_stop
        BY <2>1, <3>1, ResetIsEmpty
      <3>5. Pending(timer'[e], clock) = Pending(timer[e], clock)
        BY <3>4 DEF Pending, Running
      <3>. QED BY <3>1, <3>2, <3>3, <3>4, <3>5
    <2>3. CASE e \notin current_session
      <3>1. timer'[e] = timer[e] /\ closed'[e] = closed[e] /\ due'[e] = due[e]
        BY <1>1, <2>3
      <3>2. Shown(timer[e]) + Pending(timer[e], clock) = due[e]
        BY <1>2, DueIsPending
      <3>. QED BY <1>2, <1>3, <2>1, <3>1, <3>2 DEF HistogramHoldsClosedIntervals
    <2>. QED BY <2>2, <2>3
  <1>5. /\ timer' \in [Entries -> Field] /\ due' \in [Entries -> Nat] /\ closed' \in [Entries -> Nat]
    BY <1>1, <1>4
  <1>6. TimerTypes'
    BY <1>1, <1>2, <1>5, MapsKept DEF TimerTypes
  <1>7. (TimesArePast /\ PhaseIsRunning)'
    BY <1>1, <1>2, <1>4 DEF TimesArePast, PhaseIsRunning, Past, Running
  <1>8. DueTimeIsCounted'
    BY <1>1, <1>4 DEF DueTimeIsCounted, Pending
  <1>9. HistogramHoldsClosedIntervals'
    BY <1>4 DEF HistogramHoldsClosedIntervals, Entries
  <1>10. MergeIsInOrder' /\ AggregateIsSumOfSnapshots'
    <2>1. Idle /\ UNCHANGED <<previous_sessions, aggregated_sessions, to_merge, ahead>>
      BY <1>1 DEF sessions
    <2>2. MergeIsInOrder'
      BY <2>1 DEF LoggerInv, Idle, MergeIsInOrder
    <2>3. AggregateIsSumOfSnapshots'
      BY <2>1 DEF LoggerInv, AggregateIsSumOfSnapshots
    <2>. QED BY <2>2, <2>3
  <1>. QED BY <1>6, <1>7, <1>8, <1>9, <1>10 DEF LoggerInv, TimersInv, TimersAreExact

-----------------------------------------------------------------------------
(* end_session *)

LEMMA OwnRange ==
  ASSUME NEW T, NEW s \in Seq(T)
  PROVE  s \in Seq({s[i] : i \in DOMAIN s})
  <1>. DEFINE R == {s[i] : i \in DOMAIN s}
  <1>1. DOMAIN s = 1 .. Len(s) /\ Len(s) \in Nat /\ s \in [1 .. Len(s) -> T]
    OBVIOUS
  <1>2. s \in [1 .. Len(s) -> R]
    BY <1>1
  <1>. HIDE DEF R
  <1>3. s \in Seq(R)
    BY <1>1, <1>2, SeqDef
  <1>. QED BY <1>3 DEF R

LEMMA EmptyMap == DOMAIN << >> = {} /\ << >> \in [{} -> Field]
  <1>1. DOMAIN << >> = {}
    OBVIOUS
  <1>. QED BY <1>1

\* The snapshots that hold an entry, and what is claimed of its total.
Holding(x) == {i \in DOMAIN previous_sessions : x \in DOMAIN previous_sessions[i]}

SumsOver(x) ==
    /\ x \in DOMAIN aggregated_sessions <=> Holding(x) /= {}
    /\ Holding(x) /= {} =>
        /\ aggregated_sessions[x].count = Total([i \in Holding(x) |-> previous_sessions[i][x].count])
        /\ aggregated_sessions[x].hit = Total([i \in Holding(x) |-> previous_sessions[i][x].hit])
        /\ aggregated_sessions[x].miss = Total([i \in Holding(x) |-> previous_sessions[i][x].miss])
        /\ \A b \in 0 .. Last : aggregated_sessions[x].histogram[b]
                                  = Total([i \in Holding(x) |-> previous_sessions[i][x].histogram[b]])

LEMMA SumsOfAll == AggregateIsSumOfSnapshots <=> \A x \in Entries : SumsOver(x)
  BY DEF AggregateIsSumOfSnapshots, SumsOver, Holding

LEMMA EndSessionKeeps ==
  ASSUME LoggerInv, EndSession
  PROVE  LoggerInv'
  <1>. DEFINE e == SessionTime
              new == Stopped(timer[e], clock')
  <1>1. /\ Idle /\ Advance(Delays) /\ Called(e, new) /\ Closed(e)
        /\ previous_sessions' = Append(previous_sessions, << >>)
        /\ to_merge' = current_session /\ ahead' = DOMAIN aggregated_sessions
        /\ UNCHANGED <<current_session, aggregated_sessions>>
    BY DEF EndSession
  <1>2. /\ TimersInv /\ TimerTypes /\ TimesArePast /\ Delays \in SUBSET Nat /\ 0 \notin Delays
        /\ e \in Entries /\ e \notin Histograms
    BY EntriesAssumption DEF LoggerInv, TimersInv, TimersAreExact, Entries
  <1>3. /\ clock' \in 0 .. MaxTime /\ clock < clock' /\ clock \in 0 .. MaxTime /\ due' \in [Entries -> Nat]
        /\ \A x \in Entries : timer[x] \in Field /\ Past(timer[x], clock') /\ Past(timer[x], clock)
    BY <1>1, <1>2, AdvanceKeeps DEF TimesArePast
  <1>4. ASSUME NEW x \in Entries PROVE timer[x].last_start < clock'
    <2>1. timer[x].last_start \in 0 .. MaxTime /\ timer[x].last_start <= clock /\ MaxTime \in Nat
      BY <1>3, FieldTypes, EntriesAssumption DEF Past
    <2>. QED BY <1>3, <2>1
  <1>5. Exact(timer[e], new, clock') /\ new.last_start = timer[e].last_start /\ ~Running(new)
    BY <1>2, <1>3, StoppedIsExact
  <1>. HIDE DEF new
  <1>6. /\ timer' \in [Entries -> Field] /\ timer'[e] = new /\ phase' \in [Entries -> {"off", "on"}]
        /\ \A x \in Entries \ {e} : timer'[x] = timer[x]
        /\ TimesArePast' /\ PhaseIsRunning' /\ DueTimeIsCounted'
    <2>1. new.last_start = clock' <=> Running(new)
      BY <1>2, <1>3, <1>4, <1>5, FieldTypes, EntriesAssumption
    <2>. HIDE DEF e
    <2>. QED BY <1>1, <1>2, <1>5, <2>1, CalledKeeps
  <1>7. closed' \in [Entries -> Nat] /\ HistogramHoldsClosedIntervals'
    BY <1>1, <1>2, ClosedKeeps DEF Called
  <1>. DEFINE P == previous_sessions
              R == {P[i] : i \in DOMAIN P} \cup {<< >>}
              n == Len(P) + 1
  <1>8. /\ P' \in Seq(R) /\ Len(P) \in Nat /\ DOMAIN P = 1 .. Len(P) /\ DOMAIN P' = 1 .. n /\ Len(P') = n
        /\ P'[n] = << >> /\ \A i \in 1 .. Len(P) : P'[i] = P[i]
    <2>1. P \in Seq({P[i] : i \in DOMAIN P})
      BY <1>2 DEF TimerTypes
    <2>2. P \in Seq(R) /\ << >> \in R
      BY <2>1, SeqMonotonic
    <2>. HIDE DEF R
    <2>. QED BY <1>1, <2>2, AppendProperties
  <1>9. TimerTypes'
    <2>1. P' \in Seq({P'[i] : i \in DOMAIN P'})
      BY <1>8, OwnRange
    <2>2. \A i \in DOMAIN P : IsMap(P[i])
      BY <1>2 DEF TimerTypes
    <2>3. \A i \in DOMAIN P' : DOMAIN P'[i] \subseteq current_session /\ P'[i] \in [DOMAIN P'[i] -> Field]
      <3>. TAKE i \in DOMAIN P'
      <3>1. CASE i = n
        BY <1>8, <3>1, EmptyMap
      <3>2. CASE i /= n
        <4>1. i \in DOMAIN P /\ P'[i] = P[i]
          BY <1>8, <3>2
        <4>. QED BY <2>2, <4>1 DEF IsMap
      <3>. QED BY <3>1, <3>2
    <2>4. \A i \in DOMAIN P' : IsMap(P[i])'
      BY <1>1, <2>3 DEF IsMap
    <2>5. IsMap(aggregated_sessions)'
      BY <1>1, <1>2 DEF TimerTypes, IsMap
    <2>. QED BY <1>1, <1>2, <1>3, <1>6, <1>7, <2>1, <2>4, <2>5 DEF TimerTypes
  <1>10. MergeIsInOrder'
    <2>1. P' /= << >> /\ DOMAIN P'[Len(P')] = {}
      BY <1>8, EmptyMap
    <2>2. \A x \in Entries : timer'[x].last_start < clock'
      BY <1>4, <1>5, <1>6
    <2>. QED BY <1>1, <2>1, <2>2 DEF MergeIsInOrder
  <1>11. AggregateIsSumOfSnapshots'
    <2>. SUFFICES ASSUME NEW x \in Entries PROVE SumsOver(x)'
      BY DEF AggregateIsSumOfSnapshots, SumsOver, Holding
    <2>1. Holding(x)' = Holding(x) /\ \A i \in Holding(x) : P'[i] = P[i]
      BY <1>8, EmptyMap DEF Holding
    <2>2. /\ [i \in Holding(x)' |-> P'[i][x].count] = [i \in Holding(x) |-> P[i][x].count]
          /\ [i \in Holding(x)' |-> P'[i][x].hit] = [i \in Holding(x) |-> P[i][x].hit]
          /\ [i \in Holding(x)' |-> P'[i][x].miss] = [i \in Holding(x) |-> P[i][x].miss]
          /\ \A b \in 0 .. Last : [i \in Holding(x)' |-> P'[i][x].histogram[b]]
                                   = [i \in Holding(x) |-> P[i][x].histogram[b]]
      BY <2>1
    <2>3. SumsOver(x)
      BY SumsOfAll DEF LoggerInv
    <2>. HIDE DEF P
    <2>. QED BY <1>1, <2>1, <2>2, <2>3 DEF SumsOver, P
  <1>. QED BY <1>6, <1>7, <1>9, <1>10, <1>11 DEF LoggerInv, TimersInv, TimersAreExact

LEMMA InsertIsMap ==
  ASSUME NEW map, map \in [DOMAIN map -> Field], NEW key, NEW value \in Field
  PROVE  LET new == Insert(map, key, value) IN
         /\ DOMAIN new = DOMAIN map \cup {key} /\ new \in [DOMAIN new -> Field]
         /\ \A k \in DOMAIN map : new[k] = map[k]
         /\ key \notin DOMAIN map => new[key] = value
  BY DEF Insert

\* aggregate() adds each of the counters.
LEMMA SumAddsCounters ==
  ASSUME NEW a \in Field, NEW b \in Field
  PROVE  LET sum == Sum(a, b) IN
         /\ sum \in Field
         /\ sum.count = a.count + b.count /\ sum.hit = a.hit + b.hit /\ sum.miss = a.miss + b.miss
         /\ \A i \in 0 .. Last : sum.histogram[i] = a.histogram[i] + b.histogram[i]
  <1>. DEFINE s1 == AddCounter(a, b)
              s2 == AddHistogram(s1, b)
              s3 == AddThefts(s2, b)
              h == [i \in 0 .. Last |-> a.histogram[i] + b.histogram[i]]
  <1>1. h \in [0 .. Last -> Nat]
    <2>. DEFINE f == a.histogram
                g == b.histogram
    <2>1. f \in [0 .. Last -> Nat] /\ g \in [0 .. Last -> Nat]
      BY FieldTypes
    <2>. HIDE DEF f, g
    <2>2. [i \in 0 .. Last |-> f[i] + g[i]] \in [0 .. Last -> Nat]
      BY <2>1
    <2>. QED BY <2>2 DEF f, g
  <1>2. /\ s1 \in Field /\ s1.count = a.count + b.count
        /\ s1.hit = a.hit /\ s1.miss = a.miss /\ s1.histogram = a.histogram
    <2>1. a.count + b.count \in Nat
      BY FieldTypes
    <2>2. s1 = [a EXCEPT !.count = a.count + b.count]
      BY DEF AddCounter
    <2>. QED BY <2>1, <2>2 DEF Field
  <1>3. /\ s2 \in Field /\ s2.count = s1.count /\ s2.hit = a.hit /\ s2.miss = a.miss /\ s2.histogram = h
    <2>1. DOMAIN s1.histogram = 0 .. Last
      BY <1>2, FieldTypes
    <2>2. s2 = [s1 EXCEPT !.histogram = h]
      BY <1>2, <2>1 DEF AddHistogram
    <2>. HIDE DEF s1, h, s2
    <2>. QED BY <1>1, <1>2, <2>2 DEF Field
  <1>4. /\ s3 \in Field /\ s3.count = s2.count /\ s3.hit = a.hit + b.hit /\ s3.miss = a.miss + b.miss
        /\ s3.histogram = h
    <2>1. a.hit + b.hit \in Nat /\ a.miss + b.miss \in Nat
      BY FieldTypes
    <2>. HIDE DEF s2, h
    <2>2. s3 = [s2 EXCEPT !.hit = a.hit + b.hit, !.miss = a.miss + b.miss]
      BY <1>3 DEF AddThefts
    <2>. HIDE DEF s3
    <2>. QED BY <1>3, <2>1, <2>2 DEF Field
  <1>5. Sum(a, b) = s3
    BY DEF Sum
  <1>. QED BY <1>2, <1>3, <1>4, <1>5

LEMMA TotalOfNoSnapshot ==
  ASSUME NEW f, f \in [{} -> Nat]
  PROVE  Total(f) = 0
  BY TotalOfNothing

LEMMA TotalOneMore ==
  ASSUME NEW S, IsFiniteSet(S), NEW x, x \notin S, NEW f, f \in [S -> Nat], NEW g, g \in [S \cup {x} -> Nat],
         NEW value, g[x] = value, \A y \in S : g[y] = f[y]
  PROVE  Total(g) = Total(f) + value /\ Total(f) \in Nat
  <1>1. Total(g) = Total(f) + g[x]
    BY TotalSplit
  <1>2. Total(f) \in Nat
    BY UnitsFinite
  <1>. QED BY <1>1, <1>2

LEMMA MergeEntryKeeps ==
  ASSUME LoggerInv, NEW e \in Entries, MergeEntry(e)
  PROVE  LoggerInv'
  <1>. DEFINE new == Finalized(timer[e], clock')
              delays == {0} \cup Delays
              P == previous_sessions
              A == aggregated_sessions
              n == Len(P)
  <1>1. /\ e \in to_merge /\ (\A other \in to_merge : e <= other) /\ Advance(delays) /\ Called(e, new)
        /\ P' = [P EXCEPT ![n] = Insert(@, e, timer'[e])]
        /\ A' = IF e \in From(ahead, e) THEN [A EXCEPT ![e] = Sum(@, timer'[e])] ELSE Insert(A, e, timer'[e])
        /\ to_merge' = to_merge \ {e} /\ ahead' = From(ahead, e) \cup {e}
        /\ UNCHANGED <<current_session, closed>>
    BY DEF MergeEntry
  <1>2. /\ TimersInv /\ TimerTypes /\ TimesArePast /\ MergeIsInOrder /\ delays \in SUBSET Nat
        /\ AggregateIsSumOfSnapshots
    BY EntriesAssumption DEF LoggerInv, TimersInv, TimersAreExact
  <1>. HIDE DEF delays
  <1>3. /\ clock' \in 0 .. MaxTime /\ clock \in 0 .. MaxTime /\ clock <= clock' /\ due' \in [Entries -> Nat]
        /\ timer[e] \in Field /\ Past(timer[e], clock')
    BY <1>1, <1>2, AdvanceKeeps
  <1>4. ASSUME NEW x \in Entries PROVE timer[x].last_start < clock'
    <2>1. timer[x].last_start < clock
      BY <1>1, <1>2 DEF MergeIsInOrder
    <2>2. timer[x].last_start \in 0 .. MaxTime /\ MaxTime \in Nat
      BY <1>2, FieldTypes, EntriesAssumption DEF TimerTypes
    <2>. QED BY <1>3, <2>1, <2>2
  <1>5. /\ Exact(timer[e], new, clock') /\ new.last_start = timer[e].last_start /\ ~Running(new)
        /\ new.histogram = timer[e].histogram /\ new \in Field
    BY <1>3, StoppedIsExact DEF Finalized, Exact
  <1>. HIDE DEF new
  <1>6. /\ timer' \in [Entries -> Field] /\ timer'[e] = new /\ phase' \in [Entries -> {"off", "on"}]
        /\ \A x \in Entries \ {e} : timer'[x] = timer[x]
        /\ TimesArePast' /\ PhaseIsRunning' /\ DueTimeIsCounted'
    <2>1. new.last_start = clock' <=> Running(new)
      <3>1. timer[e].last_start \in 0 .. MaxTime /\ MaxTime \in Nat /\ timer[e].last_start < clock'
        BY <1>3, <1>4, FieldTypes, EntriesAssumption
      <3>. QED BY <1>3, <1>5, <3>1
    <2>. QED BY <1>1, <1>2, <1>5, <2>1, CalledKeeps
  <1>7. HistogramHoldsClosedIntervals'
    <2>1. \A x \in Entries : timer'[x].histogram = timer[x].histogram
      BY <1>5, <1>6
    <2>. QED BY <1>1, <1>2, <2>1 DEF TimersInv, TimersAreExact, HistogramHoldsClosedIntervals, Entries
  <1>8. /\ n \in Nat /\ n >= 1 /\ DOMAIN P = 1 .. n /\ n \in DOMAIN P
        /\ e \notin DOMAIN P[n] /\ to_merge \cap DOMAIN P[n] = {}
        /\ e \in current_session /\ current_session \subseteq Entries
    BY <1>1, <1>2 DEF TimerTypes, MergeIsInOrder
  <1>9. /\ DOMAIN P[n] \subseteq current_session /\ P[n] \in [DOMAIN P[n] -> Field]
        /\ DOMAIN A \subseteq current_session /\ A \in [DOMAIN A -> Field]
    BY <1>2, <1>8 DEF TimerTypes, IsMap
  <1>. DEFINE last == Insert(P[n], e, new)
  <1>10. /\ DOMAIN last = DOMAIN P[n] \cup {e} /\ last \in [DOMAIN last -> Field]
         /\ (\A k \in DOMAIN P[n] : last[k] = P[n][k]) /\ last[e] = new
    <2>. DEFINE Pn == P[n]
    <2>1. Pn \in [DOMAIN Pn -> Field] /\ e \notin DOMAIN Pn
      BY <1>8, <1>9
    <2>. HIDE DEF Pn
    <2>. QED BY <1>5, <2>1, InsertIsMap DEF Pn
  <1>. HIDE DEF last
  <1>. DEFINE R == {P[i] : i \in DOMAIN P} \cup {last}
  <1>11. /\ DOMAIN P' = 1 .. n /\ Len(P') = n /\ P'[n] = last /\ \A i \in (1 .. n) \ {n} : P'[i] = P[i]
         /\ P' \in Seq(R)
    <2>1. P \in Seq({P[i] : i \in DOMAIN P})
      BY <1>2 DEF TimerTypes
    <2>2. P \in Seq(R) /\ last \in R
      BY <2>1, SeqMonotonic
    <2>3. P' = [P EXCEPT ![n] = last]
      BY <1>1, <1>6 DEF last
    <2>. HIDE DEF R
    <2>4. P' \in Seq(R) /\ Len(P') = n /\ \A j \in 1 .. n : P'[j] = IF j = n THEN last ELSE P[j]
      BY <1>8, <2>2, <2>3, ExceptSeq
    <2>5. DOMAIN P' = 1 .. Len(P')
      BY <2>4
    <2>. QED BY <1>8, <2>4, <2>5
  <1>12. /\ DOMAIN A' = DOMAIN A \cup {e} /\ A' \in [DOMAIN A' -> Field]
         /\ \A k \in DOMAIN A \ {e} : A'[k] = A[k]
         /\ e \in DOMAIN A => A'[e] = Sum(A[e], new)
         /\ e \notin DOMAIN A => A'[e] = new
    <2>1. e \in DOMAIN A <=> e \in From(ahead, e)
      <3>1. e \in Nat
        BY EntriesAssumption
      <3>. QED BY <1>1, <1>2, <3>1 DEF From, MergeIsInOrder, TimerTypes
    <2>2. CASE e \in DOMAIN A
      <3>1. A' = [A EXCEPT ![e] = Sum(A[e], new)]
        BY <1>1, <1>6, <2>1, <2>2
      <3>2. Sum(A[e], new) \in Field
        BY <1>5, <1>9, <2>2, SumAddsCounters
      <3>. QED BY <1>9, <2>2, <3>1, <3>2
    <2>3. CASE e \notin DOMAIN A
      <3>1. A' = Insert(A, e, new)
        BY <1>1, <1>6, <2>1, <2>3
      <3>2. LET in == Insert(A, e, new) IN
            /\ DOMAIN in = DOMAIN A \cup {e} /\ in \in [DOMAIN in -> Field]
            /\ (\A k \in DOMAIN A : in[k] = A[k]) /\ in[e] = new
        BY <1>5, <1>9, <2>3, InsertIsMap
      <3>. QED BY <2>3, <3>1, <3>2
    <2>. QED BY <2>2, <2>3
  <1>13. TimerTypes'
    <2>1. P' \in Seq({P'[i] : i \in DOMAIN P'})
      <3>. HIDE DEF R, P
      <3>. QED BY <1>11, OwnRange
    <2>2. \A i \in DOMAIN P' : DOMAIN P'[i] \subseteq current_session /\ P'[i] \in [DOMAIN P'[i] -> Field]
      <3>. TAKE i \in DOMAIN P'
      <3>1. CASE i = n
        BY <1>8, <1>9, <1>10, <1>11, <3>1
      <3>2. CASE i /= n
        <4>1. P'[i] = P[i] /\ i \in DOMAIN P
          BY <1>8, <1>11, <3>2
        <4>. QED BY <1>2, <4>1 DEF TimerTypes, IsMap
      <3>. QED BY <3>1, <3>2
    <2>3. \A i \in DOMAIN P' : IsMap(P[i])'
      BY <1>1, <2>2 DEF IsMap
    <2>4. IsMap(A)'
      BY <1>1, <1>8, <1>9, <1>12 DEF IsMap
    <2>5. to_merge' \subseteq current_session' /\ ahead' \subseteq DOMAIN A'
      BY <1>1, <1>2, <1>12 DEF TimerTypes, From
    <2>. QED BY <1>1, <1>2, <1>3, <1>6, <2>1, <2>3, <2>4, <2>5 DEF TimerTypes
  <1>14. MergeIsInOrder'
    <2>1. to_merge' \cap DOMAIN A' \subseteq ahead'
      <3>. SUFFICES ASSUME NEW x \in to_merge \ {e}, x \in DOMAIN A PROVE x \in From(ahead, e)
        BY <1>1, <1>12
      <3>1. x \in Nat /\ e \in Nat /\ e <= x
        BY <1>1, <1>2, <1>8, EntriesAssumption DEF TimerTypes
      <3>. QED BY <1>2, <3>1 DEF MergeIsInOrder, From
    <2>2. P' /= << >> /\ to_merge' \cap DOMAIN P'[Len(P')] = {}
      BY <1>1, <1>8, <1>10, <1>11, EmptyMap
    <2>3. \A x \in Entries : timer'[x].last_start < clock'
      BY <1>4, <1>5, <1>6
    <2>. QED BY <2>1, <2>2, <2>3 DEF MergeIsInOrder
  <1>15. AggregateIsSumOfSnapshots'
    <2>. SUFFICES ASSUME NEW x \in Entries PROVE SumsOver(x)'
      BY DEF AggregateIsSumOfSnapshots, SumsOver, Holding
    <2>1. SumsOver(x)
      BY <1>2, SumsOfAll
    <2>2. CASE x /= e
      <3>. DEFINE H == Holding(x)
      <3>1. /\ H' = H
            /\ \A i \in H : x \in DOMAIN P[i] /\ P'[i][x] = P[i][x]
        BY <1>8, <1>10, <1>11, <2>2 DEF Holding
      <3>2. (x \in DOMAIN A' <=> x \in DOMAIN A) /\ (x \in DOMAIN A => A'[x] = A[x])
        BY <1>12, <2>2
      <3>3. /\ [i \in H' |-> P'[i][x].count] = [i \in H |-> P[i][x].count]
            /\ [i \in H' |-> P'[i][x].hit] = [i \in H |-> P[i][x].hit]
            /\ [i \in H' |-> P'[i][x].miss] = [i \in H |-> P[i][x].miss]
            /\ \A b \in 0 .. Last : [i \in H' |-> P'[i][x].histogram[b]] = [i \in H |-> P[i][x].histogram[b]]
        BY <3>1
      <3>. HIDE DEF H
      <3>. QED BY <2>1, <3>1, <3>2, <3>3 DEF SumsOver, H
    <2>3. CASE x = e
      <3>. SUFFICES SumsOver(e)'
        BY <2>3
      <3>. DEFINE H == Holding(e)
      <3>0. SumsOver(e)
        BY <2>1, <2>3
      <3>1. /\ H' = H \cup {n} /\ n \notin H
            /\ \A i \in H : P'[i][e] = P[i][e] /\ P[i][e] \in Field
            /\ P'[n][e] = new
        <4>1. \A i \in DOMAIN P : P[i] \in [DOMAIN P[i] -> Field]
          BY <1>2 DEF TimerTypes, IsMap
        <4>. QED BY <1>8, <1>10, <1>11, <4>1 DEF Holding
      <3>2. IsFiniteSet(H)
        <4>1. H \in SUBSET (1 .. n)
          BY <1>8 DEF Holding
        <4>2. IsFiniteSet(1 .. n)
          BY <1>8, FS_Interval
        <4>. QED BY <4>1, <4>2, FS_Subset
      <3>. HIDE DEF H
      <3>. DEFINE c == [i \in H |-> P[i][e].count]
                  cc == [i \in H' |-> P'[i][e].count]
                  hh == [i \in H |-> P[i][e].hit]
                  hhh == [i \in H' |-> P'[i][e].hit]
                  m == [i \in H |-> P[i][e].miss]
                  mm == [i \in H' |-> P'[i][e].miss]
      <3>3. Total(cc) = Total(c) + new.count /\ Total(c) \in Nat
        <4>1. /\ c \in [H -> Nat] /\ cc \in [H \cup {n} -> Nat] /\ cc[n] = new.count
              /\ \A i \in H : cc[i] = c[i]
          BY <1>5, <3>1, FieldTypes
        <4>. HIDE DEF c, cc, n, P
        <4>2. n \notin H
          BY <3>1
        <4>. QED BY <3>2, <4>1, <4>2, TotalOneMore
      <3>4. Total(hhh) = Total(hh) + new.hit /\ Total(hh) \in Nat
        <4>1. /\ hh \in [H -> Nat] /\ hhh \in [H \cup {n} -> Nat] /\ hhh[n] = new.hit
              /\ \A i \in H : hhh[i] = hh[i]
          BY <1>5, <3>1, FieldTypes
        <4>. HIDE DEF hh, hhh, n, P
        <4>2. n \notin H
          BY <3>1
        <4>. QED BY <3>2, <4>1, <4>2, TotalOneMore
      <3>5. Total(mm) = Total(m) + new.miss /\ Total(m) \in Nat
        <4>1. /\ m \in [H -> Nat] /\ mm \in [H \cup {n} -> Nat] /\ mm[n] = new.miss
              /\ \A i \in H : mm[i] = m[i]
          BY <1>5, <3>1, FieldTypes
        <4>. HIDE DEF m, mm, n, P
        <4>2. n \notin H
          BY <3>1
        <4>. QED BY <3>2, <4>1, <4>2, TotalOneMore
      <3>6. ASSUME NEW b \in 0 .. Last
            PROVE  /\ Total([i \in H' |-> P'[i][e].histogram[b]])
                        = Total([i \in H |-> P[i][e].histogram[b]]) + new.histogram[b]
                   /\ Total([i \in H |-> P[i][e].histogram[b]]) \in Nat
        <4>. DEFINE v == [i \in H |-> P[i][e].histogram[b]]
                    vv == [i \in H' |-> P'[i][e].histogram[b]]
        <4>1. (\A i \in H : P[i][e].histogram[b] \in Nat) /\ new.histogram[b] \in Nat
          BY <1>5, <3>1, FieldTypes
        <4>2. /\ v \in [H -> Nat] /\ vv \in [H \cup {n} -> Nat] /\ vv[n] = new.histogram[b]
              /\ \A i \in H : vv[i] = v[i]
          BY <3>1, <4>1
        <4>. HIDE DEF v, vv, n, P
        <4>3. Total(vv) = Total(v) + new.histogram[b] /\ Total(v) \in Nat
          <5>1. n \notin H
            BY <3>1
          <5>. QED BY <3>2, <4>2, <5>1, TotalOneMore
        <4>. QED BY <4>3 DEF v, vv
      <3>. HIDE DEF c, cc, hh, hhh, m, mm
      <3>7. CASE e \in DOMAIN A
        <4>1. H /= {}
          BY <3>0, <3>7 DEF SumsOver, H
        <4>2. /\ A[e].count = Total(c) /\ A[e].hit = Total(hh) /\ A[e].miss = Total(m)
              /\ \A b \in 0 .. Last : A[e].histogram[b] = Total([i \in H |-> P[i][e].histogram[b]])
          BY <3>0, <4>1 DEF SumsOver, H, c, hh, m
        <4>3. /\ A'[e].count = A[e].count + new.count /\ A'[e].hit = A[e].hit + new.hit
              /\ A'[e].miss = A[e].miss + new.miss
              /\ \A b \in 0 .. Last : A'[e].histogram[b] = A[e].histogram[b] + new.histogram[b]
          BY <1>5, <1>9, <1>12, <3>7, SumAddsCounters
        <4>4. /\ A'[e].count = Total(cc) /\ A'[e].hit = Total(hhh) /\ A'[e].miss = Total(mm)
              /\ \A b \in 0 .. Last : A'[e].histogram[b] = Total([i \in H' |-> P'[i][e].histogram[b]])
          BY <3>3, <3>4, <3>5, <3>6, <4>2, <4>3
        <4>. QED BY <1>12, <3>1, <4>4 DEF SumsOver, H, cc, hhh, mm
      <3>8. CASE e \notin DOMAIN A
        <4>1. H = {}
          BY <3>0, <3>8 DEF SumsOver, H
        <4>2. /\ Total(c) = 0 /\ Total(hh) = 0 /\ Total(m) = 0
              /\ \A b \in 0 .. Last : Total([i \in H |-> P[i][e].histogram[b]]) = 0
          BY <4>1, TotalOfNoSnapshot DEF c, hh, m
        <4>3. new.count \in Nat /\ new.hit \in Nat /\ new.miss \in Nat /\ \A b \in 0 .. Last : new.histogram[b] \in Nat
          BY <1>5, FieldTypes
        <4>4. /\ A'[e].count = Total(cc) /\ A'[e].hit = Total(hhh) /\ A'[e].miss = Total(mm)
              /\ \A b \in 0 .. Last : A'[e].histogram[b] = Total([i \in H' |-> P'[i][e].histogram[b]])
          <5>1. A'[e] = new
            BY <1>12, <3>8
          <5>2. \A b \in 0 .. Last : new.histogram[b] = Total([i \in H' |-> P'[i][e].histogram[b]])
            <6>. TAKE b \in 0 .. Last
            <6>1. new.histogram[b] \in Nat /\ Total([i \in H |-> P[i][e].histogram[b]]) = 0
              BY <4>2, <4>3
            <6>2. Total([i \in H' |-> P'[i][e].histogram[b]])
                    = Total([i \in H |-> P[i][e].histogram[b]]) + new.histogram[b]
              BY <3>6
            <6>. QED BY <6>1, <6>2
          <5>3. new.count = Total(cc) /\ new.hit = Total(hhh) /\ new.miss = Total(mm)
            BY <3>3, <3>4, <3>5, <4>2, <4>3
          <5>. QED BY <5>1, <5>2, <5>3
        <4>. QED BY <1>12, <3>1, <4>4 DEF SumsOver, H, cc, hhh, mm
      <3>. QED BY <3>7, <3>8
    <2>. QED BY <2>2, <2>3
  <1>. QED BY <1>6, <1>7, <1>13, <1>14, <1>15 DEF LoggerInv, TimersInv, TimersAreExact

-----------------------------------------------------------------------------
LEMMA LoggerInvInit == LoggerInit => LoggerInv
  <1>. SUFFICES ASSUME LoggerInit PROVE LoggerInv
    OBVIOUS
  <1>1. /\ clock = 0 /\ timer = [e \in Entries |-> Fresh] /\ current_session = {SessionTime}
        /\ previous_sessions = << >> /\ aggregated_sessions = << >> /\ to_merge = {} /\ ahead = {}
        /\ phase = [e \in Entries |-> "off"]
        /\ due = [e \in Entries |-> 0] /\ closed = [e \in Entries |-> 0]
    BY DEF LoggerInit
  <1>2. MaxTime \in Nat /\ SessionTime \in Entries /\ Histograms \subseteq Entries
    BY EntriesAssumption DEF Entries
  <1>3. Fresh \in Field /\ Shown(Fresh) = 0 /\ ~Running(Fresh) /\ Past(Fresh, 0) /\ Total(Fresh.histogram) = 0
    <2>. DEFINE zero == [b \in 0 .. Last |-> 0]
    <2>1. zero \in [0 .. Last -> Nat] /\ \A b \in 0 .. Last : zero[b] = 0
      OBVIOUS
    <2>. HIDE DEF zero
    <2>2. Total(zero) = 0
      BY <2>1, TotalOfNothing
    <2>3. Fresh = [count |-> 0, last_start |-> 0, last_stop |-> 0, hit |-> 0, miss |-> 0, histogram |-> zero]
      BY DEF Fresh, zero
    <2>. QED BY <1>2, <2>1, <2>2, <2>3 DEF Field, Shown, Running, Past
  <1>4. \A e \in Entries : timer[e] = Fresh /\ phase[e] = "off" /\ due[e] = 0 /\ closed[e] = 0
    BY <1>1
  <1>5. TimerTypes
    <2>1. << >> \in Seq({<< >>[i] : i \in DOMAIN << >>})
      BY EmptyMap
    <2>2. IsMap(<< >>)
      BY EmptyMap DEF IsMap
    <2>. QED BY <1>1, <1>2, <1>3, <2>1, <2>2, EmptyMap DEF TimerTypes
  <1>6. DueTimeIsCounted /\ HistogramHoldsClosedIntervals /\ TimesArePast /\ PhaseIsRunning
    BY <1>1, <1>2, <1>3, <1>4 DEF DueTimeIsCounted, HistogramHoldsClosedIntervals, TimesArePast, PhaseIsRunning
  <1>7. MergeIsInOrder
    BY <1>1, EmptyMap DEF MergeIsInOrder
  <1>8. AggregateIsSumOfSnapshots
    BY <1>1, EmptyMap DEF AggregateIsSumOfSnapshots
  <1>. QED BY <1>5, <1>6, <1>7, <1>8 DEF LoggerInv, TimersInv, TimersAreExact

LEMMA LoggerInvNext == LoggerInv /\ [LoggerNext]_logger_vars => LoggerInv'
  <1>. SUFFICES ASSUME LoggerInv, [LoggerNext]_logger_vars PROVE LoggerInv'
    OBVIOUS
  <1>1. ASSUME NEW e \in Entries, AddEntry(e) PROVE LoggerInv'
    BY <1>1, AddEntryKeeps
  <1>2. ASSUME NEW e \in Entries, MergeEntry(e) PROVE LoggerInv'
    BY <1>2, MergeEntryKeeps
  <1>3. ASSUME NEW e \in Entries, StartTimer(e) PROVE LoggerInv'
    BY <1>3, StartTimerKeeps
  <1>4. ASSUME NEW e \in Entries, StopTimer(e) PROVE LoggerInv'
    BY <1>4, StopTimerKeeps
  <1>5. CASE EndSession
    BY <1>5, EndSessionKeeps
  <1>6. CASE ResetAllEntries
    BY <1>6, ResetAllEntriesKeeps
  <1>7. CASE UNCHANGED logger_vars
    <2>1. UNCHANGED <<clock, timer, current_session, previous_sessions, aggregated_sessions, to_merge, ahead,
                      phase, due, closed>>
      BY <1>7 DEF logger_vars, sessions, ghosts
    <2>2. TimerTypes'
      BY <2>1 DEF LoggerInv, TimersInv, TimersAreExact, TimerTypes, IsMap
    <2>3. (DueTimeIsCounted /\ HistogramHoldsClosedIntervals /\ TimesArePast /\ PhaseIsRunning)'
      BY <2>1 DEF LoggerInv, TimersInv, TimersAreExact, DueTimeIsCounted, HistogramHoldsClosedIntervals,
                  TimesArePast, PhaseIsRunning
    <2>4. (MergeIsInOrder /\ AggregateIsSumOfSnapshots)'
      BY <2>1 DEF LoggerInv, MergeIsInOrder, AggregateIsSumOfSnapshots
    <2>. QED BY <2>2, <2>3, <2>4 DEF LoggerInv, TimersInv, TimersAreExact
  <1>8. SessionTime \in Entries
    BY EntriesAssumption DEF Entries
  <1>. QED BY <1>1, <1>2, <1>3, <1>4, <1>5, <1>6, <1>7, <1>8 DEF LoggerNext, StartSession

LEMMA LoggerInvHolds == LoggerSpec => []LoggerInv
  BY LoggerInvInit, LoggerInvNext, PTL DEF LoggerSpec

\* Whatever the order of starts, stops, registrations, resets and ends of sessions, every entry
\* shows the time from each start to the stop, the restart or the end of session after it, and a
\* histogram the intervals that a start or a stop closed.
THEOREM TimersExact == LoggerSpec => []TimersAreExact
  <1>1. LoggerInv => TimersAreExact
    BY DEF LoggerInv, TimersInv
  <1>. QED BY <1>1, LoggerInvHolds, PTL

\* end_session's merge of the sorted maps loses nothing: after every turn of its loop the total
\* of an entry is the sum of the snapshots that hold it, counter by counter.
THEOREM AggregatesAreSums == LoggerSpec => []AggregateIsSumOfSnapshots
  <1>1. LoggerInv => AggregateIsSumOfSnapshots
    BY DEF LoggerInv
  <1>. QED BY <1>1, LoggerInvHolds, PTL
=============================================================================
