------------------------------- MODULE Logger -------------------------------
(***************************************************************************)
(* TITUS_Logger: the timers of a process, the sessions that close over     *)
(* them, the snapshots a closed session leaves and the map of aggregated   *)
(* counters.  A program may call start, stop, start_session, end_session,  *)
(* reset_all_entries and register entries in any order; each call reads    *)
(* the time stamp counter, which has moved since the call before it.       *)
(***************************************************************************)
EXTENDS Integers, Sequences, FiniteSets

CONSTANTS
    Plain,       \* TITUS_Logger_Entry_Timer_ns, named by naturals (map order)
    Histograms,  \* TITUS_Logger_Entry_Timer_ns_pow_histogram
    Thefts,      \* TITUS_DLB_Context_impl::Logger_Entry_Time_spent_stealing
    SessionTime, \* the logger's own session_time, one of Plain
    Delays,      \* the ticks that may pass between two calls
    Buckets,     \* the number of buckets of a histogram
    HistStart,   \* their first bound in nanoseconds; the power is 2
    MaxTime, MaxSessions \* bounds of the exploration

Entries == Plain \cup Histograms \cup Thefts

ASSUME EntriesAssumption ==
    /\ Entries \subseteq Nat /\ SessionTime \in Plain
    /\ Plain \cap Histograms = {} /\ Thefts \cap (Plain \cup Histograms) = {}
    /\ Delays \subseteq Nat \ {0} /\ Buckets \in Nat \ {0} /\ HistStart \in Nat
    /\ MaxTime \in Nat /\ MaxSessions \in Nat

VARIABLES
    clock,             \* the last value rdtsc returned
    timer,             \* [Entries -> the fields of the entry]
    current_session,   \* the registered entries
    previous_sessions, \* the snapshots, one per closed session
    aggregated_sessions,
    to_merge,          \* end_session: the entries its loop has not come to
    ahead,             \* end_session: the keys `it' has not passed, the one it is at included
    \* what the program did, to compare the entries with
    phase,             \* "on" from a start to a stop or the end of a session, else "off"
    due,               \* ticks spent "on"
    closed             \* intervals that a start or a stop ended

ghosts == <<phase, due, closed>>
sessions == <<previous_sessions, aggregated_sessions, to_merge, ahead>>
logger_vars == <<clock, timer, current_session, sessions, ghosts>>

\* The last bucket of a histogram.
Last == Buckets - 1

Fresh == [count |-> 0, last_start |-> 0, last_stop |-> 0, hit |-> 0, miss |-> 0,
          histogram |-> [b \in 0 .. Last |-> 0]]

\* to_ns divides by 2.4 and truncates.
ToNs(ticks) == (ticks * 5) \div 12

\* The bucket of a duration: below start the first, else the truncated logarithm of
\* arg - start, at most the last. log(0) is -inf, whose conversion to size_t is undefined:
\* it gives 0 (folded) or a huge value (cvttsd2si), that is the first or the last bucket.
BucketOf(ns) ==
    CASE ns < HistStart -> {0}
      [] ns = HistStart -> {0, Last}
      [] OTHER -> {b \in 0 .. Last : 2^b <= ns - HistStart /\ (b < Last => ns - HistStart < 2^(b + 1))}

Running(t) == t.last_start > t.last_stop
\* mutant: the interval is added although the timer is stopped
MutAccumulate(t, now) == [t EXCEPT !.count = @ + now - t.last_start]
Accumulate(t, now) == IF Running(t) THEN [t EXCEPT !.count = @ + now - t.last_start] ELSE t
Started(t, now) == [Accumulate(t, now) EXCEPT !.last_start = now]
Stopped(t, now) == [Accumulate(t, now) EXCEPT !.last_stop = now]
\* finalize() is Timer_ns::stop() for every class: neither a histogram nor hit and miss see it.
Finalized(t, now) == Stopped(t, now)

\* The start() and stop() of a histogram timer also enter the interval they close.
Recorded(t, new, now) ==
    IF Running(t)
    THEN {[new EXCEPT !.histogram[b] = @ + 1] : b \in BucketOf(ToNs(now - t.last_start))}
    ELSE {new}

\* stop(theft_hit): what the stop accumulated goes to the hits or to the misses, count restarts.
\* (The two histograms of the class, one entry per stop, are left out.)
TheftStopped(t, now, theft_hit) ==
    LET s == Stopped(t, now)
    IN [s EXCEPT !.hit = IF theft_hit THEN @ + s.count ELSE @,
                 !.miss = IF theft_hit THEN @ ELSE @ + s.count,
                 !.count = 0]

\* reset() restores the count, and with it hit, miss and histogram; the two time stamps stay,
\* so a running timer will still add all of the interval it is in.
Reset(t) == [Fresh EXCEPT !.last_start = t.last_start, !.last_stop = t.last_stop]

\* aggregate() of a counter, of a histogram and of a theft timer.
AddCounter(a, b) == [a EXCEPT !.count = @ + b.count]
AddHistogram(a, b) == [a EXCEPT !.histogram = [i \in DOMAIN @ |-> @[i] + b.histogram[i]]]
AddThefts(a, b) == [a EXCEPT !.hit = @ + b.hit, !.miss = @ + b.miss]
Sum(a, b) == AddThefts(AddHistogram(AddCounter(a, b), b), b)

LoggerInit ==
    /\ clock = 0
    /\ timer = [e \in Entries |-> Fresh]
    /\ current_session = {SessionTime}
    /\ previous_sessions = <<>>
    /\ aggregated_sessions = <<>>
    /\ to_merge = {} /\ ahead = {}
    /\ phase = [e \in Entries |-> "off"]
    /\ due = [e \in Entries |-> 0]
    /\ closed = [e \in Entries |-> 0]

\* Time passes before every call; the ghosts follow it.
Advance(delays) ==
    \E delay \in delays :
        /\ clock + delay <= MaxTime
        /\ clock' = clock + delay
        /\ due' = [e \in Entries |-> due[e] + IF phase[e] = "on" THEN delay ELSE 0]

Called(e, new) ==
    /\ timer' = [timer EXCEPT ![e] = new]
    /\ phase' = [phase EXCEPT ![e] = IF new.last_start = clock' THEN "on" ELSE "off"]

Closed(e) == closed' = [closed EXCEPT ![e] = @ + IF phase[e] = "on" THEN 1 ELSE 0]

\* end_session runs to its end before the program makes another call.
Idle == to_merge = {}

\* add_entry, under the spin lock; it asserts that the name is new.
AddEntry(e) ==
    /\ Idle /\ e \notin current_session
    /\ current_session' = current_session \cup {e}
    /\ UNCHANGED <<clock, timer, sessions, ghosts>>

StartTimer(e) ==
    /\ Idle /\ e \in current_session
    /\ Advance(Delays)
    /\ \E new \in IF e \in Histograms THEN Recorded(timer[e], Started(timer[e], clock'), clock')
                  ELSE {Started(timer[e], clock')} : Called(e, new)
    /\ Closed(e)
    /\ UNCHANGED <<current_session, sessions>>

StopTimer(e) ==
    /\ Idle /\ e \in current_session
    /\ Advance(Delays)
    /\ \E new \in IF e \in Histograms THEN Recorded(timer[e], Stopped(timer[e], clock'), clock')
                  ELSE IF e \in Thefts THEN {TheftStopped(timer[e], clock', h) : h \in BOOLEAN}
                  ELSE {Stopped(timer[e], clock')} : Called(e, new)
    /\ Closed(e)
    /\ UNCHANGED <<current_session, sessions>>

StartSession == StartTimer(SessionTime)

\* end_session, up to its loop: a new map, and `it' at the first aggregated key.
EndSession ==
    /\ Idle /\ Len(previous_sessions) < MaxSessions
    /\ Advance(Delays)
    /\ Called(SessionTime, Stopped(timer[SessionTime], clock')) /\ Closed(SessionTime)
    /\ previous_sessions' = Append(previous_sessions, <<>>)
    /\ to_merge' = current_session
    /\ ahead' = DOMAIN aggregated_sessions
    /\ UNCHANGED <<current_session, aggregated_sessions>>

\* insert() of a map, which does nothing when the key is there.
Insert(map, key, value) ==
    [k \in DOMAIN map \cup {key} |-> IF k \in DOMAIN map THEN map[k] ELSE value]

\* mutant: `it' also passes the entry itself
MutFrom(keys, e) == {k \in keys : k > e}
\* `it' moves forward over the sorted map to the entry or to the key after it.
From(keys, e) == {k \in keys : k >= e}

\* A turn of end_session's loop, in the order of the keys: the entry's timer is stopped for good,
\* the snapshot and the aggregated counters take what it has.
MergeEntry(e) ==
    /\ e \in to_merge /\ \A other \in to_merge : e <= other
    /\ Advance({0} \cup Delays)
    /\ Called(e, Finalized(timer[e], clock'))
    /\ previous_sessions' = [previous_sessions EXCEPT ![Len(previous_sessions)] = Insert(@, e, timer'[e])]
    /\ aggregated_sessions' = IF e \in From(ahead, e)
                              THEN [aggregated_sessions EXCEPT ![e] = Sum(@, timer'[e])]
                              ELSE Insert(aggregated_sessions, e, timer'[e])
    /\ to_merge' = to_merge \ {e}
    /\ ahead' = From(ahead, e) \cup {e}
    /\ UNCHANGED <<current_session, closed>>

ResetAllEntries ==
    /\ Idle
    /\ timer' = [e \in Entries |-> IF e \in current_session THEN Reset(timer[e]) ELSE timer[e]]
    /\ due' = [e \in Entries |-> IF e \notin current_session THEN due[e]
                                 ELSE IF phase[e] = "on" THEN clock - timer[e].last_start ELSE 0]
    /\ closed' = [e \in Entries |-> IF e \in current_session THEN 0 ELSE closed[e]]
    /\ UNCHANGED <<clock, current_session, sessions, phase>>

LoggerNext ==
    \/ \E e \in Entries : AddEntry(e) \/ MergeEntry(e)
    \/ \E e \in Entries \ {SessionTime} : StartTimer(e) \/ StopTimer(e)
    \/ StartSession \/ EndSession \/ ResetAllEntries

LoggerSpec == LoggerInit /\ [][LoggerNext]_logger_vars

-----------------------------------------------------------------------------
Field == [count : Nat, last_start : 0 .. MaxTime, last_stop : 0 .. MaxTime, hit : Nat, miss : Nat,
          histogram : [0 .. Last -> Nat]]

IsMap(map) == DOMAIN map \subseteq current_session /\ map \in [DOMAIN map -> Field]

\* The state variables keep their types; a map holds entries that are registered.
TimerTypes ==
    /\ clock \in 0 .. MaxTime
    /\ timer \in [Entries -> Field]
    /\ SessionTime \in current_session /\ current_session \subseteq Entries
    /\ previous_sessions \in Seq({previous_sessions[i] : i \in DOMAIN previous_sessions})
    /\ \A i \in DOMAIN previous_sessions : IsMap(previous_sessions[i])
    /\ IsMap(aggregated_sessions)
    /\ to_merge \subseteq current_session /\ ahead \subseteq DOMAIN aggregated_sessions
    /\ phase \in [Entries -> {"off", "on"}]
    /\ due \in [Entries -> Nat] /\ closed \in [Entries -> Nat]

\* What an entry shows: the count, split in hits and misses for the thefts.
Shown(t) == t.count + t.hit + t.miss

\* Repeated starts, stops without a start, registrations, resets and sessions that close over a
\* running timer never make an entry show more or less than the time from each start to the
\* stop, the restart or the end of session that follows (Accumulate and both callers).
DueTimeIsCounted ==
    \A e \in Entries :
        Shown(timer[e]) + (IF Running(timer[e]) THEN clock - timer[e].last_start ELSE 0) = due[e]

\* The sum of the values of a function, as the size of as many elements.
Units(f) == UNION {{x} \X (1 .. f[x]) : x \in DOMAIN f}
Total(f) == Cardinality(Units(f))

\* A histogram holds exactly the intervals that a start or a stop closed: those a session end
\* closed are in the count and not in the histogram (finalize bypasses the insertion).
HistogramHoldsClosedIntervals == \A e \in Histograms : Total(timer[e].histogram) = closed[e]

\* The timers are exact, in their counts and in their histograms.
TimersAreExact == TimerTypes /\ DueTimeIsCounted /\ HistogramHoldsClosedIntervals

\* The merge of the sorted maps loses no session and no entry, entries registered between two
\* sessions included: a total is the sum of the snapshots that hold the entry, its count, its
\* hits, its misses and each of its buckets, after every turn of the loop.
AggregateIsSumOfSnapshots ==
    \A e \in Entries :
        LET held == {i \in DOMAIN previous_sessions : e \in DOMAIN previous_sessions[i]}
            total == aggregated_sessions[e]
        IN /\ e \in DOMAIN aggregated_sessions <=> held /= {}
           /\ held /= {} =>
              /\ total.count = Total([i \in held |-> previous_sessions[i][e].count])
              /\ total.hit = Total([i \in held |-> previous_sessions[i][e].hit])
              /\ total.miss = Total([i \in held |-> previous_sessions[i][e].miss])
              /\ \A b \in 0 .. Last :
                    total.histogram[b] = Total([i \in held |-> previous_sessions[i][e].histogram[b]])
=============================================================================
