-------------------------- MODULE ConnectionsProofs --------------------------
(***************************************************************************)
(* Proofs about Connections, for any number of ranks, contexts, problems   *)
(* and results: handshakes and results are kept apart, whatever a rank     *)
(* works with is set up, and with enough queues none is misused.           *)
(***************************************************************************)
EXTENDS Connections, SequenceTheorems, TLAPS

-----------------------------------------------------------------------------
(* What may be left of the constructor and of set_problem *)

Dvs1     == <<<<"dvs", TASK>>>>
Barrier2 == <<<<"barrier", TASK>>, <<"dvs", TASK>>>>
Tree3    == <<<<"tree", TASK>>, <<"barrier", TASK>>, <<"dvs", TASK>>>>
Create4  == TaskSegmentSteps

Work1 == <<<<"work", TASK>>>>
Open1 == <<<<"open", TASK>>, <<"work", TASK>>>>
Open2 == <<<<"open", TMP>>, <<"open", TASK>>, <<"work", TASK>>>>
Open3 == <<<<"open", RESULT>>, <<"open", TMP>>, <<"open", TASK>>, <<"work", TASK>>>>
Again == <<<<"barrier", TASK>>, <<"work", TASK>>>>
Sync  == <<<<"barrier", TASK>>>> \o (IF Dynamic THEN Open3 ELSE Work1)
Make1 == <<<<"create", SCRATCH>>>> \o Sync
Make2 == <<<<"create", TMP>>>> \o Make1
Make3 == <<<<"create", RESULT>>>> \o Make2

Kinds == {TASK, RESULT, TMP, SCRATCH}
StepKind == {"create", "tree", "barrier", "dvs", "open", "work"} \X Kinds

LEMMA ConcatIs ==
  ASSUME NEW S, NEW s \in Seq(S), NEW t \in Seq(S), NEW u \in Seq(S),
         Len(u) = Len(s) + Len(t),
         \A i \in 1 .. Len(u) : u[i] = IF i <= Len(s) THEN s[i] ELSE t[i - Len(s)]
  PROVE  s \o t = u
<1>. DEFINE v == s \o t
<1>1. v \in Seq(S) /\ Len(v) = Len(u) /\ \A i \in 1 .. Len(v) : v[i] = u[i]
  BY ConcatProperties
<1>. HIDE DEF v
<1>2. v = u
  BY <1>1, SeqEqual
<1>. QED BY <1>2 DEF v

LEMMA OneAndOne ==
  ASSUME NEW S, NEW a \in S, NEW b \in S
  PROVE  <<a>> \o <<b>> = <<a, b>>
<1>. DEFINE s == <<a>> t == <<b>> u == <<a, b>>
<1>1. s \in Seq(S) /\ Len(s) = 1 /\ s[1] = a
  OBVIOUS
<1>2. t \in Seq(S) /\ Len(t) = 1 /\ t[1] = b
  OBVIOUS
<1>3. u \in Seq(S) /\ Len(u) = 2 /\ u[1] = a /\ u[2] = b
  OBVIOUS
<1>. HIDE DEF s, t, u
<1>4. Len(u) = Len(s) + Len(t)
  BY <1>1, <1>2, <1>3
<1>5. \A i \in 1 .. Len(u) : u[i] = IF i <= Len(s) THEN s[i] ELSE t[i - Len(s)]
  BY <1>1, <1>2, <1>3
<1>6. s \o t = u
  BY <1>1, <1>2, <1>3, <1>4, <1>5, ConcatIs
<1>. QED BY <1>6 DEF s, t, u

LEMMA OneAndTwo ==
  ASSUME NEW S, NEW a \in S, NEW b \in S, NEW c \in S
  PROVE  <<a>> \o <<b, c>> = <<a, b, c>>
<1>. DEFINE s == <<a>> t == <<b, c>> u == <<a, b, c>>
<1>1. s \in Seq(S) /\ Len(s) = 1 /\ s[1] = a
  OBVIOUS
<1>2. t \in Seq(S) /\ Len(t) = 2 /\ t[1] = b /\ t[2] = c
  OBVIOUS
<1>3. u \in Seq(S) /\ Len(u) = 3 /\ u[1] = a /\ u[2] = b /\ u[3] = c
  OBVIOUS
<1>. HIDE DEF s, t, u
<1>4. Len(u) = Len(s) + Len(t)
  BY <1>1, <1>2, <1>3
<1>5. \A i \in 1 .. Len(u) : u[i] = IF i <= Len(s) THEN s[i] ELSE t[i - Len(s)]
  BY <1>1, <1>2, <1>3
<1>6. s \o t = u
  BY <1>1, <1>2, <1>3, <1>4, <1>5, ConcatIs
<1>. QED BY <1>6 DEF s, t, u

LEMMA ThreeAndOne ==
  ASSUME NEW S, NEW a \in S, NEW b \in S, NEW c \in S, NEW d \in S
  PROVE  <<a, b, c>> \o <<d>> = <<a, b, c, d>>
<1>. DEFINE s == <<a, b, c>> t == <<d>> u == <<a, b, c, d>>
<1>1. s \in Seq(S) /\ Len(s) = 3 /\ s[1] = a /\ s[2] = b /\ s[3] = c
  OBVIOUS
<1>2. t \in Seq(S) /\ Len(t) = 1 /\ t[1] = d
  OBVIOUS
<1>3. u \in Seq(S) /\ Len(u) = 4 /\ u[1] = a /\ u[2] = b /\ u[3] = c /\ u[4] = d
  OBVIOUS
<1>. HIDE DEF s, t, u
<1>4. Len(u) = Len(s) + Len(t)
  BY <1>1, <1>2, <1>3
<1>5. \A i \in 1 .. Len(u) : u[i] = IF i <= Len(s) THEN s[i] ELSE t[i - Len(s)]
  BY <1>1, <1>2, <1>3
<1>6. s \o t = u
  BY <1>1, <1>2, <1>3, <1>4, <1>5, ConcatIs
<1>. QED BY <1>6 DEF s, t, u

LEMMA Prepended ==
  ASSUME NEW S, NEW e \in S, NEW s \in Seq(S)
  PROVE  /\ <<e>> \o s \in Seq(S) /\ <<e>> \o s # <<>>
         /\ Head(<<e>> \o s) = e /\ Tail(<<e>> \o s) = s
<1>1. <<e>> \in Seq(S) /\ Len(<<e>>) = 1 /\ Len(s) \in Nat /\ <<e>>[1] = e
  OBVIOUS
<1>2. /\ <<e>> \o s \in Seq(S) /\ Len(<<e>> \o s) = 1 + Len(s)
      /\ (<<e>> \o s)[1] = e /\ \A i \in 1 .. Len(s) : (<<e>> \o s)[i + 1] = s[i]
  BY <1>1
<1>3. Tail(<<e>> \o s) = s
  BY <1>1, <1>2
<1>. QED BY <1>1, <1>2, <1>3

LEMMA Lists ==
  /\ Dvs1 # <<>> /\ Head(Dvs1) = <<"dvs", TASK>> /\ Tail(Dvs1) = <<>>
  /\ Barrier2 # <<>> /\ Head(Barrier2) = <<"barrier", TASK>> /\ Tail(Barrier2) = Dvs1
  /\ Tree3 # <<>> /\ Head(Tree3) = <<"tree", TASK>> /\ Tail(Tree3) = Barrier2
  /\ Create4 # <<>> /\ Head(Create4) = <<"create", TASK>> /\ Tail(Create4) = Tree3
  /\ Work1 # <<>> /\ Head(Work1) = <<"work", TASK>> /\ Tail(Work1) = <<>>
  /\ Open1 # <<>> /\ Head(Open1) = <<"open", TASK>> /\ Tail(Open1) = Work1
  /\ Open2 # <<>> /\ Head(Open2) = <<"open", TMP>> /\ Tail(Open2) = Open1
  /\ Open3 # <<>> /\ Head(Open3) = <<"open", RESULT>> /\ Tail(Open3) = Open2
  /\ Again # <<>> /\ Head(Again) = <<"barrier", TASK>> /\ Tail(Again) = Work1
  BY DEF Dvs1, Barrier2, Tree3, Create4, TaskSegmentSteps, Work1, Open1, Open2, Open3, Again
LEMMA LongLists ==
  /\ Sync # <<>> /\ Head(Sync) = <<"barrier", TASK>> /\ Tail(Sync) = IF Dynamic THEN Open3 ELSE Work1
  /\ Make1 # <<>> /\ Head(Make1) = <<"create", SCRATCH>> /\ Tail(Make1) = Sync
  /\ Make2 # <<>> /\ Head(Make2) = <<"create", TMP>> /\ Tail(Make2) = Make1
  /\ Make3 # <<>> /\ Head(Make3) = <<"create", RESULT>> /\ Tail(Make3) = Make2
<1>. DEFINE rest == IF Dynamic THEN Open3 ELSE Work1
<1>1. rest \in Seq(StepKind)
  <2>1. Open3 \in Seq(StepKind)
    BY DEF Open3, StepKind, Kinds
  <2>2. Work1 \in Seq(StepKind)
    BY DEF Work1, StepKind, Kinds
  <2>. QED BY <2>1, <2>2
<1>2. \A k \in Kinds : <<"create", k>> \in StepKind /\ <<"barrier", k>> \in StepKind
  BY DEF StepKind
<1>. HIDE DEF StepKind, rest
<1>3. Sync = <<<<"barrier", TASK>>>> \o rest
  BY DEF Sync, rest
<1>4. /\ Sync \in Seq(StepKind) /\ Sync # <<>>
      /\ Head(Sync) = <<"barrier", TASK>> /\ Tail(Sync) = rest
  BY <1>1, <1>2, <1>3, Prepended DEF Kinds
<1>5. /\ Make1 \in Seq(StepKind) /\ Make1 # <<>>
      /\ Head(Make1) = <<"create", SCRATCH>> /\ Tail(Make1) = Sync
  BY <1>2, <1>4, Prepended DEF Make1, Kinds
<1>6. /\ Make2 \in Seq(StepKind) /\ Make2 # <<>>
      /\ Head(Make2) = <<"create", TMP>> /\ Tail(Make2) = Make1
  BY <1>2, <1>5, Prepended DEF Make2, Kinds
<1>7. /\ Make3 # <<>>
      /\ Head(Make3) = <<"create", RESULT>> /\ Tail(Make3) = Make2
  BY <1>2, <1>6, Prepended DEF Make3, Kinds
<1>. QED BY <1>4, <1>5, <1>6, <1>7 DEF rest

LEMMA Problems == SetProblemSteps(TRUE) = Make3 /\ SetProblemSteps(FALSE) = Again
<1>. DEFINE c     == <<<<"create", RESULT>>, <<"create", TMP>>, <<"create", SCRATCH>>>>
            c1    == <<<<"create", RESULT>>>>
            c2    == <<<<"create", TMP>>>>
            c3    == <<<<"create", SCRATCH>>>>
            b     == <<<<"barrier", TASK>>>>
            opens == IF Dynamic THEN OpenSteps ELSE <<>>
            rest  == IF Dynamic THEN Open3 ELSE Work1
<1>1. /\ c1 \in Seq(StepKind) /\ c2 \in Seq(StepKind) /\ c3 \in Seq(StepKind) /\ b \in Seq(StepKind)
      /\ Work1 \in Seq(StepKind) /\ OpenSteps \in Seq(StepKind)
  BY DEF StepKind, Kinds, Work1, OpenSteps
<1>2. opens \in Seq(StepKind)
  BY <1>1
<1>3. c = c1 \o (c2 \o c3) /\ b \o Work1 = Again
  <2>1. \A k \in Kinds, step \in {"create", "barrier", "work"} : <<step, k>> \in StepKind
    BY DEF StepKind
  <2>2. c2 \o c3 = <<<<"create", TMP>>, <<"create", SCRATCH>>>>
    BY <2>1, OneAndOne DEF Kinds
  <2>3. c1 \o <<<<"create", TMP>>, <<"create", SCRATCH>>>> = c
    BY <2>1, OneAndTwo DEF Kinds
  <2>4. b \o Work1 = Again
    BY <2>1, OneAndOne DEF Work1, Again, Kinds
  <2>. QED BY <2>2, <2>3, <2>4
<1>4. opens \o Work1 = rest
  <2>1. OpenSteps \o Work1 = Open3
    <3>. DEFINE o1 == <<"open", RESULT>> o2 == <<"open", TMP>> o3 == <<"open", TASK>> w == <<"work", TASK>>
    <3>1. o1 \in StepKind /\ o2 \in StepKind /\ o3 \in StepKind /\ w \in StepKind
      BY DEF StepKind, Kinds
    <3>2. OpenSteps = <<o1, o2, o3>> /\ Work1 = <<w>> /\ Open3 = <<o1, o2, o3, w>>
      BY DEF OpenSteps, Work1, Open3
    <3>. HIDE DEF o1, o2, o3, w
    <3>. QED BY <3>1, <3>2, ThreeAndOne
  <2>2. <<>> \o Work1 = Work1
    BY <1>1, ConcatEmptySeq
  <2>. QED BY <2>1, <2>2
<1>5. Make3 = c1 \o (c2 \o (c3 \o (b \o rest)))
  BY DEF Make3, Make2, Make1, Sync
<1>6. /\ SetProblemSteps(TRUE) = ((c \o b) \o opens) \o Work1
      /\ SetProblemSteps(FALSE) = ((<<>> \o b) \o <<>>) \o Work1
  BY DEF SetProblemSteps, Work1
<1>. HIDE DEF c, c1, c2, c3, b, opens, rest, StepKind
<1>7. SetProblemSteps(FALSE) = Again
  <2>1. <<>> \o b = b /\ b \o <<>> = b
    BY <1>1, ConcatEmptySeq
  <2>. QED BY <1>3, <1>6, <2>1
<1>8. SetProblemSteps(TRUE) = Make3
  <2>1. rest \in Seq(StepKind) /\ b \o rest \in Seq(StepKind) /\ c2 \o c3 \in Seq(StepKind)
    BY <1>1, <1>2, <1>4, ConcatProperties
  <2>2. c \in Seq(StepKind) /\ c \o b \in Seq(StepKind)
    BY <1>1, <1>3, <2>1, ConcatProperties
  <2>. DEFINE Associative(x, y, z) == (x \o y) \o z = x \o (y \o z)
  <2>0. \A x, y, z \in Seq(StepKind) : Associative(x, y, z)
    BY ConcatAssociative
  <2>3. Associative(c \o b, opens, Work1) /\ Associative(c, b, rest)
        /\ Associative(c1, c2 \o c3, b \o rest) /\ Associative(c2, c3, b \o rest)
    <3>. HIDE DEF Associative
    <3>. QED BY <1>1, <1>2, <2>0, <2>1, <2>2
  <2>. QED BY <1>3, <1>4, <1>5, <1>6, <2>3
<1>. QED BY <1>7, <1>8

\* The lists are told apart by their first steps.
LEMMA Heads ==
  /\ Head(Dvs1)[1] = "dvs" /\ Head(Barrier2)[1] = "barrier" /\ Head(Tree3)[1] = "tree"
  /\ Head(Create4)[1] = "create" /\ Head(Work1)[1] = "work" /\ Head(Again)[1] = "barrier"
  /\ Head(Open1)[1] = "open" /\ Head(Open2)[1] = "open" /\ Head(Open3)[1] = "open"
  /\ Head(Sync)[1] = "barrier" /\ Head(Make1)[1] = "create" /\ Head(Make2)[1] = "create"
  /\ Head(Make3)[1] = "create"
  /\ Head(Create4)[2] = TASK /\ Head(Make1)[2] = SCRATCH /\ Head(Make2)[2] = TMP /\ Head(Make3)[2] = RESULT
  /\ Head(Open1)[2] = TASK /\ Head(Open2)[2] = TMP /\ Head(Open3)[2] = RESULT
<1>1. /\ Head(Dvs1)[1] = "dvs" /\ Head(Barrier2)[1] = "barrier" /\ Head(Tree3)[1] = "tree"
      /\ Head(Create4)[1] = "create" /\ Head(Work1)[1] = "work" /\ Head(Again)[1] = "barrier"
      /\ Head(Open1)[1] = "open" /\ Head(Open2)[1] = "open" /\ Head(Open3)[1] = "open"
      /\ Head(Open1)[2] = TASK /\ Head(Open2)[2] = TMP /\ Head(Open3)[2] = RESULT /\ Head(Create4)[2] = TASK
  BY SMTT(30), Lists
<1>2. /\ Head(Sync)[1] = "barrier" /\ Head(Make1)[1] = "create" /\ Head(Make2)[1] = "create"
      /\ Head(Make3)[1] = "create"
      /\ Head(Make1)[2] = SCRATCH /\ Head(Make2)[2] = TMP /\ Head(Make3)[2] = RESULT
  BY LongLists
<1>. QED BY <1>1, <1>2

-----------------------------------------------------------------------------
(* What a rank may be doing *)

Opens == {Open1, Open2, Open3}

Todo  == {<<>>, Dvs1, Barrier2, Tree3, Create4, Work1, Again, Sync, Make1, Make2, Make3} \cup Opens

\* The steps t that are left belong to the constructor of context c, to its first problem, or to a
\* later one, p being the number of its problems.
TodoFits(c, p, t) ==
  /\ c = -1 => p = 0 /\ t = <<>>
  /\ p = 0 => t \in {<<>>, Dvs1, Barrier2, Tree3, Create4}
  /\ p = 1 => t \in {<<>>, Work1, Sync, Make1, Make2, Make3} \cup (IF Dynamic THEN Opens ELSE {})
  /\ p > 1 => t \in {<<>>, Work1, Again}

\* Inside a step, the step is the first of these.
ModeFits(t, m) ==
  /\ m = "collective" => t \in {Create4, Barrier2, Make3, Make2, Make1, Sync, Again}
  /\ m \in {"notify", "wait"} => t \in Opens
  /\ m = "work" => t = Work1
  /\ m = "dead" => t = Work1 \/ t \in Opens

Message == [from : Rank, to : Rank, segment : Nat, id : Rank, value : {1, 2}]

Types == TypeOK /\ wire \subseteq Message /\ notified \in [Rank -> SUBSET Message] /\ todo \in [Rank -> Todo]

ProgramInv ==
  /\ Types
  /\ \A r \in Rank : TodoFits(context[r], problems[r], todo[r]) /\ ModeFits(todo[r], mode[r])

\* The first step that is left determines the list.
LEMMA FirstStep ==
  ASSUME ProgramInv, NEW r \in Rank, todo[r] # <<>>
  PROVE  /\ Head(todo[r])[1] = "create" =>
              todo[r] \in {Create4, Make3, Make2, Make1}
         /\ Head(todo[r])[1] = "tree" => todo[r] = Tree3
         /\ Head(todo[r])[1] = "barrier" => todo[r] \in {Barrier2, Sync, Again}
         /\ Head(todo[r])[1] = "dvs" => todo[r] = Dvs1
         /\ Head(todo[r])[1] = "open" => todo[r] \in Opens
         /\ Head(todo[r])[1] = "work" => todo[r] = Work1
  <1>1. todo[r] \in Todo
    BY DEF ProgramInv, Types
  <1>. QED BY <1>1, Heads DEF Opens, Todo

\* What is left after the step that is done.
LEMMA Tails ==
  /\ Tail(Dvs1) = <<>> /\ Tail(Barrier2) = Dvs1 /\ Tail(Tree3) = Barrier2 /\ Tail(Create4) = Tree3
  /\ Tail(Work1) = <<>> /\ Tail(Open1) = Work1 /\ Tail(Open2) = Open1 /\ Tail(Open3) = Open2
  /\ Tail(Again) = Work1 /\ Tail(Sync) = IF Dynamic THEN Open3 ELSE Work1
  /\ Tail(Make1) = Sync /\ Tail(Make2) = Make1 /\ Tail(Make3) = Make2
  BY Lists, LongLists

LEMMA RestOfSteps ==
  ASSUME NEW t \in Todo, t # <<>>, NEW c, NEW p \in Nat, TodoFits(c, p, t)
  PROVE  /\ Tail(t) \in Todo /\ TodoFits(c, p, Tail(t))
  <1>1. c # -1
    BY DEF TodoFits
  <1>2. Tail(t) \in Todo
    BY Tails DEF Todo, Opens
  <1>3. CASE p = 0
    <2>1. t \in {Dvs1, Barrier2, Tree3, Create4}
      BY <1>3 DEF TodoFits
    <2>2. Tail(t) \in {<<>>, Dvs1, Barrier2, Tree3}
      BY <2>1, Tails
    <2>. QED BY <1>1, <1>2, <1>3, <2>2 DEF TodoFits
  <1>4. CASE p = 1
    <2>1. t \in {Work1, Sync, Make1, Make2, Make3} \cup (IF Dynamic THEN Opens ELSE {})
      BY <1>4 DEF TodoFits
    <2>2. Tail(t) \in {<<>>, Work1, Sync, Make1, Make2} \cup (IF Dynamic THEN Opens ELSE {})
      BY <2>1, Tails DEF Opens
    <2>. QED BY SMTT(30), <1>1, <1>2, <1>4, <2>2 DEF TodoFits
  <1>5. CASE p > 1
    <2>1. t \in {Work1, Again}
      BY <1>5 DEF TodoFits
    <2>2. Tail(t) \in {<<>>, Work1}
      BY <2>1, Tails
    <2>. QED BY <1>1, <1>2, <1>5, <2>2 DEF TodoFits
  <1>. QED BY <1>2, <1>3, <1>4, <1>5

\* What a step of r leaves alone, at other ranks.
LEMMA OtherRanks ==
  ASSUME Types, NEW r \in Rank, Step(r) \/ \E s \in Rank : Push(r, s), NEW o \in Rank \ {r}
  PROVE  /\ context'[o] = context[o] /\ problems'[o] = problems[o] /\ todo'[o] = todo[o]
         /\ mode'[o] = mode[o] /\ calls'[o] = calls[o] /\ next'[o] = next[o]
         /\ registrations_status'[o] = registrations_status[o] /\ created'[o] = created[o]
         /\ queue'[o] = queue[o] /\ notified'[o] = notified[o] /\ pushes'[o] = pushes[o]
  <1>. USE DEF Types, TypeOK, program, memory, network, To, Done, Post
  <1>1. CASE NewContext(r)
    BY <1>1 DEF NewContext
  <1>2. CASE SetProblem(r)
    BY <1>2 DEF SetProblem
  <1>3. CASE EnterCollective(r) \/ LeaveCollective(r)
    BY <1>3 DEF EnterCollective, LeaveCollective
  <1>4. CASE Register(r)
    BY <1>4 DEF Register
  <1>5. CASE OpenSegment(r) \/ SegmentIsOpen(r)
    BY <1>5 DEF OpenSegment, SegmentIsOpen
  <1>6. CASE DummyNotify(r)
    BY <1>6 DEF DummyNotify
  <1>7. CASE WaitQueue(r)
    BY <1>7 DEF WaitQueue
  <1>8. CASE DummyWait(r)
    BY <1>8 DEF DummyWait
  <1>9. CASE Work(r) \/ Finish(r)
    BY <1>9 DEF Work, Finish
  <1>10. CASE TakeResults(r)
    BY <1>10 DEF TakeResults
  <1>11. ASSUME NEW s \in Rank, Push(r, s)
         PROVE  /\ UNCHANGED <<program, memory, notified>> /\ queue'[o] = queue[o] /\ pushes'[o] = pushes[o]
    BY <1>11 DEF Push
  <1>. QED BY <1>1, <1>2, <1>3, <1>4, <1>5, <1>6, <1>7, <1>8, <1>9, <1>10, <1>11 DEF Step

LEMMA KindsOfSteps ==
  ASSUME ProgramInv, NEW r \in Rank, todo[r] # <<>>
  PROVE  /\ context[r] \in Nat /\ Kind(r) \in 0 .. 3 /\ Segment(r) \in Nat
         /\ todo[r] = Open3 => Kind(r) = RESULT
         /\ todo[r] = Open2 => Kind(r) = TMP
         /\ todo[r] = Open1 => Kind(r) = TASK
         /\ todo[r] = Create4 => Kind(r) = TASK
         /\ todo[r] = Make3 => Kind(r) = RESULT
         /\ todo[r] = Make2 => Kind(r) = TMP
         /\ todo[r] = Make1 => Kind(r) = SCRATCH
  <1>1. todo[r] \in Todo /\ context[r] \in Int /\ context[r] >= -1
    BY ConnectionsAssumption DEF ProgramInv, Types, TypeOK
  <1>2. /\ Head(Dvs1)[2] = TASK /\ Head(Barrier2)[2] = TASK /\ Head(Tree3)[2] = TASK
        /\ Head(Create4)[2] = TASK /\ Head(Work1)[2] = TASK /\ Head(Again)[2] = TASK
        /\ Head(Open1)[2] = TASK /\ Head(Open2)[2] = TMP /\ Head(Open3)[2] = RESULT
    BY SMTT(30), Lists
  <1>3. /\ Head(Sync)[2] = TASK /\ Head(Make1)[2] = SCRATCH /\ Head(Make2)[2] = TMP
        /\ Head(Make3)[2] = RESULT
    BY LongLists
  <1>4. Kind(r) \in {TASK, RESULT, TMP, SCRATCH}
    BY <1>1, <1>2, <1>3 DEF Kind, Todo, Opens
  <1>5. Kind(r) \in 0 .. 3
    BY <1>4 DEF TASK, RESULT, TMP, SCRATCH
  <1>6. context[r] \in Nat
    BY <1>1 DEF ProgramInv, TodoFits
  <1>7. Segment(r) \in Nat
    BY <1>5, <1>6 DEF Segment, SegmentId
  <1>. QED BY <1>2, <1>3, <1>5, <1>6, <1>7 DEF Kind

LEMMA QueueTypes ==
  ASSUME Types, NEW r \in Rank, NEW q \in Queue, NEW n \in Nat
  PROVE  [queue EXCEPT ![r][q] = n] \in [Rank -> [Queue -> Nat]]
  BY DEF Types, TypeOK

LEMMA ProgramInit == Init => ProgramInv
<1>. SUFFICES ASSUME Init PROVE ProgramInv
  OBVIOUS
<1>1. <<>> \in Todo
  BY DEF Todo
<1>2. Types
  BY <1>1, ConnectionsAssumption DEF Init, Types, TypeOK, Queue
<1>3. ASSUME NEW r \in Rank PROVE TodoFits(context[r], problems[r], todo[r]) /\ ModeFits(todo[r], mode[r])
  BY <1>3 DEF Init, TodoFits, ModeFits
<1>. QED BY <1>2, <1>3 DEF ProgramInv

\* It suffices to look at the rank that steps.
LEMMA ProgramAt ==
  ASSUME ProgramInv, NEW r \in Rank, Step(r) \/ \E s \in Rank : Push(r, s), Types',
         TodoFits(context'[r], problems'[r], todo'[r]), ModeFits(todo'[r], mode'[r])
  PROVE  ProgramInv'
  <1>1. ASSUME NEW o \in Rank
        PROVE  TodoFits(context'[o], problems'[o], todo'[o]) /\ ModeFits(todo'[o], mode'[o])
    <2>1. CASE o = r
      BY <2>1
    <2>2. CASE o # r
      <3>1. /\ context'[o] = context[o] /\ problems'[o] = problems[o] /\ todo'[o] = todo[o]
            /\ mode'[o] = mode[o]
        BY <2>2, OtherRanks DEF ProgramInv
      <3>. QED BY <3>1 DEF ProgramInv
    <2>. QED BY <2>1, <2>2
  <1>. QED BY <1>1 DEF ProgramInv

LEMMA ProgramNext == ProgramInv /\ [Next]_vars => ProgramInv'
<1>. SUFFICES ASSUME ProgramInv, [Next]_vars PROVE ProgramInv'
  OBVIOUS
<1>. USE ConnectionsAssumption
<1>t. Types
  BY DEF ProgramInv
<1>1. ASSUME NEW r \in Rank, Step(r) \/ \E s \in Rank : Push(r, s)
      PROVE  ProgramInv'
  <2>. DEFINE c == context[r] p == problems[r] t == todo[r]
  <2>1. SUFFICES /\ Types' /\ TodoFits(context'[r], problems'[r], todo'[r]) /\ ModeFits(todo'[r], mode'[r])
    BY <1>1, ProgramAt
  <2>2. /\ c \in -1 .. MaxContexts - 1 /\ p \in 0 .. MaxProblems /\ t \in Todo
        /\ TodoFits(c, p, t) /\ ModeFits(t, mode[r])
    BY <1>t DEF ProgramInv, Types, TypeOK
  <2>3. CASE NewContext(r)
    <3>1. /\ c + 1 < MaxContexts /\ context' = [context EXCEPT ![r] = c + 1] /\ problems' = [problems EXCEPT ![r] = 0]
          /\ todo' = [todo EXCEPT ![r] = Create4] /\ mode[r] = "user"
          /\ registrations_status' = [registrations_status EXCEPT ![r] = {}]
          /\ UNCHANGED <<mode, calls, next, created, network, pushes>>
      BY <2>3 DEF NewContext, Create4
    <3>2. Create4 \in Todo
      BY DEF Todo
    <3>3. Types'
      BY <1>t, <2>2, <3>1, <3>2 DEF Types, TypeOK, network
    <3>4. context'[r] = c + 1 /\ problems'[r] = 0 /\ todo'[r] = Create4 /\ mode'[r] = "user"
      BY <1>t, <3>1 DEF Types, TypeOK
    <3>5. c + 1 # -1
      BY <2>2
    <3>. QED BY <3>3, <3>4, <3>5 DEF TodoFits, ModeFits
  <2>4. CASE SetProblem(r)
    <3>. DEFINE new == IF p = 0 THEN Make3 ELSE Again
    <3>1. /\ c >= 0 /\ p < MaxProblems /\ problems' = [problems EXCEPT ![r] = p + 1]
          /\ todo' = [todo EXCEPT ![r] = new] /\ mode[r] = "user"
          /\ pushes' = [pushes EXCEPT ![r] = 0]
          /\ UNCHANGED <<context, mode, calls, next, memory, network>>
      BY <2>4, Problems DEF SetProblem
    <3>2. new \in Todo
      BY DEF Todo
    <3>3. Types'
      BY <1>t, <2>2, <3>1, <3>2 DEF Types, TypeOK, network, memory
    <3>4. context'[r] = c /\ problems'[r] = p + 1 /\ todo'[r] = new /\ mode'[r] = "user"
      BY <1>t, <3>1 DEF Types, TypeOK
    <3>. QED BY <2>2, <3>1, <3>3, <3>4 DEF TodoFits, ModeFits
  <2>5. CASE EnterCollective(r)
    <3>1. /\ t # <<>> /\ Head(t)[1] \in {"create", "barrier"} /\ mode[r] = "user"
          /\ created' = created \/ created' = [created EXCEPT ![r] = @ \cup {Segment(r)}]
          /\ calls' = [calls EXCEPT ![r] = @ + 1]
          /\ mode' = [mode EXCEPT ![r] = "collective"] /\ todo' = todo
          /\ UNCHANGED <<context, problems, next, registrations_status, network, pushes>>
      BY <2>5 DEF EnterCollective, To, Is
    <3>2. Segment(r) \in Nat
      BY <3>1, KindsOfSteps
    <3>3. Types'
      <4>1. created' \in [Rank -> SUBSET Nat] /\ calls' \in [Rank -> Nat]
        <5>1. created \in [Rank -> SUBSET Nat] /\ calls \in [Rank -> Nat]
          BY <1>t DEF Types, TypeOK
        <5>. HIDE DEF t
        <5>2. [created EXCEPT ![r] = @ \cup {Segment(r)}] \in [Rank -> SUBSET Nat]
          BY <5>1, <3>2
        <5>3. [calls EXCEPT ![r] = @ + 1] \in [Rank -> Nat]
          BY <5>1
        <5>. QED BY <5>1, <5>2, <5>3, <3>1
      <4>. QED BY <1>t, <3>1, <4>1 DEF Types, TypeOK, network
    <3>4. t \in {Create4, Barrier2, Make3, Make2, Make1, Sync, Again}
      BY <3>1, FirstStep
    <3>5. context'[r] = c /\ problems'[r] = p /\ todo'[r] = t /\ mode'[r] = "collective"
      BY <1>t, <3>1 DEF Types, TypeOK
    <3>. QED BY <2>2, <3>3, <3>4, <3>5 DEF ModeFits
  <2>6. CASE LeaveCollective(r) \/ Register(r) \/ SegmentIsOpen(r) \/ (Finish(r) /\ mode'[r] # "dead")
    <3>1. /\ t # <<>>
          /\ mode' = [mode EXCEPT ![r] = "user"] /\ todo' = [todo EXCEPT ![r] = Tail(t)]
          /\ UNCHANGED <<context, problems, calls, next, created, network, pushes>>
          /\ \/ UNCHANGED registrations_status
             \/ registrations_status' = [registrations_status EXCEPT ![r] = Tree(r)]
             \/ registrations_status' = [registrations_status EXCEPT ![r] = @ \cup Dvs[r]]
      <4>1. CASE LeaveCollective(r)
        BY <2>2, <4>1, Lists, LongLists DEF LeaveCollective, Done, ModeFits, memory
      <4>2. CASE Register(r)
        BY <4>2 DEF Register, Done, Is
      <4>3. CASE SegmentIsOpen(r)
        BY <2>2, <4>3, Lists DEF SegmentIsOpen, Done, ModeFits, memory, Opens
      <4>4. CASE Finish(r) /\ mode'[r] # "dead"
        BY <1>t, <2>2, <4>4, Lists DEF Finish, Done, To, ModeFits, memory, Types, TypeOK
      <4>. QED BY <2>6, <4>1, <4>2, <4>3, <4>4
    <3>2. Tail(t) \in Todo /\ TodoFits(c, p, Tail(t))
      BY <2>2, <3>1, RestOfSteps
    <3>3. Tree(r) \subseteq Rank
      <4>1. r \in Nat /\ r < NbRanks /\ (r # 0 => (r - 1) \div 2 \in 0 .. NbRanks - 1)
        BY DEF Rank
      <4>. QED BY <4>1 DEF Tree, Rank
    <3>4. Dvs[r] \subseteq Rank
      OBVIOUS
    <3>5. Types'
      <4>1. registrations_status' \in [Rank -> SUBSET Rank] /\ todo' \in [Rank -> Todo]
        <5>1. registrations_status \in [Rank -> SUBSET Rank] /\ todo \in [Rank -> Todo]
          BY <1>t DEF Types, TypeOK
        <5>2. [registrations_status EXCEPT ![r] = Tree(r)] \in [Rank -> SUBSET Rank]
          BY <5>1, <3>3
        <5>3. [registrations_status EXCEPT ![r] = @ \cup Dvs[r]] \in [Rank -> SUBSET Rank]
          BY <5>1, <3>4
        <5>. QED BY <3>1, <3>2, <5>1, <5>2, <5>3
      <4>. QED BY <1>t, <3>1, <4>1 DEF Types, TypeOK, network
    <3>6. context'[r] = c /\ problems'[r] = p /\ todo'[r] = Tail(t) /\ mode'[r] = "user"
      BY <1>t, <3>1 DEF Types, TypeOK
    <3>. QED BY <3>2, <3>5, <3>6 DEF ModeFits
  <2>7. CASE OpenSegment(r) \/ WaitQueue(r) \/ Work(r) \/ (Finish(r) /\ mode'[r] = "dead")
    <3>1. /\ UNCHANGED <<context, problems, todo, calls, registrations_status, created, wire, notified, pushes>>
          /\ next' \in [Rank -> 0 .. NbRanks] /\ queue' \in [Rank -> [Queue -> Nat]]
      <4>1. 0 \in 0 .. NbRanks
        OBVIOUS
      <4>2. CASE OpenSegment(r)
        BY <1>t, <4>1, <4>2 DEF OpenSegment, To, network, memory, Types, TypeOK
      <4>5. CASE Work(r)
        BY <1>t, <4>5 DEF Work, To, network, memory, Types, TypeOK
      <4>3. CASE WaitQueue(r)
        <5>1. Segment(r) \in Queue => [queue EXCEPT ![r][Segment(r)] = 0] \in [Rank -> [Queue -> Nat]]
          BY <1>t, QueueTypes
        <5>2. queue' \in [Rank -> [Queue -> Nat]]
          BY <1>t, <4>3, <5>1 DEF WaitQueue, Types, TypeOK
        <5>3. next' \in [Rank -> 0 .. NbRanks]
          BY <1>t, <4>1, <4>3 DEF WaitQueue, Types, TypeOK
        <5>. QED BY <4>3, <5>2, <5>3 DEF WaitQueue, To, memory
      <4>4. CASE Finish(r) /\ mode'[r] = "dead"
        BY <1>t, <4>4 DEF Finish, To, Done, network, memory, Types, TypeOK
      <4>. QED BY <2>7, <4>2, <4>3, <4>4, <4>5
    <3>2. \E m \in {"notify", "wait", "work", "dead"} :
             mode' = [mode EXCEPT ![r] = m] /\ ((t = Work1 /\ m \in {"work", "dead"}) \/ (t \in Opens /\ m # "work"))
      <4>1. CASE OpenSegment(r)
        <5>1. t \in Opens
          BY <4>1, FirstStep DEF OpenSegment, Is
        <5>. QED BY <4>1, <5>1 DEF OpenSegment, To
      <4>2. CASE WaitQueue(r)
        <5>1. t \in Opens
          BY <2>2, <4>2 DEF WaitQueue, ModeFits
        <5>. QED BY <4>2, <5>1 DEF WaitQueue, To
      <4>3. CASE Work(r)
        <5>1. t = Work1
          BY <4>3, FirstStep DEF Work, Is
        <5>2. mode' = [mode EXCEPT ![r] = "work"]
          BY <4>3 DEF Work, To
        <5>. QED BY <5>1, <5>2
      <4>4. CASE Finish(r) /\ mode'[r] = "dead"
        <5>1. t = Work1
          BY <2>2, <4>4 DEF Finish, ModeFits
        <5>2. mode' = [mode EXCEPT ![r] = "dead"]
          BY <1>t, <4>4 DEF Finish, To, Done, Types, TypeOK
        <5>. QED BY <5>1, <5>2
      <4>. QED BY <2>7, <4>1, <4>2, <4>3, <4>4
    <3>3. Types'
      BY <1>t, <3>1, <3>2 DEF Types, TypeOK
    <3>4. context'[r] = c /\ problems'[r] = p /\ todo'[r] = t /\ ModeFits(t, mode'[r])
      BY <1>t, <3>1, <3>2 DEF Types, TypeOK, ModeFits
    <3>. QED BY <2>2, <3>3, <3>4
  <2>8. CASE DummyNotify(r) \/ DummyWait(r) \/ TakeResults(r) \/ \E s \in Rank : Push(r, s)
    <3>1. UNCHANGED <<context, problems, todo, mode, calls, memory>>
      BY <2>8 DEF DummyNotify, DummyWait, TakeResults, Push, program
    <3>2. Types'
      <4>1. CASE DummyNotify(r)
        <5>1. Segment(r) \in Nat
          <6>1. t # <<>>
            BY <2>2, <4>1, Lists DEF DummyNotify, ModeFits, Opens
          <6>. QED BY <6>1, KindsOfSteps
        <5>2. next[r] \in Nat /\ next[r] < NbRanks /\ next[r] \in Rank
          <6>1. next[r] \in 0 .. NbRanks /\ next[r] < NbRanks
            BY <1>t, <4>1 DEF DummyNotify, Types, TypeOK
          <6>. QED BY <6>1 DEF Rank
        <5>3. Post(r, 0, 1) \in [Rank -> [Queue -> Nat]]
          <6>1. 0 \in Queue
            BY DEF Queue
          <6>2. queue \in [Rank -> [Queue -> Nat]]
            BY <1>t DEF Types, TypeOK
          <6>. DEFINE size == (IF Full(queue[r][0], 1) THEN 0 ELSE queue[r][0]) + 1
          <6>3. size \in Nat
            BY <6>1, <6>2
          <6>4. Post(r, 0, 1) = [queue EXCEPT ![r][0] = size]
            BY DEF Post
          <6>. HIDE DEF size
          <6>. QED BY <1>t, <6>1, <6>3, <6>4, QueueTypes
        <5>4. Notification(r, Segment(r), next[r], r, 1) \in Message
          BY <5>1, <5>2 DEF Notification, Message
        <5>5. next' \in [Rank -> 0 .. NbRanks]
          BY <1>t, <4>1, <5>2 DEF DummyNotify, Types, TypeOK
        <5>. QED BY <1>t, <4>1, <5>3, <5>4, <5>5 DEF DummyNotify, Types, TypeOK, memory
      <4>2. CASE DummyWait(r)
        <5>1. next[r] \in Nat /\ next[r] < NbRanks
          BY <1>t, <4>2 DEF DummyWait, Types, TypeOK
        <5>2. next' \in [Rank -> 0 .. NbRanks]
          BY <1>t, <4>2, <5>1 DEF DummyWait, Types, TypeOK
        <5>3. notified' \in [Rank -> SUBSET Message]
          BY <1>t, <4>2 DEF DummyWait, Types
        <5>. QED BY <1>t, <4>2, <5>2, <5>3 DEF DummyWait, Types, TypeOK, memory
      <4>3. CASE TakeResults(r)
        BY <1>t, <4>3 DEF TakeResults, Types, TypeOK, memory, program
      <4>4. ASSUME NEW s \in Rank, Push(r, s) PROVE Types'
        <5>1. c \in Nat
          BY <2>2, <4>4, Lists, KindsOfSteps DEF Push, ModeFits
        <5>2. SegmentId(c, RESULT) \in Nat
          BY <5>1 DEF SegmentId, RESULT
        <5>3. 0 \in Rank
          BY DEF Rank
        <5>4. Notification(r, SegmentId(c, RESULT), s, 0, 2) \in Message
          BY <5>2, <5>3 DEF Notification, Message
        <5>5. queue' \in [Rank -> [Queue -> Nat]]
          BY <1>t, <4>4 DEF Push, Types, TypeOK
        <5>6. pushes' \in [Rank -> 0 .. MaxPushes]
          BY <1>t, <4>4 DEF Push, Types, TypeOK
        <5>. QED BY <1>t, <4>4, <5>4, <5>5, <5>6 DEF Push, Types, TypeOK, memory, program
      <4>. QED BY <2>8, <4>1, <4>2, <4>3, <4>4
    <3>. QED BY <2>2, <3>1, <3>2
  <2>9. CASE Finish(r)
    BY <2>6, <2>7, <2>9
  <2>10. \/ NewContext(r) \/ SetProblem(r) \/ EnterCollective(r)
         \/ LeaveCollective(r) \/ Register(r) \/ SegmentIsOpen(r)
         \/ OpenSegment(r) \/ WaitQueue(r) \/ Work(r)
         \/ DummyNotify(r) \/ DummyWait(r) \/ TakeResults(r) \/ \E s \in Rank : Push(r, s)
         \/ Finish(r)
    BY <1>1 DEF Step
  <2>. QED BY <2>3, <2>4, <2>5, <2>6, <2>7, <2>8, <2>9, <2>10
<1>2. ASSUME NEW n \in wire, Arrive(n)
      PROVE  ProgramInv'
  <2>1. UNCHANGED <<program, memory, queue, pushes>>
    BY <1>2 DEF Arrive
  <2>2. wire' \subseteq Message /\ notified' \in [Rank -> SUBSET Message]
    BY <1>t, <1>2 DEF Arrive, Types, Message
  <2>. QED BY <2>1, <2>2 DEF ProgramInv, Types, TypeOK, program, memory
<1>3. CASE Stop \/ UNCHANGED vars
  BY <1>3 DEF Stop, vars, program, memory, network, ProgramInv, Types, TypeOK
<1>. QED BY <1>1, <1>2, <1>3 DEF Next

-----------------------------------------------------------------------------
(* Where a step leads *)

LEMMA Different ==
  /\ <<>> \notin {Dvs1, Barrier2, Tree3, Create4, Work1, Again, Sync, Make1, Make2, Make3} \cup Opens
  /\ Dvs1 \notin {Barrier2, Tree3, Create4, Work1, Again, Sync, Make1, Make2, Make3} \cup Opens
  /\ Tree3 \notin {Barrier2, Create4, Work1, Again, Sync, Make1, Make2, Make3} \cup Opens
  /\ Create4 \notin {Barrier2, Work1, Again, Sync, Make1, Make2, Make3} \cup Opens
  /\ Barrier2 \notin {Work1, Again, Sync, Make1, Make2, Make3} \cup Opens
  /\ Again \notin {Work1, Make1, Make2, Make3} \cup Opens
  /\ Sync \notin {Work1, Make1, Make2, Make3} \cup Opens
  /\ Make1 \notin {Work1, Make2, Make3} \cup Opens
  /\ Make2 \notin {Work1, Make3} \cup Opens
  /\ Make3 \notin {Work1} \cup Opens
  /\ Open1 # Work1 /\ Open2 \notin {Work1, Open1} /\ Open3 \notin {Work1, Open1, Open2}
<1>1. <<>> \notin {Dvs1, Barrier2, Tree3, Create4, Work1, Again, Sync, Make1, Make2, Make3} \cup Opens
  BY Lists, LongLists DEF Opens
<1>2. Barrier2 # Again /\ Barrier2 # Sync
  <2>1. Tail(Barrier2) = Dvs1 /\ Tail(Again) = Work1 /\ Tail(Sync) \in {Open3, Work1}
    BY Tails
  <2>2. Dvs1 # Work1 /\ Dvs1 # Open3
    BY Heads
  <2>. QED BY <2>1, <2>2
<1>. QED BY SMTT(30), <1>1, <1>2, Heads DEF Opens, TASK, RESULT, TMP, SCRATCH

\* The program of the rank r: context, number of problems, list, mode, loop variable, calls.
Becomes(r, c, p, t, m, i, k) ==
  /\ context'[r] = c /\ problems'[r] = p /\ todo'[r] = t
  /\ mode'[r] = m /\ next'[r] = i /\ calls'[r] = k

\* The types that the lemmas below need of r.
LEMMA OwnTypes ==
  ASSUME ProgramInv, NEW r \in Rank
  PROVE  /\ context[r] \in -1 .. MaxContexts - 1 /\ problems[r] \in 0 .. MaxProblems /\ todo[r] \in Todo
         /\ next[r] \in 0 .. NbRanks /\ calls[r] \in Nat
         /\ mode[r] \in {"user", "collective", "notify", "wait", "work", "dead"}
         /\ TodoFits(context[r], problems[r], todo[r]) /\ ModeFits(todo[r], mode[r])
         /\ NbRanks \in Nat /\ MaxProblems \in Nat \ {0} /\ MaxContexts \in Nat
  BY ConnectionsAssumption DEF ProgramInv, Types, TypeOK

LEMMA NewContextLeads ==
  ASSUME ProgramInv, NEW r \in Rank, NewContext(r)
  PROVE  /\ todo[r] = <<>> /\ mode[r] = "user" /\ context[r] + 1 < MaxContexts
         /\ context[r] = -1 \/ problems[r] = MaxProblems
         /\ Becomes(r, context[r] + 1, 0, Create4, "user", next[r], calls[r])
         /\ registrations_status'[r] = {} /\ UNCHANGED <<created, network>>
  BY OwnTypes DEF ProgramInv, Types, TypeOK, NewContext, Becomes, Create4, network

LEMMA SetProblemLeads ==
  ASSUME ProgramInv, NEW r \in Rank, SetProblem(r)
  PROVE  /\ todo[r] = <<>> /\ mode[r] = "user" /\ context[r] >= 0 /\ problems[r] < MaxProblems
         /\ Becomes(r, context[r], problems[r] + 1, IF problems[r] = 0 THEN Make3 ELSE Again, "user", next[r], calls[r])
         /\ UNCHANGED <<memory, network>>
  BY Problems DEF ProgramInv, Types, TypeOK, SetProblem, Becomes, network, memory

LEMMA EnterLeads ==
  ASSUME ProgramInv, NEW r \in Rank, EnterCollective(r)
  PROVE  /\ todo[r] \in {Create4, Barrier2, Make3, Make2, Make1, Sync, Again} /\ mode[r] = "user"
         /\ todo[r] \in {Create4, Make3, Make2, Make1} => created' = [created EXCEPT ![r] = @ \cup {Segment(r)}]
         /\ todo[r] \in {Barrier2, Sync, Again} => created' = created
         /\ Becomes(r, context[r], problems[r], todo[r], "collective", next[r], calls[r] + 1)
         /\ UNCHANGED <<registrations_status, network>>
<1>1. todo[r] \in {Create4, Barrier2, Make3, Make2, Make1, Sync, Again}
  BY FirstStep DEF EnterCollective, Is
<1>. QED BY <1>1, Heads DEF ProgramInv, Types, TypeOK, EnterCollective, To, Is, Becomes, network

LEMMA LeaveLeads ==
  ASSUME ProgramInv, NEW r \in Rank, LeaveCollective(r)
  PROVE  /\ todo[r] \in {Create4, Barrier2, Make3, Make2, Make1, Sync, Again} /\ mode[r] = "collective"
         /\ \A s \in Rank : calls[s] >= calls[r]
         /\ Becomes(r, context[r], problems[r], Tail(todo[r]), "user", next[r], calls[r])
         /\ UNCHANGED <<memory, network>>
  BY DEF ProgramInv, ModeFits, Types, TypeOK, LeaveCollective, Done, Becomes, network, memory

LEMMA RegisterLeads ==
  ASSUME ProgramInv, NEW r \in Rank, Register(r)
  PROVE  /\ mode[r] = "user"
         /\ \/ todo[r] = Tree3 /\ registrations_status'[r] = Tree(r)
            \/ todo[r] = Dvs1 /\ registrations_status'[r] = registrations_status[r] \cup Dvs[r]
         /\ Becomes(r, context[r], problems[r], Tail(todo[r]), "user", next[r], calls[r])
         /\ UNCHANGED <<created, network>>
<1>1. /\ Is(r, "user", "tree") => todo[r] = Tree3
      /\ Is(r, "user", "dvs") => todo[r] = Dvs1
  BY FirstStep DEF Is
<1>. QED BY <1>1 DEF ProgramInv, Types, TypeOK, Register, Done, Is, Becomes, network

LEMMA OpenLeads ==
  ASSUME ProgramInv, NEW r \in Rank, OpenSegment(r)
  PROVE  /\ mode[r] = "user" /\ todo[r] \in Opens
         /\ Becomes(r, context[r], problems[r], todo[r], "notify", 0, calls[r])
         /\ UNCHANGED <<memory, network>>
  BY FirstStep DEF ProgramInv, Types, TypeOK, OpenSegment, To, Is, Becomes, network, memory

LEMMA NotifyLeads ==
  ASSUME ProgramInv, NEW r \in Rank, DummyNotify(r)
  PROVE  /\ mode[r] = "notify" /\ todo[r] \in Opens /\ next[r] \in Rank
         /\ Becomes(r, context[r], problems[r], todo[r], "notify", next[r] + 1, calls[r])
         /\ UNCHANGED <<memory, notified>>
  BY OwnTypes DEF ProgramInv, ModeFits, Types, TypeOK, DummyNotify, Becomes, Rank, memory

LEMMA WaitQueueLeads ==
  ASSUME ProgramInv, NEW r \in Rank, WaitQueue(r)
  PROVE  /\ mode[r] = "notify" /\ todo[r] \in Opens /\ next[r] = NbRanks
         /\ \E m \in {"wait", "dead"} :
               Becomes(r, context[r], problems[r], todo[r], m, 0, calls[r])
         /\ UNCHANGED <<memory, wire, notified>>
  BY DEF ProgramInv, ModeFits, Types, TypeOK, WaitQueue, To, Becomes, memory

LEMMA DummyWaitLeads ==
  ASSUME ProgramInv, NEW r \in Rank, DummyWait(r)
  PROVE  /\ mode[r] = "wait" /\ todo[r] \in Opens /\ next[r] \in Rank
         /\ Becomes(r, context[r], problems[r], todo[r], "wait", next[r] + 1, calls[r])
         /\ UNCHANGED <<memory, queue, wire>>
  BY OwnTypes DEF ProgramInv, ModeFits, Types, TypeOK, DummyWait, Becomes, Rank, memory

LEMMA IsOpenLeads ==
  ASSUME ProgramInv, NEW r \in Rank, SegmentIsOpen(r)
  PROVE  /\ mode[r] = "wait" /\ todo[r] \in Opens /\ next[r] = NbRanks
         /\ Becomes(r, context[r], problems[r], Tail(todo[r]), "user", next[r], calls[r])
         /\ UNCHANGED <<memory, network>>
  BY DEF ProgramInv, ModeFits, Types, TypeOK, SegmentIsOpen, Done, Becomes, network, memory

LEMMA WorkLeads ==
  ASSUME ProgramInv, NEW r \in Rank, Work(r)
  PROVE  /\ mode[r] = "user" /\ todo[r] = Work1
         /\ Becomes(r, context[r], problems[r], Work1, "work", next[r], calls[r])
         /\ UNCHANGED <<memory, network>>
  BY FirstStep DEF ProgramInv, Types, TypeOK, Work, To, Is, Becomes, network, memory

LEMMA FinishLeads ==
  ASSUME ProgramInv, NEW r \in Rank, Finish(r)
  PROVE  /\ mode[r] = "work" /\ todo[r] = Work1
         /\ \A s \in Rank : ResultsFor(s) = {}
         /\ \/ Becomes(r, context[r], problems[r], <<>>, "user", next[r], calls[r])
            \/ Becomes(r, context[r], problems[r], Work1, "dead", next[r], calls[r])
         /\ UNCHANGED <<memory, network>>
<1>1. /\ mode[r] = "work" /\ (\A s \in Rank : ResultsFor(s) = {}) /\ (Done(r) \/ To(r, "dead"))
      /\ UNCHANGED <<context, problems, calls, next, memory, network>>
  BY DEF Finish
<1>2. todo[r] = Work1
  BY <1>1 DEF ProgramInv, ModeFits
<1>3. CASE Done(r)
  BY <1>1, <1>2, <1>3, Tails DEF ProgramInv, Types, TypeOK, Done, Becomes, network, memory
<1>4. CASE To(r, "dead")
  BY <1>1, <1>2, <1>4 DEF ProgramInv, Types, TypeOK, To, Becomes, network, memory
<1>. QED BY <1>1, <1>2, <1>3, <1>4

LEMMA ResultsLeave ==
  ASSUME NEW r \in Rank, TakeResults(r) \/ \E s \in Rank : Push(r, s)
  PROVE  UNCHANGED <<program, memory>>
  BY DEF TakeResults, Push

-----------------------------------------------------------------------------
(* What a rank has entered, registered and created *)

Collective == {Create4, Barrier2, Make3, Make2, Make1, Sync, Again}

\* The collective calls of the context that come before the list t of problem p, with the one in
\* which the rank is.
Before(p, t) ==
  IF p = 0
  THEN IF t = Create4 THEN 0 ELSE IF t \in {Tree3, Barrier2} THEN 1 ELSE 2
  ELSE IF t = Make3 THEN 2 ELSE IF t = Make2 THEN 3 ELSE IF t = Make1 THEN 4
       ELSE IF t \in {Sync, Again} THEN 4 + p ELSE 5 + p

Entered(r) == Before(problems[r], todo[r]) + IF mode[r] = "collective" THEN 1 ELSE 0

\* What a context makes in all: a segment and a barrier, three segments, a barrier per problem.
PerContext == 5 + MaxProblems

CallsFit(r) == calls[r] = IF context[r] = -1 THEN 0 ELSE context[r] * PerContext + Entered(r)

Links(r) == Tree(r) \cup Dvs[r]

RegistrationsFit(r) ==
  /\ todo[r] \in {Barrier2, Dvs1} => registrations_status[r] = Tree(r)
  /\ context[r] >= 0 /\ (problems[r] > 0 \/ todo[r] = <<>>) => registrations_status[r] = Links(r)

\* The number of calls after which a segment is created.
CreatedBy(kind) == IF kind = TASK THEN 1 ELSE IF kind = RESULT THEN 3 ELSE IF kind = TMP THEN 4 ELSE 5

CreatedFit(r) ==
  \A kind \in Kinds :
    /\ \A c \in 0 .. context[r] - 1 : SegmentId(c, kind) \in created[r]
    /\ context[r] >= 0 /\ Entered(r) >= CreatedBy(kind) => SegmentId(context[r], kind) \in created[r]

LEMMA LinksGoBothWays ==
  ASSUME NEW r \in Rank, NEW s \in Links(r)
  PROVE  s \in Rank /\ r \in Links(s)
<1>1. NbRanks \in Nat /\ Dvs[r] \subseteq Rank /\ (s \in Dvs[r] => r \in Dvs[s])
  BY ConnectionsAssumption
<1>2. CASE s \in Dvs[r]
  BY <1>1, <1>2 DEF Links
<1>3. CASE s \in Tree(r)
  <2>1. s \in Rank /\ r \in Tree(s)
    BY <1>1, <1>3 DEF Tree, Rank
  <2>. QED BY <2>1 DEF Links
<1>. QED BY <1>2, <1>3 DEF Links

LEMMA BeforeTail ==
  ASSUME NEW c, NEW p \in Nat, NEW t \in Todo, t # <<>>, TodoFits(c, p, t)
  PROVE  /\ Before(p, t) \in Nat
         /\ Before(p, Tail(t)) = Before(p, t) + IF t \in Collective THEN 1 ELSE 0
<1>. DEFINE Grows(u) == /\ Before(p, u) \in Nat
                        /\ u \in Collective => Before(p, Tail(u)) = Before(p, u) + 1
                        /\ u \notin Collective => Before(p, Tail(u)) = Before(p, u)
<1>0. SUFFICES Grows(t)
  OBVIOUS
<1>1. CASE p = 0
  <2>1. t \in {Dvs1, Barrier2, Tree3, Create4}
    BY <1>1 DEF TodoFits
  <2>2. /\ Before(p, Create4) = 0 /\ Before(p, Tree3) = 1 /\ Before(p, Barrier2) = 1
        /\ Before(p, Dvs1) = 2 /\ Before(p, <<>>) = 2
    BY <1>1, Different DEF Before
  <2>3. Create4 \in Collective /\ Barrier2 \in Collective /\ Tree3 \notin Collective /\ Dvs1 \notin Collective
    BY Different DEF Collective
  <2>4. Grows(Create4) /\ Grows(Tree3) /\ Grows(Barrier2) /\ Grows(Dvs1)
    <3>1. /\ Before(p, Tail(Create4)) = 1 /\ Before(p, Tail(Tree3)) = 1
          /\ Before(p, Tail(Barrier2)) = 2 /\ Before(p, Tail(Dvs1)) = 2
      BY <2>2, Tails
    <3>. QED BY <2>2, <2>3, <3>1
  <2>. HIDE DEF Grows
  <2>. QED BY <2>1, <2>4
<1>2. CASE p = 1
  <2>1. t \in {Work1, Sync, Make1, Make2, Make3} \cup Opens
    BY <1>2 DEF TodoFits
  <2>2. /\ Before(p, Make3) = 2 /\ Before(p, Make2) = 3 /\ Before(p, Make1) = 4 /\ Before(p, Sync) = 5
        /\ Before(p, <<>>) = 6 /\ \A u \in {Work1} \cup Opens : Before(p, u) = 6
    BY <1>2, Different DEF Before, Opens
  <2>3. /\ {Make3, Make2, Make1, Sync} \subseteq Collective
        /\ \A u \in {Work1} \cup Opens : u \notin Collective
    BY Different DEF Collective
  <2>4. /\ Tail(Work1) = <<>> /\ Tail(Make3) = Make2 /\ Tail(Make2) = Make1 /\ Tail(Make1) = Sync
        /\ Tail(Sync) \in {Work1} \cup Opens /\ \A u \in Opens : Tail(u) \in {Work1} \cup Opens
    BY Tails DEF Opens
  <2>5. Grows(Make3) /\ Grows(Make2) /\ Grows(Make1) /\ Grows(Sync) /\ Grows(Work1)
    <3>1. /\ Before(p, Tail(Make3)) = 3 /\ Before(p, Tail(Make2)) = 4 /\ Before(p, Tail(Make1)) = 5
          /\ Before(p, Tail(Sync)) = 6 /\ Before(p, Tail(Work1)) = 6
      BY <2>2, <2>4
    <3>. QED BY <2>2, <2>3, <3>1
  <2>6. \A u \in Opens : Grows(u)
    <3>1. \A u \in Opens : Before(p, Tail(u)) = 6
      BY <2>2, <2>4
    <3>. QED BY <2>2, <2>3, <3>1
  <2>. HIDE DEF Grows
  <2>. QED BY <2>1, <2>5, <2>6
<1>3. CASE p > 1
  <2>1. t \in {Work1, Again}
    BY <1>3 DEF TodoFits
  <2>2. Before(p, Again) = 4 + p /\ Before(p, Work1) = 5 + p /\ Before(p, <<>>) = 5 + p
    BY <1>3, Different DEF Before
  <2>3. Again \in Collective /\ Work1 \notin Collective
    BY Different DEF Collective
  <2>4. Grows(Again) /\ Grows(Work1)
    <3>1. Before(p, Tail(Again)) = 5 + p /\ Before(p, Tail(Work1)) = 5 + p
      BY <2>2, Tails
    <3>. QED BY <1>3, <2>2, <2>3, <3>1
  <2>. HIDE DEF Grows
  <2>. QED BY <2>1, <2>4
<1>. QED BY <1>1, <1>2, <1>3

\* A step enters a collective call, makes a new context, or leaves the count as it is.
LEMMA EnteredNext ==
  ASSUME ProgramInv, NEW r \in Rank, Step(r) \/ \E s \in Rank : Push(r, s)
  PROVE  \/ NewContext(r)
         \/ /\ EnterCollective(r) /\ context'[r] = context[r]
            /\ Entered(r)' = Entered(r) + 1 /\ calls'[r] = calls[r] + 1
         \/ /\ context'[r] = context[r] /\ Entered(r)' = Entered(r)
            /\ calls'[r] = calls[r] /\ created'[r] = created[r]
<1>. DEFINE c == context[r] p == problems[r] t == todo[r]
<1>1. /\ c \in -1 .. MaxContexts - 1 /\ p \in 0 .. MaxProblems /\ p \in Nat /\ t \in Todo
      /\ TodoFits(c, p, t) /\ ModeFits(t, mode[r])
  BY OwnTypes
<1>2. CASE SetProblem(r)
  <2>1. t = <<>> /\ mode[r] = "user" /\ c >= 0
        /\ Becomes(r, c, p + 1, IF p = 0 THEN Make3 ELSE Again, "user", next[r], calls[r])
        /\ UNCHANGED memory
    BY <1>2, SetProblemLeads
  <2>. QED BY <1>1, <2>1, Different DEF Entered, Before, Becomes, memory
<1>3. CASE EnterCollective(r)
  <2>1. mode[r] = "user" /\ Becomes(r, c, p, t, "collective", next[r], calls[r] + 1) /\ t # <<>>
    BY <1>3, EnterLeads, Different
  <2>2. Before(p, t) \in Nat
    BY <1>1, <2>1, BeforeTail
  <2>. QED BY <1>3, <2>1, <2>2 DEF Entered, Becomes
<1>4. CASE LeaveCollective(r) \/ Register(r) \/ SegmentIsOpen(r)
  <2>1. /\ t # <<>> /\ Becomes(r, c, p, Tail(t), "user", next[r], calls[r])
        /\ t \in Collective <=> mode[r] = "collective"
        /\ UNCHANGED created
    <3>1. /\ Dvs1 \notin Collective /\ Tree3 \notin Collective /\ Opens \cap Collective = {}
          /\ \A u \in Collective \cup Opens \cup {Dvs1, Tree3} : u # <<>>
      BY Different DEF Collective
    <3>2. CASE LeaveCollective(r)
      BY <3>1, <3>2, LeaveLeads DEF Collective, memory
    <3>3. CASE Register(r)
      BY <3>1, <3>3, RegisterLeads
    <3>4. CASE SegmentIsOpen(r)
      BY <3>1, <3>4, IsOpenLeads DEF memory
    <3>. QED BY <1>4, <3>2, <3>3, <3>4
  <2>2. /\ Before(p, t) \in Nat
        /\ Before(p, Tail(t)) = Before(p, t) + IF t \in Collective THEN 1 ELSE 0
    BY <1>1, <2>1, BeforeTail
  <2>. QED BY <2>1, <2>2 DEF Entered, Becomes
<1>5. CASE OpenSegment(r) \/ DummyNotify(r) \/ WaitQueue(r) \/ DummyWait(r) \/ Work(r)
  <2>1. /\ mode[r] # "collective"
        /\ \E m \in {"notify", "wait", "dead", "work"}, i \in Nat : Becomes(r, c, p, t, m, i, calls[r])
        /\ UNCHANGED created
    <3>. USE DEF memory
    <3>1. CASE OpenSegment(r)
      BY <3>1, OpenLeads
    <3>2. CASE DummyNotify(r)
      <4>1. next[r] + 1 \in Nat
        BY <3>2, NotifyLeads DEF Rank
      <4>. QED BY <3>2, <4>1, NotifyLeads
    <3>3. CASE WaitQueue(r)
      BY <3>3, WaitQueueLeads
    <3>4. CASE DummyWait(r)
      <4>1. next[r] + 1 \in Nat
        BY <3>4, DummyWaitLeads DEF Rank
      <4>. QED BY <3>4, <4>1, DummyWaitLeads
    <3>5. CASE Work(r)
      <4>1. next[r] \in Nat
        BY OwnTypes
      <4>. QED BY <3>5, <4>1, WorkLeads
    <3>. QED BY <1>5, <3>1, <3>2, <3>3, <3>4, <3>5
  <2>. QED BY <2>1 DEF Entered, Becomes
<1>6. CASE Finish(r)
  <2>1. /\ mode[r] = "work" /\ t = Work1 /\ UNCHANGED created
        /\ \E m \in {"user", "dead"}, u \in {<<>>, Work1} : Becomes(r, c, p, u, m, next[r], calls[r])
    BY <1>6, FinishLeads DEF memory
  <2>2. Before(p, <<>>) = Before(p, Work1)
    BY Different DEF Before
  <2>. QED BY <2>1, <2>2 DEF Entered, Becomes
<1>7. CASE TakeResults(r) \/ \E s \in Rank : Push(r, s)
  BY <1>7, ResultsLeave DEF Entered, program, memory
<1>. QED BY <1>2, <1>3, <1>4, <1>5, <1>6, <1>7 DEF Step

LocalInv == \A r \in Rank : CallsFit(r) /\ RegistrationsFit(r) /\ CreatedFit(r)

LEMMA LocalInit == Init => LocalInv
<1>. SUFFICES ASSUME Init, NEW r \in Rank
              PROVE  CallsFit(r) /\ RegistrationsFit(r) /\ CreatedFit(r)
  BY DEF LocalInv
<1>1. context[r] = -1 /\ todo[r] = <<>> /\ calls[r] = 0
  BY DEF Init
<1>2. todo[r] \notin {Barrier2, Dvs1}
  BY <1>1, Different
<1>. QED BY <1>1, <1>2 DEF CallsFit, RegistrationsFit, CreatedFit

\* A context that is done has made all its calls.
LEMMA ContextDone ==
  ASSUME ProgramInv, NEW r \in Rank, NewContext(r), context[r] # -1
  PROVE  Entered(r) = PerContext
<1>1. todo[r] = <<>> /\ problems[r] = MaxProblems /\ mode[r] = "user"
  BY NewContextLeads
<1>2. MaxProblems \in Nat \ {0}
  BY ConnectionsAssumption
<1>. QED BY <1>1, <1>2, Different DEF Entered, Before, PerContext

LEMMA EnteredType ==
  ASSUME ProgramInv, NEW r \in Rank
  PROVE  Entered(r) \in Nat
<1>1. problems[r] \in Nat
  BY OwnTypes
<1>. QED BY <1>1 DEF Entered, Before

LEMMA CallsNext ==
  ASSUME ProgramInv, NEW r \in Rank, CallsFit(r), Step(r) \/ \E s \in Rank : Push(r, s)
  PROVE  CallsFit(r)'
<1>. DEFINE c == context[r] k == PerContext
<1>1. c \in Int /\ c >= -1 /\ k \in Nat /\ Entered(r) \in Nat
  BY OwnTypes, EnteredType DEF PerContext
<1>2. c * k \in Int /\ (c + 1) * k = c * k + k /\ 0 * k = 0
  <2>. HIDE DEF c, k
  <2>. QED BY <1>1
<1>3. CASE NewContext(r)
  <2>1. /\ context'[r] = c + 1 /\ calls'[r] = calls[r] /\ problems'[r] = 0 /\ todo'[r] = Create4
        /\ mode'[r] = "user"
    BY <1>3, NewContextLeads DEF Becomes
  <2>2. Entered(r)' = 0 /\ c + 1 # -1
    BY <1>1, <2>1 DEF Entered, Before
  <2>3. CASE c = -1
    <3>1. (c + 1) * k = 0
      BY <1>2, <2>3
    <3>. QED BY <2>1, <2>2, <2>3, <3>1 DEF CallsFit
  <2>4. CASE c # -1
    <3>1. calls[r] = c * k + k
      BY <1>3, <2>4, ContextDone DEF CallsFit
    <3>. HIDE DEF k
    <3>. QED BY <1>1, <1>2, <2>1, <2>2, <3>1 DEF CallsFit, k
  <2>. QED BY <2>3, <2>4
<1>4. CASE /\ EnterCollective(r) /\ context'[r] = c
           /\ Entered(r)' = Entered(r) + 1 /\ calls'[r] = calls[r] + 1
  <2>1. c # -1
    <3>1. todo[r] # <<>>
      BY <1>4, EnterLeads, Different
    <3>. QED BY <3>1, OwnTypes DEF TodoFits
  <2>2. calls[r] = c * k + Entered(r)
    BY <2>1 DEF CallsFit
  <2>3. calls'[r] = c * k + (Entered(r) + 1)
    <3>. DEFINE product == c * k
    <3>. HIDE DEF product
    <3>1. calls[r] = product + Entered(r) /\ product \in Int
      BY <1>2, <2>2 DEF product
    <3>2. calls'[r] = product + (Entered(r) + 1)
      BY <1>1, <1>4, <3>1
    <3>. QED BY <3>2 DEF product
  <2>4. PerContext' = PerContext
    BY DEF PerContext
  <2>. QED BY <1>4, <2>1, <2>3, <2>4 DEF CallsFit
<1>5. CASE /\ context'[r] = c /\ Entered(r)' = Entered(r) /\ calls'[r] = calls[r]
  BY <1>5 DEF CallsFit, PerContext
<1>. QED BY <1>3, <1>4, <1>5, EnteredNext

LEMMA RegistrationsNext ==
  ASSUME ProgramInv, NEW r \in Rank, RegistrationsFit(r), Step(r) \/ \E s \in Rank : Push(r, s)
  PROVE  RegistrationsFit(r)'
<1>. DEFINE c == context[r] p == problems[r] t == todo[r]
<1>0. /\ c \in -1 .. MaxContexts - 1 /\ p \in Nat /\ t \in Todo
      /\ TodoFits(c, p, t) /\ ModeFits(t, mode[r])
  BY OwnTypes
<1>u. Links(r)' = Links(r) /\ Tree(r)' = Tree(r)
  BY DEF Links, Tree
<1>1. CASE NewContext(r)
  <2>1. problems'[r] = 0 /\ todo'[r] = Create4
    BY <1>1, NewContextLeads DEF Becomes
  <2>. QED BY <2>1, Different DEF RegistrationsFit
<1>2. CASE SetProblem(r)
  <2>1. /\ t = <<>> /\ context'[r] = c /\ c >= 0 /\ registrations_status'[r] = registrations_status[r]
        /\ todo'[r] \in {Make3, Again}
    BY <1>2, SetProblemLeads DEF Becomes, memory
  <2>. QED BY <1>u, <2>1, Different DEF RegistrationsFit
<1>3. CASE Register(r)
  <2>1. CASE todo[r] = Tree3 /\ registrations_status'[r] = Tree(r)
    <3>1. p = 0
      BY <1>0, <2>1, Different DEF TodoFits
    <3>2. todo'[r] = Barrier2 /\ problems'[r] = 0
      BY <1>3, <2>1, <3>1, RegisterLeads, Tails DEF Becomes
    <3>. QED BY <1>u, <2>1, <3>2, Different DEF RegistrationsFit
  <2>2. CASE todo[r] = Dvs1 /\ registrations_status'[r] = registrations_status[r] \cup Dvs[r]
    <3>1. registrations_status'[r] = Links(r)
      BY <2>2 DEF RegistrationsFit, Links
    <3>2. todo'[r] = <<>>
      BY <1>3, <2>2, RegisterLeads, Tails DEF Becomes
    <3>. QED BY <1>u, <3>1, <3>2, Different DEF RegistrationsFit
  <2>. QED BY <1>3, <2>1, <2>2, RegisterLeads
<1>4. CASE /\ registrations_status'[r] = registrations_status[r]
           /\ context'[r] = c /\ problems'[r] = p /\ todo'[r] = t
  BY <1>u, <1>4 DEF RegistrationsFit
<1>5. CASE /\ registrations_status'[r] = registrations_status[r]
           /\ context'[r] = c /\ problems'[r] = p
           /\ \/ t \in Collective \cup Opens /\ todo'[r] = Tail(t)
              \/ t = Work1 /\ todo'[r] = <<>>
  <2>1. p = 0 => t \in {Create4, Barrier2} /\ todo'[r] \in {Tree3, Dvs1}
                 /\ (todo'[r] = Dvs1 => t = Barrier2)
    <3>1. p = 0 => t \in {Create4, Barrier2}
      BY <1>0, <1>5, Different DEF TodoFits, Collective
    <3>. QED BY <1>5, <3>1, Tails, Different DEF Collective
  <2>2. p > 0 => todo'[r] \notin {Barrier2, Dvs1}
    <3>1. p > 0 => t \in {Work1, Again, Sync, Make1, Make2, Make3} \cup Opens
      BY <1>0, <1>5, Different DEF TodoFits, Collective
    <3>2. p > 0 => todo'[r] \in {<<>>, Work1, Sync, Make1, Make2} \cup Opens
      <4>1. /\ Tail(Work1) = <<>> /\ Tail(Again) = Work1 /\ Tail(Sync) \in {Open3, Work1}
            /\ Tail(Make1) = Sync /\ Tail(Make2) = Make1 /\ Tail(Make3) = Make2
        BY Tails
      <4>2. \A u \in Opens : Tail(u) \in {Work1} \cup Opens
        BY Tails DEF Opens
      <4>3. Open3 \in Opens
        BY DEF Opens
      <4>4. todo'[r] \in {Tail(t), <<>>}
        BY <1>5
      <4>5. t \in {Work1, Again, Sync, Make1, Make2, Make3} =>
              Tail(t) \in {<<>>, Work1, Open3, Sync, Make1, Make2}
        BY <4>1
      <4>6. p > 0 => Tail(t) \in {<<>>, Work1, Sync, Make1, Make2} \cup Opens
        BY <3>1, <4>2, <4>3, <4>5
      <4>. QED BY <4>4, <4>6
    <3>. QED BY <3>2, Different
  <2>. QED BY <1>0, <1>u, <1>5, <2>1, <2>2, Different DEF RegistrationsFit
<1>6. CASE EnterCollective(r) \/ OpenSegment(r) \/ DummyNotify(r) \/ WaitQueue(r) \/ DummyWait(r) \/ Work(r)
  BY <1>4, <1>6, EnterLeads, OpenLeads, NotifyLeads, WaitQueueLeads, DummyWaitLeads, WorkLeads
     DEF Becomes, memory
<1>7. CASE LeaveCollective(r) \/ SegmentIsOpen(r) \/ Finish(r)
  <2>1. CASE LeaveCollective(r)
    BY <1>5, <2>1, LeaveLeads DEF Becomes, memory, Collective
  <2>2. CASE SegmentIsOpen(r)
    BY <1>5, <2>2, IsOpenLeads DEF Becomes, memory
  <2>3. CASE Finish(r)
    BY <1>4, <1>5, <2>3, FinishLeads DEF Becomes, memory
  <2>. QED BY <1>7, <2>1, <2>2, <2>3
<1>8. CASE TakeResults(r) \/ \E s \in Rank : Push(r, s)
  BY <1>4, <1>8, ResultsLeave DEF program, memory
<1>. QED BY <1>1, <1>2, <1>3, <1>6, <1>7, <1>8 DEF Step

LEMMA CreatedNext ==
  ASSUME ProgramInv, NEW r \in Rank, CreatedFit(r), Step(r) \/ \E s \in Rank : Push(r, s)
  PROVE  CreatedFit(r)'
<1>. SUFFICES ASSUME NEW kind \in Kinds
              PROVE  /\ \A d \in 0 .. context'[r] - 1 : SegmentId(d, kind) \in created'[r]
                     /\ context'[r] >= 0 /\ Entered(r)' >= CreatedBy(kind) => SegmentId(context'[r], kind) \in created'[r]
  BY DEF CreatedFit, SegmentId, CreatedBy
<1>. DEFINE c == context[r] old == created[r]
<1>1. c \in Int /\ c >= -1 /\ Entered(r) \in Nat /\ CreatedBy(kind) \in 1 .. 5
  BY OwnTypes, EnteredType DEF CreatedBy
<1>2. /\ \A d \in 0 .. c - 1 : SegmentId(d, kind) \in old
      /\ c >= 0 /\ Entered(r) >= CreatedBy(kind) => SegmentId(c, kind) \in old
  BY DEF CreatedFit
<1>3. CASE NewContext(r)
  <2>1. /\ context'[r] = c + 1 /\ problems'[r] = 0 /\ todo'[r] = Create4 /\ mode'[r] = "user"
        /\ created'[r] = old
    BY <1>3, NewContextLeads DEF Becomes
  <2>2. Entered(r)' = 0
    BY <2>1 DEF Entered, Before
  <2>3. c # -1 => Entered(r) >= 5
    BY <1>3, ContextDone, OwnTypes DEF PerContext
  <2>4. \A d \in 0 .. c : SegmentId(d, kind) \in old
    BY <1>1, <1>2, <2>3
  <2>. QED BY <1>1, <2>1, <2>2, <2>4
<1>4. CASE EnterCollective(r) /\ context'[r] = c /\ Entered(r)' = Entered(r) + 1
  <2>1. old \subseteq created'[r]
    <3>1. todo[r] \in {Create4, Barrier2, Make3, Make2, Make1, Sync, Again}
      BY <1>4, EnterLeads
    <3>2. created' = [created EXCEPT ![r] = @ \cup {Segment(r)}] \/ created' = created
      BY <1>4, <3>1, EnterLeads
    <3>. QED BY <3>2 DEF ProgramInv, Types, TypeOK
  <2>2. CASE Entered(r) >= CreatedBy(kind) \/ Entered(r) + 1 < CreatedBy(kind)
    BY <1>1, <1>2, <1>4, <2>1, <2>2
  <2>3. CASE Entered(r) + 1 = CreatedBy(kind)
    <3>1. /\ todo[r] \in {Create4, Barrier2, Make3, Make2, Make1, Sync, Again} /\ mode[r] = "user"
          /\ TodoFits(c, problems[r], todo[r]) /\ problems[r] \in Nat
      BY <1>4, EnterLeads, OwnTypes
    <3>2. Entered(r) = Before(problems[r], todo[r])
      BY <3>1 DEF Entered, Before
    <3>3. \/ kind = TASK /\ todo[r] = Create4
          \/ kind = RESULT /\ todo[r] = Make3
          \/ kind = TMP /\ todo[r] = Make2
          \/ kind = SCRATCH /\ todo[r] = Make1
      <4>1. CASE problems[r] = 0
        <5>1. todo[r] \in {Create4, Barrier2}
          BY <3>1, <4>1, Different DEF TodoFits
        <5>. QED BY <2>3, <3>2, <4>1, <5>1, Different
                 DEF Before, CreatedBy, Kinds, TASK, RESULT, TMP, SCRATCH
      <4>2. CASE problems[r] # 0
        <5>1. todo[r] \in {Make3, Make2, Make1, Sync, Again}
          BY <3>1, <4>2, Different DEF TodoFits
        <5>. QED BY <2>3, <3>1, <3>2, <4>2, <5>1, Different
                 DEF Before, CreatedBy, Kinds, TASK, RESULT, TMP, SCRATCH
      <4>. QED BY <4>1, <4>2
    <3>4. created' = [created EXCEPT ![r] = @ \cup {Segment(r)}]
      BY <1>4, <3>3, EnterLeads
    <3>5. Segment(r) = SegmentId(c, kind)
      <4>1. todo[r] # <<>>
        BY <3>1, Different
      <4>2. Kind(r) = kind
        BY <3>3, <4>1, KindsOfSteps
      <4>. QED BY <4>2 DEF Segment
    <3>6. SegmentId(c, kind) \in created'[r]
      BY <3>4, <3>5 DEF ProgramInv, Types, TypeOK
    <3>. QED BY <1>2, <1>4, <2>1, <3>6
  <2>. QED BY <1>1, <2>2, <2>3
<1>5. CASE context'[r] = c /\ Entered(r)' = Entered(r) /\ created'[r] = old
  BY <1>2, <1>5
<1>. QED BY <1>3, <1>4, <1>5, EnteredNext

LEMMA LocalNext == ProgramInv /\ LocalInv /\ [Next]_vars => LocalInv'
<1>. SUFFICES ASSUME ProgramInv, LocalInv, [Next]_vars, NEW o \in Rank
              PROVE  CallsFit(o)' /\ RegistrationsFit(o)' /\ CreatedFit(o)'
  BY DEF LocalInv
<1>1. CallsFit(o) /\ RegistrationsFit(o) /\ CreatedFit(o)
  BY DEF LocalInv
<1>2. ASSUME /\ context'[o] = context[o] /\ problems'[o] = problems[o] /\ todo'[o] = todo[o]
             /\ mode'[o] = mode[o] /\ calls'[o] = calls[o]
             /\ registrations_status'[o] = registrations_status[o] /\ created'[o] = created[o]
      PROVE  CallsFit(o)' /\ RegistrationsFit(o)' /\ CreatedFit(o)'
  <2>1. Entered(o)' = Entered(o) /\ Links(o)' = Links(o) /\ Tree(o)' = Tree(o)
    BY <1>2 DEF Entered, Links, Tree
  <2>. QED BY <1>1, <1>2, <2>1 DEF CallsFit, RegistrationsFit, CreatedFit, PerContext, SegmentId, CreatedBy
<1>3. ASSUME NEW r \in Rank, Step(r) \/ \E s \in Rank : Push(r, s)
      PROVE  CallsFit(o)' /\ RegistrationsFit(o)' /\ CreatedFit(o)'
  <2>1. CASE o = r
    BY <1>1, <1>3, <2>1, CallsNext, RegistrationsNext, CreatedNext
  <2>2. CASE o # r
    BY <1>2, <1>3, <2>2, OtherRanks DEF ProgramInv
  <2>. QED BY <2>1, <2>2
<1>4. CASE UNCHANGED <<program, memory>>
  BY <1>2, <1>4 DEF program, memory
<1>. QED BY <1>3, <1>4 DEF Next, Arrive, Stop, vars

-----------------------------------------------------------------------------
(* The collective calls keep the ranks together *)

\* Nobody is behind the last collective call that another rank has left.
InStep ==
  \A r, s \in Rank : calls[s] >= calls[r] - IF mode[r] = "collective" THEN 1 ELSE 0

LEMMA InStepInit == Init => InStep
  BY DEF Init, InStep

LEMMA InStepNext == ProgramInv /\ InStep /\ [Next]_vars => InStep'
<1>. SUFFICES ASSUME ProgramInv, InStep, [Next]_vars, NEW a \in Rank, NEW b \in Rank
              PROVE  calls'[b] >= calls'[a] - IF mode'[a] = "collective" THEN 1 ELSE 0
  BY DEF InStep
<1>t. calls \in [Rank -> Nat]
  BY DEF ProgramInv, Types, TypeOK
<1>b. calls[b] >= calls[a] - IF mode[a] = "collective" THEN 1 ELSE 0
  BY DEF InStep
<1>1. ASSUME NEW r \in Rank, Step(r) \/ \E s \in Rank : Push(r, s)
      PROVE  calls'[b] >= calls'[a] - IF mode'[a] = "collective" THEN 1 ELSE 0
  <2>1. \/ calls'[r] = calls[r] + 1 /\ mode'[r] = "collective" /\ mode[r] = "user"
        \/ calls'[r] = calls[r] /\ mode'[r] = "user" /\ \A s \in Rank : calls[s] >= calls[r]
        \/ calls'[r] = calls[r] /\ (mode'[r] = "collective" => mode[r] = "collective") /\ mode[r] # "collective"
        \/ calls'[r] = calls[r] /\ mode'[r] = mode[r]
    <3>1. CASE EnterCollective(r)
      BY <3>1, EnterLeads DEF Becomes
    <3>2. CASE LeaveCollective(r)
      BY <3>2, LeaveLeads DEF Becomes
    <3>3. CASE NewContext(r) \/ SetProblem(r) \/ Register(r) \/ OpenSegment(r) \/ DummyNotify(r)
      BY <3>3, NewContextLeads, SetProblemLeads, RegisterLeads, OpenLeads, NotifyLeads DEF Becomes
    <3>4. CASE WaitQueue(r) \/ DummyWait(r) \/ SegmentIsOpen(r) \/ Work(r) \/ Finish(r)
      BY <3>4, WaitQueueLeads, DummyWaitLeads, IsOpenLeads, WorkLeads, FinishLeads DEF Becomes
    <3>5. CASE TakeResults(r) \/ \E s \in Rank : Push(r, s)
      BY <3>5, ResultsLeave DEF program
    <3>. QED BY <1>1, <3>1, <3>2, <3>3, <3>4, <3>5 DEF Step
  <2>2. \A o \in Rank \ {r} : calls'[o] = calls[o] /\ mode'[o] = mode[o]
    BY <1>1, OtherRanks DEF ProgramInv
  <2>3. calls[a] \in Nat /\ calls[b] \in Nat
    BY <1>t
  <2>. QED BY <1>b, <2>1, <2>2, <2>3
<1>2. CASE UNCHANGED program
  BY <1>b, <1>2 DEF program
<1>. QED BY <1>1, <1>2 DEF Next, Arrive, Stop, vars

LEMMA EnteredBounds ==
  ASSUME ProgramInv, NEW r \in Rank
  PROVE  /\ Entered(r) \in Nat /\ Entered(r) <= PerContext
         /\ Entered(r) >= 6 => problems[r] > 0
         /\ todo[r] = Work1 => Entered(r) = 5 + problems[r] /\ problems[r] > 0
<1>. DEFINE p == problems[r] t == todo[r]
<1>1. /\ p \in 0 .. MaxProblems /\ MaxProblems \in Nat \ {0} /\ t \in Todo
      /\ TodoFits(context[r], p, t) /\ ModeFits(t, mode[r])
  BY OwnTypes
<1>2. CASE p = 0
  <2>1. t \in {<<>>, Dvs1, Barrier2, Tree3, Create4}
    BY <1>1, <1>2 DEF TodoFits
  <2>2. mode[r] = "collective" => t \in {Create4, Barrier2}
    BY <1>1, <2>1, Different DEF ModeFits
  <2>3. Entered(r) \in 0 .. 2
    BY <1>2, <2>2, Different DEF Entered, Before
  <2>. QED BY <1>1, <1>2, <2>1, <2>3, Different DEF PerContext
<1>3. CASE p # 0
  <2>1. mode[r] = "collective" => t \in {Make3, Make2, Make1, Sync, Again}
    <3>1. t \notin {Create4, Barrier2}
      BY <1>1, <1>3, Different DEF TodoFits
    <3>. QED BY <1>1, <3>1 DEF ModeFits
  <2>2. Entered(r) \in 0 .. 5 + p
    BY <1>1, <1>3, <2>1 DEF Entered, Before
  <2>3. t = Work1 => Entered(r) = 5 + p
    BY <1>1, <1>3, <2>1, Different DEF Entered, Before
  <2>. QED BY <1>1, <1>3, <2>2, <2>3 DEF PerContext
<1>. QED BY <1>2, <1>3

\* Where a rank works, every rank has made and synchronised all that it will work with.
LEMMA Together ==
  ASSUME ProgramInv, LocalInv, InStep, NEW r \in Rank, NEW s \in Rank, mode[r] = "work"
  PROVE  /\ context[s] >= context[r]
         /\ context[s] = context[r] => Entered(s) >= 6
<1>. DEFINE c == context[r] d == context[s] k == PerContext
<1>1. todo[r] = Work1
  BY DEF ProgramInv, ModeFits
<1>2. /\ c \in Nat /\ d \in Int /\ d >= -1 /\ k \in Nat
  <2>1. c # -1
    BY <1>1, OwnTypes, Different DEF TodoFits
  <2>. QED BY <2>1, OwnTypes DEF PerContext
<1>3. /\ Entered(r) \in Nat /\ Entered(r) >= 6
      /\ Entered(s) \in Nat /\ Entered(s) <= k
  BY <1>1, EnteredBounds, OwnTypes
<1>4. /\ calls[r] = c * k + Entered(r) /\ calls[s] >= calls[r]
      /\ calls[s] = IF d = -1 THEN 0 ELSE d * k + Entered(s)
  <2>1. CallsFit(r) /\ CallsFit(s) /\ mode[r] # "collective" /\ calls[r] \in Nat
    BY OwnTypes DEF LocalInv
  <2>2. calls[s] >= calls[r] - 0
    BY <2>1 DEF InStep
  <2>. QED BY <1>2, <2>1, <2>2 DEF CallsFit
<1>. DEFINE x == Entered(r) y == Entered(s)
<1>. HIDE DEF c, d, k, x, y
<1>5. c * k \in Nat /\ (d >= 0 => d * k \in Nat)
  BY <1>2
<1>6. d # -1
  BY <1>3, <1>4, <1>5 DEF x, y
<1>7. ~(d < c)
  <2>1. SUFFICES ASSUME d < c PROVE FALSE
    OBVIOUS
  <2>2. (d + 1) * k = d * k + k /\ (d + 1) * k <= c * k
    BY <1>2, <1>6, <2>1
  <2>. QED BY <1>2, <1>3, <1>4, <1>5, <1>6, <2>2 DEF x, y
<1>8. d = c => y >= 6
  BY <1>2, <1>3, <1>4, <1>5, <1>6 DEF x, y
<1>. QED BY <1>2, <1>6, <1>7, <1>8 DEF c, d, y

\* A working rank's links know it, and have made its context's segments.
LEMMA LinksSetUp ==
  ASSUME ProgramInv, LocalInv, InStep, NEW r \in Rank, mode[r] = "work",
         NEW s \in registrations_status[r]
  PROVE  /\ s \in Links(r) /\ s \in Rank
         /\ context[s] = context[r] => r \in registrations_status[s]
         /\ \A kind \in TASK .. SCRATCH : SegmentId(context[r], kind) \in created[s]
<1>1. todo[r] = Work1 /\ context[r] \in Nat /\ problems[r] > 0
  <2>1. todo[r] = Work1 /\ problems[r] > 0
    BY EnteredBounds DEF ProgramInv, ModeFits
  <2>. QED BY <2>1, OwnTypes, Different DEF TodoFits
<1>2. s \in Links(r)
  BY <1>1 DEF LocalInv, RegistrationsFit
<1>3. s \in Rank /\ r \in Links(s)
  BY <1>2, LinksGoBothWays
<1>4. context[s] >= context[r] /\ (context[s] = context[r] => Entered(s) >= 6) /\ context[s] \in Int
  BY <1>3, Together, OwnTypes
<1>5. context[s] = context[r] => r \in registrations_status[s]
  BY <1>1, <1>3, <1>4, EnteredBounds DEF LocalInv, RegistrationsFit
<1>6. ASSUME NEW kind \in TASK .. SCRATCH
      PROVE  SegmentId(context[r], kind) \in created[s]
  <2>1. kind \in Kinds /\ CreatedBy(kind) <= 6
    BY DEF TASK, SCRATCH, RESULT, TMP, Kinds, CreatedBy
  <2>2. CreatedBy(kind) \in Nat /\ Entered(s) \in Nat
    BY <1>3, EnteredType DEF CreatedBy
  <2>3. CreatedFit(s)
    BY <1>3 DEF LocalInv
  <2>4. CASE context[s] = context[r]
    BY <1>1, <1>4, <2>1, <2>2, <2>3, <2>4 DEF CreatedFit
  <2>5. CASE context[s] > context[r]
    <3>1. context[r] \in 0 .. context[s] - 1
      BY <1>1, <1>4, <2>5
    <3>. QED BY <2>1, <2>3, <3>1 DEF CreatedFit
  <2>. QED BY <1>1, <1>4, <2>4, <2>5
<1>. QED BY <1>2, <1>3, <1>5, <1>6

-----------------------------------------------------------------------------
(* Handshakes *)

OpenKinds == {TASK, RESULT, TMP}

\* The segments of its context that r has opened, and the place of a segment in that order.
Opened(r) ==
  IF problems[r] = 0 \/ todo[r] \in {Make3, Make2, Make1, Sync, Open3} THEN 0
  ELSE IF todo[r] = Open2 THEN 1 ELSE IF todo[r] = Open1 THEN 2 ELSE 3
Order(kind) == IF kind = RESULT THEN 0 ELSE IF kind = TMP THEN 1 ELSE 2

Past(r, c, kind) == context[r] > c \/ (context[r] = c /\ Opened(r) > Order(kind))
At(r, c, kind) == context[r] = c /\ Opened(r) = Order(kind)

\* f has notified t of this segment of its context c; t has taken f's notification.
Sent(f, t, c, kind) ==
  \/ Past(f, c, kind)
  \/ At(f, c, kind) /\ (mode[f] \in {"wait", "dead"} \/ (mode[f] = "notify" /\ next[f] > t))
Taken(t, f, c, kind) ==
  \/ Past(t, c, kind)
  \/ At(t, c, kind) /\ mode[t] = "wait" /\ next[t] > f

LEMMA OpenedType == \A r \in Rank : Opened(r) \in 0 .. 3
  BY DEF Opened

\* While r opens a segment.
LEMMA Opening ==
  ASSUME ProgramInv, LocalInv, NEW r \in Rank, todo[r] \in Opens
  PROVE  /\ Dynamic /\ problems[r] = 1 /\ context[r] \in Nat
         /\ Kind(r) \in OpenKinds /\ Opened(r) = Order(Kind(r))
         /\ Segment(r) = SegmentId(context[r], Kind(r))
         /\ registrations_status[r] = Links(r)
<1>1. TodoFits(context[r], problems[r], todo[r]) /\ problems[r] \in Nat /\ todo[r] # <<>>
  BY OwnTypes, Different
<1>2. problems[r] = 1 /\ Dynamic
  BY <1>1, Different DEF TodoFits, Opens
<1>3. context[r] \in Nat
  BY <1>1, KindsOfSteps
<1>4. /\ todo[r] = Open3 => Kind(r) = RESULT
      /\ todo[r] = Open2 => Kind(r) = TMP
      /\ todo[r] = Open1 => Kind(r) = TASK
  BY <1>1, KindsOfSteps
<1>5. Kind(r) \in OpenKinds /\ Opened(r) = Order(Kind(r))
  BY <1>2, <1>4, Different DEF Opens, OpenKinds, Opened, Order, TASK, RESULT, TMP
<1>6. registrations_status[r] = Links(r)
  BY <1>2, <1>3 DEF LocalInv, RegistrationsFit
<1>. QED BY <1>2, <1>3, <1>5, <1>6 DEF Segment

LEMMA OpenedNext ==
  ASSUME ProgramInv, Dynamic, NEW r \in Rank, Step(r) \/ \E s \in Rank : Push(r, s)
  PROVE  \/ context'[r] = context[r] /\ Opened(r)' = Opened(r) /\ ~SegmentIsOpen(r) /\ ~NewContext(r)
         \/ SegmentIsOpen(r) /\ context'[r] = context[r] /\ Opened(r)' = Opened(r) + 1
         \/ NewContext(r) /\ context'[r] = context[r] + 1 /\ (context[r] # -1 => Opened(r) = 3)
<1>. DEFINE c == context[r] p == problems[r] t == todo[r]
<1>0. /\ p \in Nat /\ p <= MaxProblems /\ MaxProblems \in Nat \ {0} /\ t \in Todo
      /\ TodoFits(c, p, t) /\ ModeFits(t, mode[r])
  BY OwnTypes
<1>a. Again # Sync
  <2>1. Tail(Again) = Work1 /\ Tail(Sync) = Open3
    BY Tails
  <2>. QED BY <2>1, Different
<1>1. CASE NewContext(r)
  <2>1. t = <<>> /\ (c # -1 => p = MaxProblems) /\ context'[r] = c + 1
    BY <1>1, NewContextLeads DEF Becomes
  <2>. QED BY <1>0, <1>1, <2>1, Different DEF Opened, Opens
<1>2. CASE SetProblem(r)
  <2>1. /\ t = <<>> /\ context'[r] = c /\ problems'[r] = p + 1
        /\ todo'[r] = IF p = 0 THEN Make3 ELSE Again
        /\ mode[r] = "user"
    BY <1>2, SetProblemLeads DEF Becomes
  <2>2. ~SegmentIsOpen(r) /\ ~NewContext(r)
    BY <1>2, <2>1, NewContextLeads, ConnectionsAssumption DEF SegmentIsOpen, SetProblem, NewContext
  <2>3. Opened(r) = IF p = 0 THEN 0 ELSE 3
    BY <1>0, <2>1, Different DEF Opened, Opens
  <2>4. Opened(r)' = IF p = 0 THEN 0 ELSE 3
    BY <1>0, <1>a, <2>1, Different DEF Opened, Opens
  <2>. QED BY <2>1, <2>2, <2>3, <2>4
<1>3. CASE SegmentIsOpen(r)
  <2>1. /\ t \in Opens /\ context'[r] = c /\ problems'[r] = p /\ todo'[r] = Tail(t)
    BY <1>3, IsOpenLeads DEF Becomes
  <2>2. p # 0
    BY <1>0, <2>1, Different DEF TodoFits
  <2>3. /\ Tail(Open3) = Open2 /\ Tail(Open2) = Open1 /\ Tail(Open1) = Work1
        /\ Open2 # Open3 /\ Open1 # Open3 /\ Open1 # Open2 /\ Work1 \notin Opens
        /\ {Open1, Open2, Work1} \cap {Make3, Make2, Make1, Sync} = {}
    BY Tails, Different DEF Opens
  <2>4. /\ t = Open3 => Opened(r) = 0 /\ Opened(r)' = 1
        /\ t = Open2 => Opened(r) = 1 /\ Opened(r)' = 2
        /\ t = Open1 => Opened(r) = 2 /\ Opened(r)' = 3
    BY <2>1, <2>2, <2>3 DEF Opened, Opens
  <2>. QED BY <1>3, <2>1, <2>4 DEF Opens
<1>4. CASE LeaveCollective(r) \/ Register(r) \/ Finish(r)
  <2>1. /\ mode[r] \in {"collective", "user", "work"} /\ t # <<>>
        /\ context'[r] = c /\ problems'[r] = p
        /\ \/ t \in {Create4, Barrier2, Make3, Make2, Make1, Sync, Again, Tree3, Dvs1, Work1} /\ todo'[r] = Tail(t)
           \/ todo'[r] = t
    <3>1. CASE LeaveCollective(r)
      BY <3>1, LeaveLeads, Different DEF Becomes
    <3>2. CASE Register(r)
      BY <3>2, RegisterLeads, Different DEF Becomes
    <3>3. CASE Finish(r)
      <4>1. Tail(Work1) = <<>> /\ Work1 # <<>>
        BY Tails, Different
      <4>. QED BY <3>3, <4>1, FinishLeads DEF Becomes
    <3>. QED BY <1>4, <3>1, <3>2, <3>3
  <2>2. ~SegmentIsOpen(r) /\ ~NewContext(r)
    BY <2>1 DEF SegmentIsOpen, NewContext
  <2>3. CASE todo'[r] = t
    BY <2>1, <2>2, <2>3 DEF Opened
  <2>4. CASE p = 0
    BY <2>1, <2>2, <2>4 DEF Opened
  <2>5. CASE p # 0 /\ todo'[r] = Tail(t) /\ t \in {Make3, Make2, Make1, Sync, Again, Work1}
    <3>1. CASE t \in {Make3, Make2, Make1, Sync}
      <4>1. todo'[r] \in {Make2, Make1, Sync, Open3}
        BY <2>5, <3>1, Tails
      <4>. QED BY <2>1, <2>2, <3>1, <4>1 DEF Opened
    <3>2. CASE t \in {Again, Work1}
      <4>1. todo'[r] \in {Work1, <<>>}
        BY <2>5, <3>2, Tails
      <4>2. Opened(r) = 3
        BY <1>a, <2>5, <3>2, Different DEF Opened, Opens
      <4>3. Opened(r)' = 3
        BY <2>1, <2>5, <4>1, Different DEF Opened, Opens
      <4>. QED BY <2>1, <2>2, <4>2, <4>3
    <3>. QED BY <2>5, <3>1, <3>2
  <2>6. p # 0 => t \notin {Create4, Barrier2, Tree3, Dvs1}
    BY <1>0, Different DEF TodoFits
  <2>. QED BY <2>1, <2>3, <2>4, <2>5, <2>6
<1>5. CASE EnterCollective(r) \/ OpenSegment(r) \/ DummyNotify(r) \/ Work(r)
  <2>1. /\ mode[r] \in {"user", "notify"} /\ t # <<>>
        /\ context'[r] = c /\ problems'[r] = p /\ todo'[r] = t
    BY <1>5, EnterLeads, OpenLeads, NotifyLeads, WorkLeads, Different DEF Becomes
  <2>. QED BY <2>1 DEF Opened, SegmentIsOpen, NewContext
<1>6. CASE WaitQueue(r) \/ DummyWait(r)
  <2>1. /\ mode[r] = "notify" \/ (mode[r] = "wait" /\ next[r] # NbRanks)
        /\ context'[r] = c /\ problems'[r] = p /\ todo'[r] = t
    BY <1>6, WaitQueueLeads, DummyWaitLeads, OwnTypes DEF Becomes, Rank
  <2>. QED BY <2>1 DEF Opened, SegmentIsOpen, NewContext
<1>7. CASE TakeResults(r) \/ \E s \in Rank : Push(r, s)
  <2>1. mode[r] = "work"
    BY <1>7 DEF TakeResults, Push
  <2>. QED BY <1>7, <2>1, ResultsLeave DEF Opened, SegmentIsOpen, NewContext, program
<1>. QED BY <1>1, <1>2, <1>3, <1>4, <1>5, <1>6, <1>7 DEF Step

\* What a step of r does to its mode and loop variable while a segment is being opened.
LEMMA ModeNext ==
  ASSUME ProgramInv, NEW r \in Rank, Step(r) \/ \E s \in Rank : Push(r, s)
  PROVE  \/ mode'[r] \notin {"notify", "wait"} /\ mode[r] \notin {"notify", "wait", "dead"}
         \/ mode'[r] = mode[r] /\ next'[r] = next[r] /\ ~DummyWait(r)
         \/ OpenSegment(r) /\ mode[r] = "user" /\ mode'[r] = "notify" /\ next'[r] = 0
         \/ DummyNotify(r) /\ mode[r] = "notify" /\ mode'[r] = "notify" /\ next[r] \in Rank /\ next'[r] = next[r] + 1
         \/ WaitQueue(r) /\ mode[r] = "notify" /\ next[r] = NbRanks /\ mode'[r] \in {"wait", "dead"} /\ next'[r] = 0
         \/ DummyWait(r) /\ mode[r] = "wait" /\ mode'[r] = "wait" /\ next[r] \in Rank /\ next'[r] = next[r] + 1
         \/ SegmentIsOpen(r) /\ mode[r] = "wait" /\ next[r] = NbRanks /\ mode'[r] = "user"
<1>1. CASE NewContext(r) \/ SetProblem(r) \/ EnterCollective(r) \/ LeaveCollective(r) \/ Register(r)
  BY <1>1, NewContextLeads, SetProblemLeads, EnterLeads, LeaveLeads, RegisterLeads DEF Becomes
<1>2. CASE OpenSegment(r)
  BY <1>2, OpenLeads DEF Becomes
<1>3. CASE DummyNotify(r)
  BY <1>3, NotifyLeads DEF Becomes
<1>4. CASE WaitQueue(r)
  BY <1>4, WaitQueueLeads DEF Becomes
<1>5. CASE DummyWait(r)
  BY <1>5, DummyWaitLeads DEF Becomes
<1>6. CASE SegmentIsOpen(r)
  BY <1>6, IsOpenLeads DEF Becomes
<1>7. CASE Work(r) \/ Finish(r)
  BY <1>7, WorkLeads, FinishLeads DEF Becomes
<1>8. CASE TakeResults(r) \/ \E s \in Rank : Push(r, s)
  <2>1. mode[r] = "work"
    BY <1>8 DEF TakeResults, Push
  <2>. QED BY <1>8, <2>1, ResultsLeave DEF program, DummyWait
<1>. QED BY <1>1, <1>2, <1>3, <1>4, <1>5, <1>6, <1>7, <1>8 DEF Step

\* What has been sent stays sent.
LEMMA SentStays ==
  ASSUME ProgramInv, Dynamic, NEW r \in Rank, Step(r) \/ \E s \in Rank : Push(r, s),
         NEW f \in Rank, NEW t \in Rank, NEW c \in Nat, NEW kind \in OpenKinds, Sent(f, t, c, kind)
  PROVE  Sent(f, t, c, kind)'
<1>1. CASE f # r
  <2>1. /\ context'[f] = context[f] /\ problems'[f] = problems[f] /\ todo'[f] = todo[f]
        /\ mode'[f] = mode[f] /\ next'[f] = next[f]
    BY <1>1, OtherRanks DEF ProgramInv
  <2>. QED BY <2>1 DEF Sent, Past, At, Opened, Order
<1>2. CASE f = r
  <2>. DEFINE x == Opened(r) y == Opened(r)' z == Order(kind)
  <2>1. x \in 0 .. 3 /\ y \in 0 .. 3 /\ z \in 0 .. 2 /\ Order(kind)' = z
    BY OpenedType DEF Opened, Order
  <2>2. context[r] \in Int /\ next[r] \in Nat /\ next[r] <= NbRanks /\ NbRanks \in Nat /\ t \in 0 .. NbRanks - 1
    BY OwnTypes DEF Rank
  <2>3. \/ context[r] > c \/ (context[r] = c /\ x > z)
        \/ context[r] = c /\ x = z /\ (mode[r] \in {"wait", "dead"} \/ (mode[r] = "notify" /\ next[r] > t))
    BY <1>2 DEF Sent, Past, At
  <2>4. SUFFICES \/ context'[r] > c \/ (context'[r] = c /\ y > z)
                 \/ /\ context'[r] = c /\ y = z
                    /\ mode'[r] \in {"wait", "dead"} \/ (mode'[r] = "notify" /\ next'[r] > t)
    BY <1>2, <2>1 DEF Sent, Past, At
  <2>5. \/ context'[r] = context[r] /\ y = x /\ ~SegmentIsOpen(r) /\ ~NewContext(r)
        \/ SegmentIsOpen(r) /\ context'[r] = context[r] /\ y = x + 1
        \/ NewContext(r) /\ context'[r] = context[r] + 1
    BY OpenedNext
  <2>6. NewContext(r) => mode[r] = "user"
    BY NewContextLeads
  <2>. HIDE DEF x, y, z
  <2>7. CASE context'[r] = context[r] /\ y = x /\ ~SegmentIsOpen(r)
    BY <2>2, <2>3, <2>7, ModeNext
  <2>. QED BY <2>1, <2>2, <2>3, <2>5, <2>6, <2>7
<1>. QED BY <1>1, <1>2

\* Only the wait for a notification takes it.
LEMMA TakenNext ==
  ASSUME ProgramInv, Dynamic, NEW r \in Rank, Step(r) \/ \E s \in Rank : Push(r, s),
         NEW f \in Rank, NEW t \in Rank, NEW c \in Nat, NEW kind \in OpenKinds, Taken(t, f, c, kind)'
  PROVE  \/ Taken(t, f, c, kind)
         \/ t = r /\ DummyWait(r) /\ next[r] = f /\ At(r, c, kind)
<1>1. CASE t # r
  <2>1. /\ context'[t] = context[t] /\ problems'[t] = problems[t] /\ todo'[t] = todo[t]
        /\ mode'[t] = mode[t] /\ next'[t] = next[t]
    BY <1>1, OtherRanks DEF ProgramInv
  <2>. QED BY <2>1 DEF Taken, Past, At, Opened, Order
<1>2. CASE t = r
  <2>. DEFINE x == Opened(r) y == Opened(r)' z == Order(kind)
  <2>1. x \in 0 .. 3 /\ y \in 0 .. 3 /\ z \in 0 .. 2 /\ Order(kind)' = z
    BY OpenedType DEF Opened, Order
  <2>2. /\ context[r] \in Int /\ next[r] \in Nat /\ next[r] <= NbRanks /\ NbRanks \in Nat
        /\ f \in 0 .. NbRanks - 1
    BY OwnTypes DEF Rank
  <2>3. \/ context'[r] > c \/ (context'[r] = c /\ y > z)
        \/ context'[r] = c /\ y = z /\ mode'[r] = "wait" /\ next'[r] > f
    BY <1>2, <2>1 DEF Taken, Past, At
  <2>4. SUFFICES \/ context[r] > c \/ (context[r] = c /\ x > z)
                 \/ context[r] = c /\ x = z /\ mode[r] = "wait" /\ next[r] > f
                 \/ DummyWait(r) /\ next[r] = f /\ context[r] = c /\ x = z
    BY <1>2 DEF Taken, Past, At
  <2>5. \/ context'[r] = context[r] /\ y = x /\ ~SegmentIsOpen(r) /\ ~NewContext(r)
        \/ SegmentIsOpen(r) /\ context'[r] = context[r] /\ y = x + 1
        \/ NewContext(r) /\ context'[r] = context[r] + 1 /\ (context[r] # -1 => x = 3)
    BY OpenedNext
  <2>6. NewContext(r) => mode'[r] = "user"
    BY NewContextLeads DEF Becomes
  <2>7. SegmentIsOpen(r) => mode[r] = "wait" /\ next[r] = NbRanks /\ mode'[r] = "user"
    BY IsOpenLeads DEF Becomes
  <2>. HIDE DEF x, y, z
  <2>8. CASE context'[r] = context[r] /\ y = x /\ ~SegmentIsOpen(r)
    BY <2>2, <2>3, <2>8, ModeNext
  <2>9. CASE NewContext(r)
    <3>1. context'[r] > c
      BY <2>3, <2>5, <2>6, <2>9, <2>1, OpenedNext, NewContextLeads, Different DEF Becomes, Opened, y
    <3>. QED BY <2>1, <2>2, <2>5, <2>9, <3>1
  <2>. QED BY <2>1, <2>2, <2>3, <2>5, <2>7, <2>8, <2>9
<1>. QED BY <1>1, <1>2

-----------------------------------------------------------------------------
(* Notifications *)

\* A dummy notification was sent and is not taken; two links have one for each segment.
Fresh(n) ==
  /\ Dynamic /\ n.id = n.from /\ n.to \in Links(n.from)
  /\ \E c \in Nat, kind \in OpenKinds :
       n.segment = SegmentId(c, kind) /\ Sent(n.from, n.to, c, kind) /\ ~Taken(n.to, n.from, c, kind)

\* Results are on their way only while nobody has finished, to a result segment that is open.
Payload(n) ==
  /\ n.segment = SegmentId(context[n.to], RESULT) /\ n.id = 0
  /\ context[n.to] \in Nat /\ (Dynamic => Opened(n.to) >= 1)
  /\ \A s \in Rank : problems[s] > 0 /\ todo[s] # <<>>

Right(n) == IF n.value = 1 THEN Fresh(n) ELSE Payload(n)

MessagesInv ==
  /\ \A n \in wire : Right(n) /\ (n.value = 1 => n \notin notified[n.to])
  /\ \A r \in Rank : \A n \in notified[r] : n.to = r /\ Right(n)

\* Nobody takes what was not sent to it.
HandshakeInv ==
  Dynamic =>
    \A r \in Rank : \A f \in Links(r), c \in Nat, kind \in OpenKinds :
      Taken(r, f, c, kind) => Sent(f, r, c, kind)

LEMMA MessagesInit == Init => MessagesInv /\ HandshakeInv
<1>. SUFFICES ASSUME Init PROVE MessagesInv /\ HandshakeInv
  OBVIOUS
<1>1. MessagesInv
  BY DEF Init, MessagesInv
<1>2. HandshakeInv
  BY DEF Init, HandshakeInv, Taken, Past, At
<1>. QED BY <1>1, <1>2

LEMMA SegmentsDiffer ==
  ASSUME NEW c \in Nat, NEW d \in Nat, NEW k \in Kinds, NEW l \in Kinds, SegmentId(c, k) = SegmentId(d, l)
  PROVE  c = d /\ k = l
  BY DEF SegmentId, Kinds, TASK, RESULT, TMP, SCRATCH

LEMMA SameMessage ==
  ASSUME NEW n \in Message, NEW m \in Message,
         n.from = m.from, n.to = m.to, n.segment = m.segment, n.id = m.id, n.value = m.value
  PROVE  n = m
<1>1. n = [from |-> n.from, to |-> n.to, segment |-> n.segment, id |-> n.id, value |-> n.value]
  BY DEF Message
<1>2. m = [from |-> m.from, to |-> m.to, segment |-> m.segment, id |-> m.id, value |-> m.value]
  BY DEF Message
<1>. QED BY <1>1, <1>2

LEMMA MessageTypes ==
  ASSUME ProgramInv
  PROVE  /\ wire \subseteq Message /\ \A r \in Rank : notified[r] \subseteq Message
         /\ \A n \in Message : /\ n.from \in Rank /\ n.to \in Rank /\ n.segment \in Nat /\ n.id \in Rank
                               /\ n.value \in {1, 2}
  BY DEF ProgramInv, Types, Message

\* A rank that opens a segment has no results notified there.
LEMMA WaitsForDummies ==
  ASSUME ProgramInv, LocalInv, MessagesInv, NEW r \in Rank, todo[r] \in Opens,
         NEW n \in notified[r], n.segment = Segment(r)
  PROVE  n.value = 1 /\ Fresh(n) /\ n.to = r
<1>1. n.to = r /\ Right(n) /\ n.value \in {1, 2}
  BY MessageTypes DEF MessagesInv
<1>2. SUFFICES ASSUME Payload(n) PROVE FALSE
  BY <1>1 DEF Right
<1>3. /\ Dynamic /\ context[r] \in Nat /\ Kind(r) \in OpenKinds /\ Opened(r) = Order(Kind(r))
      /\ Segment(r) = SegmentId(context[r], Kind(r))
  BY Opening
<1>4. n.segment = SegmentId(context[r], RESULT) /\ Opened(r) >= 1
  BY <1>1, <1>2, <1>3 DEF Payload
<1>5. Kind(r) = RESULT
  BY <1>3, <1>4, SegmentsDiffer DEF OpenKinds, Kinds
<1>6. Order(RESULT) = 0
  BY DEF Order
<1>. QED BY <1>3, <1>4, <1>5, <1>6

\* What a rank takes was sent: the handshake.
LEMMA HandshakeNext ==
  ASSUME ProgramInv, LocalInv, MessagesInv, HandshakeInv, Dynamic,
         NEW q \in Rank, Step(q) \/ \E s \in Rank : Push(q, s),
         NEW r \in Rank, NEW f \in Links(r), NEW c \in Nat, NEW kind \in OpenKinds, Taken(r, f, c, kind)'
  PROVE  Sent(f, r, c, kind)'
<1>1. f \in Rank /\ r \in Links(f)
  BY LinksGoBothWays
<1>2. CASE Taken(r, f, c, kind)
  BY <1>1, <1>2, SentStays DEF HandshakeInv
<1>3. CASE r = q /\ DummyWait(q) /\ next[q] = f /\ At(q, c, kind)
  <2>1. todo[r] \in Opens
    BY <1>3, DummyWaitLeads
  <2>2. /\ context[r] \in Nat /\ Kind(r) \in OpenKinds /\ Opened(r) = Order(Kind(r))
        /\ Segment(r) = SegmentId(context[r], Kind(r))
        /\ registrations_status[r] = Links(r)
    BY <2>1, Opening
  <2>3. PICK n \in notified[r] : n.segment = Segment(r) /\ n.id = f
    BY <1>3, <2>2 DEF DummyWait
  <2>4. Fresh(n) /\ n.to = r
    BY <2>1, <2>3, WaitsForDummies
  <2>5. PICK d \in Nat, k \in OpenKinds : n.segment = SegmentId(d, k) /\ Sent(n.from, n.to, d, k)
    BY <2>4 DEF Fresh
  <2>6. d = context[r] /\ k = Kind(r)
    <3>1. k \in Kinds /\ Kind(r) \in Kinds
      BY <2>2 DEF OpenKinds, Kinds
    <3>2. SegmentId(d, k) = SegmentId(context[r], Kind(r))
      BY <2>2, <2>3, <2>5
    <3>. QED BY <2>2, <3>1, <3>2, SegmentsDiffer
  <2>7. d = c /\ k = kind
    <3>1. Order(k) = Order(kind) => k = kind
      BY DEF Order, OpenKinds, TASK, RESULT, TMP
    <3>. QED BY <1>3, <2>2, <2>6, <3>1 DEF At
  <2>8. Sent(f, r, c, kind)
    BY <2>3, <2>4, <2>5, <2>7 DEF Fresh
  <2>. QED BY <1>1, <2>8, SentStays
<1>. QED BY <1>1, <1>2, <1>3, TakenNext

\* A message stays right until it is taken, or nobody needs it any more.
LEMMA FreshStays ==
  ASSUME ProgramInv, LocalInv, NEW q \in Rank, Step(q) \/ \E s \in Rank : Push(q, s),
         NEW n \in Message, Fresh(n),
         ~(DummyWait(q) /\ n.to = q /\ next[q] = n.from /\ n.segment = Segment(q))
  PROVE  Fresh(n)'
<1>1. n.from \in Rank /\ n.to \in Rank
  BY DEF Message
<1>2. PICK c \in Nat, kind \in OpenKinds :
        n.segment = SegmentId(c, kind) /\ Sent(n.from, n.to, c, kind) /\ ~Taken(n.to, n.from, c, kind)
  BY DEF Fresh
<1>3. Dynamic
  BY DEF Fresh
<1>4. Sent(n.from, n.to, c, kind)'
  BY <1>1, <1>2, <1>3, SentStays
<1>5. ~Taken(n.to, n.from, c, kind)'
  <2>1. SUFFICES ASSUME n.to = q, DummyWait(q), next[q] = n.from, At(q, c, kind) PROVE FALSE
    BY <1>1, <1>2, <1>3, TakenNext
  <2>2. /\ context[q] \in Nat /\ Kind(q) \in OpenKinds /\ Opened(q) = Order(Kind(q))
        /\ Segment(q) = SegmentId(context[q], Kind(q))
    BY <2>1, DummyWaitLeads, Opening
  <2>3. Kind(q) = kind
    BY <2>1, <2>2 DEF At, Order, OpenKinds, TASK, RESULT, TMP
  <2>. QED BY <1>2, <2>1, <2>2, <2>3 DEF At
<1>6. Links(n.from)' = Links(n.from)
  BY DEF Links, Tree
<1>7. SegmentId(c, kind)' = SegmentId(c, kind)
  BY DEF SegmentId
<1>8. Fresh(n)' <=> /\ Dynamic /\ n.id = n.from /\ n.to \in Links(n.from)'
                    /\ \E d \in Nat, k \in OpenKinds :
                         n.segment = SegmentId(d, k) /\ Sent(n.from, n.to, d, k)' /\ ~Taken(n.to, n.from, d, k)'
  BY DEF Fresh, SegmentId, OpenKinds
<1>. QED BY <1>2, <1>3, <1>4, <1>5, <1>6, <1>8 DEF Fresh

LEMMA PayloadStays ==
  ASSUME ProgramInv, NEW q \in Rank, Step(q) \/ \E s \in Rank : Push(q, s), ~Finish(q),
         NEW n \in Message, Payload(n)
  PROVE  Payload(n)'
<1>1. n.to \in Rank /\ todo[q] # <<>> /\ problems[q] > 0
  BY DEF Message, Payload
<1>2. /\ context'[q] = context[q] /\ problems'[q] = problems[q] /\ todo'[q] # <<>>
  <2>0. ~NewContext(q) /\ ~SetProblem(q)
    BY <1>1 DEF NewContext, SetProblem
  <2>1. ~Register(q)
    <3>1. todo[q] \notin {Tree3, Dvs1}
      BY <1>1, OwnTypes, Different DEF TodoFits
    <3>. QED BY <3>1, RegisterLeads
  <2>2. CASE LeaveCollective(q) \/ SegmentIsOpen(q)
    <3>1. /\ todo[q] \in {Create4, Barrier2, Make3, Make2, Make1, Sync, Again} \cup Opens
          /\ context'[q] = context[q] /\ problems'[q] = problems[q] /\ todo'[q] = Tail(todo[q])
      BY <2>2, LeaveLeads, IsOpenLeads DEF Becomes
    <3>2. /\ <<>> \notin {Tree3, Dvs1, Sync, Make1, Make2, Work1} \cup Opens
          /\ {Open1, Open2, Open3} = Opens
      BY Different DEF Opens
    <3>3. Tail(Sync) # <<>> /\ Tail(Open1) # <<>> /\ Tail(Open2) # <<>> /\ Tail(Open3) # <<>>
      <4>1. Tail(Sync) \in {Open3, Work1} /\ Tail(Open1) = Work1 /\ Tail(Open2) = Open1 /\ Tail(Open3) = Open2
        BY Tails
      <4>. QED BY <3>2, <4>1
    <3>4. /\ Tail(Create4) # <<>> /\ Tail(Barrier2) # <<>> /\ Tail(Make3) # <<>>
          /\ Tail(Make2) # <<>> /\ Tail(Make1) # <<>> /\ Tail(Again) # <<>>
      BY <3>2, Tails
    <3>. QED BY <3>1, <3>2, <3>3, <3>4
  <2>3. CASE EnterCollective(q) \/ OpenSegment(q) \/ DummyNotify(q) \/ WaitQueue(q) \/ DummyWait(q) \/ Work(q)
    BY <1>1, <2>3, EnterLeads, OpenLeads, NotifyLeads, WaitQueueLeads, DummyWaitLeads, WorkLeads DEF Becomes
  <2>4. CASE TakeResults(q) \/ \E s \in Rank : Push(q, s)
    BY <1>1, <2>4, ResultsLeave DEF program
  <2>. QED BY <2>0, <2>1, <2>2, <2>3, <2>4 DEF Step
<1>3. ASSUME NEW o \in Rank
      PROVE  context'[o] = context[o] /\ problems'[o] = problems[o] /\ todo'[o] # <<>>
             /\ (Dynamic /\ Opened(o) >= 1 => Opened(o)' >= 1)
  <2>1. CASE o = q
    <3>1. Dynamic => Opened(q)' = Opened(q) \/ Opened(q)' = Opened(q) + 1
      BY <1>1, OpenedNext DEF NewContext
    <3>. QED BY <1>2, <2>1, <3>1, OpenedType
  <2>2. CASE o # q
    <3>1. context'[o] = context[o] /\ problems'[o] = problems[o] /\ todo'[o] = todo[o]
      BY <2>2, OtherRanks DEF ProgramInv
    <3>2. Opened(o)' = Opened(o)
      BY <3>1 DEF Opened
    <3>. QED BY <3>1, <3>2 DEF Payload
  <2>. QED BY <2>1, <2>2
<1>. QED BY <1>1, <1>3 DEF Payload, SegmentId

\* It is enough to look at new messages, and at those that a wait for a dummy leaves.
LEMMA MessagesKept ==
  ASSUME ProgramInv, LocalInv, MessagesInv, NEW q \in Rank, Step(q) \/ \E s \in Rank : Push(q, s),
         ~DummyWait(q), NEW n \in Message,
         n \in wire \/ \E r \in Rank : n \in notified[r]
  PROVE  Right(n)'
<1>1. Right(n)
  BY DEF MessagesInv
<1>2. n.value = 1 => Fresh(n)'
  BY <1>1, FreshStays DEF Right
<1>3. n.value # 1 /\ Finish(q) => FALSE
  <2>1. n.value # 1 => n \in ResultsFor(n.to) /\ n.to \in Rank
    BY MessageTypes DEF ResultsFor, MessagesInv
  <2>. QED BY <2>1, FinishLeads
<1>4. n.value # 1 => Payload(n)'
  BY <1>1, <1>3, PayloadStays DEF Right
<1>. QED BY <1>2, <1>4 DEF Right

\* A dummy notification says what its sender and its receiver have done about its segment.
LEMMA FreshSays ==
  ASSUME NEW n, Fresh(n), NEW c \in Nat, NEW kind \in OpenKinds, n.segment = SegmentId(c, kind)
  PROVE  Sent(n.from, n.to, c, kind) /\ ~Taken(n.to, n.from, c, kind)
<1>1. PICK d \in Nat, k \in OpenKinds :
        n.segment = SegmentId(d, k) /\ Sent(n.from, n.to, d, k) /\ ~Taken(n.to, n.from, d, k)
  BY DEF Fresh
<1>2. k \in Kinds /\ kind \in Kinds
  BY DEF OpenKinds, Kinds
<1>3. c = d /\ k = kind
  <2>1. SegmentId(c, kind) = SegmentId(d, k)
    BY <1>1
  <2>. QED BY <1>2, <2>1, SegmentsDiffer
<1>. QED BY <1>1, <1>3

LEMMA RightUnchanged ==
  ASSUME UNCHANGED program, NEW n
  PROVE  Right(n)' <=> Right(n)
<1>1. \A r \in Rank : Opened(r)' = Opened(r)
  BY DEF program, Opened
<1>2. Payload(n)' <=> Payload(n)
  BY <1>1 DEF program, Payload, Opened, SegmentId
<1>3. ASSUME NEW f, NEW t, NEW c, NEW k
      PROVE  (Sent(f, t, c, k)' <=> Sent(f, t, c, k)) /\ (Taken(t, f, c, k)' <=> Taken(t, f, c, k))
  BY DEF program, Sent, Taken, Past, At, Opened, Order
<1>4. Fresh(n)' <=> Fresh(n)
  BY <1>3 DEF Fresh, Links, Tree, SegmentId
<1>. QED BY <1>2, <1>4 DEF Right

\* Results are sent where they are expected.
LEMMA PushIsRight ==
  ASSUME ProgramInv, LocalInv, HandshakeInv, NEW q \in Rank, NEW s \in Rank, Push(q, s)
  PROVE  Payload(Notification(q, SegmentId(context[q], RESULT), s, 0, 2))
<1>. DEFINE n == Notification(q, SegmentId(context[q], RESULT), s, 0, 2)
<1>1. /\ mode[q] = "work" /\ s \in registrations_status[q]
      /\ \A o \in Rank : todo[o] # <<>> /\ problems[o] = problems[q] /\ context[o] = context[q]
  BY DEF Push, Finished
<1>2. todo[q] = Work1 /\ problems[q] > 0 /\ context[q] \in Nat
  <2>1. todo[q] = Work1
    BY <1>1 DEF ProgramInv, ModeFits
  <2>2. problems[q] # 0 /\ context[q] # -1
    BY <2>1, OwnTypes, Different DEF TodoFits
  <2>. QED BY <2>1, <2>2, OwnTypes
<1>3. n.to = s /\ n.id = 0 /\ n.segment = SegmentId(context[s], RESULT)
  BY <1>1 DEF Notification
<1>4. Dynamic => Opened(s) >= 1
  <2>1. SUFFICES ASSUME Dynamic PROVE Opened(s) >= 1
    OBVIOUS
  <2>2. Opened(q) = 3
    BY <1>2, Different DEF Opened, Opens
  <2>3. Order(TMP) = 1 /\ TMP \in OpenKinds
    BY DEF Order, OpenKinds, TMP, RESULT
  <2>4. s \in Links(q)
    BY <1>1, <1>2 DEF LocalInv, RegistrationsFit
  <2>5. Taken(q, s, context[q], TMP)
    BY <2>2, <2>3 DEF Taken, Past
  <2>6. Sent(s, q, context[q], TMP)
    BY <1>2, <2>1, <2>3, <2>4, <2>5 DEF HandshakeInv
  <2>. QED BY <1>1, <1>2, <2>3, <2>6, OpenedType DEF Sent, Past, At
<1>. HIDE DEF n
<1>5. Payload(n)
  BY <1>1, <1>2, <1>3, <1>4 DEF Payload
<1>. QED BY <1>5 DEF n

LEMMA PushSends ==
  ASSUME ProgramInv, LocalInv, MessagesInv, HandshakeInv, NEW q \in Rank, NEW s \in Rank, Push(q, s)
  PROVE  MessagesInv'
<1>. DEFINE n == Notification(q, SegmentId(context[q], RESULT), s, 0, 2)
<1>1. wire' = wire \cup {n} /\ notified' = notified /\ UNCHANGED program
  BY DEF Push
<1>2. \A m : Right(m)' <=> Right(m)
  BY <1>1, RightUnchanged
<1>3. Right(n) /\ n.value = 2
  BY PushIsRight DEF Right, Notification
<1>. HIDE DEF n
<1>. QED BY <1>1, <1>2, <1>3 DEF MessagesInv

\* A dummy notification is sent once, and before it can be taken.
LEMMA DummyIsSent ==
  ASSUME ProgramInv, LocalInv, MessagesInv, HandshakeInv, NEW q \in Rank, DummyNotify(q)
  PROVE  MessagesInv'
<1>0. Step(q) /\ ~DummyWait(q)
  BY DEF Step, DummyNotify, DummyWait
<1>1. /\ mode[q] = "notify" /\ todo[q] \in Opens /\ next[q] \in Rank
      /\ context'[q] = context[q] /\ mode'[q] = "notify" /\ next'[q] = next[q] + 1 /\ notified' = notified
      /\ todo'[q] = todo[q] /\ problems'[q] = problems[q]
  BY NotifyLeads DEF Becomes
<1>2. \A m \in Message : m \in wire \/ (\E r \in Rank : m \in notified[r]) => Right(m)'
  BY <1>0, MessagesKept
<1>3. CASE next[q] \notin registrations_status[q]
  <2>1. wire' = wire
    BY <1>3 DEF DummyNotify
  <2>. QED BY <1>1, <1>2, <2>1, MessageTypes DEF MessagesInv
<1>4. CASE next[q] \in registrations_status[q]
  <2>0. PICK n, c, k, t : /\ n = Notification(q, Segment(q), next[q], q, 1)
                          /\ c = context[q] /\ k = Kind(q) /\ t = next[q]
    OBVIOUS
  <2>1. wire' = wire \cup {n}
    BY <1>4, <2>0 DEF DummyNotify
  <2>2. /\ Dynamic /\ c \in Nat /\ k \in OpenKinds /\ Opened(q) = Order(k)
        /\ Segment(q) = SegmentId(c, k) /\ registrations_status[q] = Links(q)
    BY <1>1, <2>0, Opening
  <2>3. t \in Links(q) /\ q \in Links(t) /\ t \in Rank
    BY <1>1, <1>4, <2>0, <2>2, LinksGoBothWays
  <2>4. n.from = q /\ n.to = t /\ n.segment = SegmentId(c, k) /\ n.id = q /\ n.value = 1
    BY <2>0, <2>2 DEF Notification
  <2>5. Order(k) \in Nat /\ t \in Nat /\ NbRanks \in Nat /\ Order(k)' = Order(k)
    BY <2>3, ConnectionsAssumption DEF Order, Rank
  <2>6. ~Sent(q, t, c, k)
    BY <1>1, <2>0, <2>2, <2>5 DEF Sent, Past, At
  <2>7. ~Taken(t, q, c, k)
    BY <2>2, <2>3, <2>6 DEF HandshakeInv
  <2>8. ~Taken(t, q, c, k)'
    BY <1>0, <2>2, <2>3, <2>7, TakenNext
  <2>9. Sent(q, t, c, k)'
    <3>1. Opened(q)' = Opened(q)
      BY <1>1 DEF Opened
    <3>. QED BY <1>1, <2>0, <2>2, <2>5, <3>1 DEF Sent, At
  <2>10. Links(q)' = Links(q) /\ SegmentId(c, k)' = SegmentId(c, k)
    BY DEF Links, Tree, SegmentId
  <2>11. Fresh(n)'
    <3>1. Fresh(n)' <=> /\ Dynamic /\ n.id = n.from /\ n.to \in Links(n.from)'
                        /\ \E d \in Nat, l \in OpenKinds :
                             n.segment = SegmentId(d, l) /\ Sent(n.from, n.to, d, l)' /\ ~Taken(n.to, n.from, d, l)'
      BY DEF Fresh, SegmentId, OpenKinds
    <3>. QED BY <2>2, <2>3, <2>4, <2>8, <2>9, <2>10, <3>1
  <2>12. n \notin notified[n.to]
    <3>1. SUFFICES ASSUME n \in notified[n.to] PROVE FALSE
      OBVIOUS
    <3>2. Fresh(n)
      BY <2>3, <2>4, <3>1 DEF MessagesInv, Right
    <3>. QED BY <2>2, <2>4, <2>6, <3>2, FreshSays
  <2>13. Right(n)'
    BY <2>4, <2>11 DEF Right
  <2>. QED BY <1>1, <1>2, <2>1, <2>12, <2>13, MessageTypes DEF MessagesInv
<1>. QED BY <1>3, <1>4

\* The notification that is waited for is the only one that the wait makes stale.
LEMMA DummyIsTaken ==
  ASSUME ProgramInv, LocalInv, MessagesInv, NEW q \in Rank, DummyWait(q)
  PROVE  MessagesInv'
<1>0. Step(q) /\ ~Finish(q)
  BY DEF Step, Finish, DummyWait
<1>1. mode[q] = "wait" /\ todo[q] \in Opens /\ next[q] \in Rank /\ wire' = wire
  BY DummyWaitLeads
<1>2. /\ wire \subseteq Message /\ notified \in [Rank -> SUBSET Message]
      /\ \A m \in Message : m.from \in Rank /\ m.to \in Rank /\ m.value \in {1, 2}
  BY MessageTypes DEF ProgramInv, Types
<1>3. ASSUME NEW m \in Message, Right(m),
             ~(m.value = 1 /\ m.to = q /\ next[q] = m.from /\ m.segment = Segment(q))
      PROVE  Right(m)'
  <2>1. m.value = 1 => Fresh(m)'
    BY <1>0, <1>3, FreshStays DEF Right
  <2>2. m.value # 1 => Payload(m)'
    BY <1>0, <1>3, PayloadStays DEF Right
  <2>. QED BY <2>1, <2>2 DEF Right
<1>4. registrations_status[q] = Links(q)
  BY <1>1, Opening
<1>5. CASE next[q] \notin registrations_status[q]
  <2>1. notified' = notified
    BY <1>5 DEF DummyWait
  <2>2. \A m \in Message : Right(m) /\ m.value = 1 /\ m.to = q => next[q] # m.from
    <3>1. SUFFICES ASSUME NEW m \in Message, Fresh(m), m.to = q, next[q] = m.from PROVE FALSE
      BY DEF Right
    <3>2. m.from \in Rank /\ m.to \in Links(m.from)
      BY <1>2, <3>1 DEF Fresh
    <3>3. next[q] \in Links(q)
      BY <3>1, <3>2, LinksGoBothWays
    <3>. QED BY <1>4, <1>5, <3>3
  <2>. QED BY <1>1, <1>2, <1>3, <2>1, <2>2 DEF MessagesInv
<1>6. CASE next[q] \in registrations_status[q]
  <2>1. PICK n \in notified[q] : /\ n.segment = Segment(q) /\ n.id = next[q]
                                 /\ notified' = [notified EXCEPT ![q] = @ \ {n}]
    BY <1>6 DEF DummyWait
  <2>2. n.value = 1 /\ Fresh(n) /\ n.to = q /\ n \in Message
    BY <1>1, <1>2, <2>1, WaitsForDummies
  <2>3. n.from = n.id
    BY <2>2 DEF Fresh
  <2>4. ASSUME NEW m \in Message, Right(m), m # n PROVE Right(m)'
    <3>1. ~(m.value = 1 /\ m.to = q /\ next[q] = m.from /\ m.segment = Segment(q))
      <4>1. SUFFICES ASSUME m.value = 1, m.to = q, next[q] = m.from, m.segment = Segment(q) PROVE FALSE
        OBVIOUS
      <4>2. m.id = m.from
        BY <2>4, <4>1 DEF Right, Fresh
      <4>. QED BY <2>1, <2>2, <2>3, <2>4, <4>1, <4>2, SameMessage
    <3>. QED BY <1>3, <2>4, <3>1
  <2>5. n \notin wire
    BY <2>1, <2>2 DEF MessagesInv
  <2>6. \A r \in Rank : notified'[r] = IF r = q THEN notified[r] \ {n} ELSE notified[r]
    BY <1>2, <2>1
  <2>7. \A r \in Rank : \A m \in notified[r] : m \in Message /\ m.to = r /\ Right(m)
    BY <1>2 DEF MessagesInv
  <2>8. \A r \in Rank : \A m \in notified'[r] : m \in notified[r] /\ m # n
    <3>1. \A r \in Rank \ {q} : n \notin notified[r]
      BY <2>2, <2>7
    <3>. QED BY <2>6, <3>1
  <2>9. \A m \in wire : m \in Message /\ Right(m) /\ m # n /\ (m.value = 1 => m \notin notified'[m.to])
    BY <1>2, <2>5, <2>8 DEF MessagesInv
  <2>. QED BY <1>1, <2>4, <2>7, <2>8, <2>9 DEF MessagesInv
<1>. QED BY <1>5, <1>6

LEMMA MessagesNext ==
  ProgramInv /\ LocalInv /\ MessagesInv /\ HandshakeInv /\ [Next]_vars => MessagesInv'
<1>. SUFFICES ASSUME ProgramInv, LocalInv, MessagesInv, HandshakeInv, [Next]_vars PROVE MessagesInv'
  OBVIOUS
<1>1. /\ wire \subseteq Message /\ notified \in [Rank -> SUBSET Message]
      /\ \A m \in Message : m.from \in Rank /\ m.to \in Rank
  BY MessageTypes DEF ProgramInv, Types
<1>2. ASSUME NEW q \in Rank, Step(q), ~DummyNotify(q), ~DummyWait(q) PROVE MessagesInv'
  <2>1. wire' = wire /\ \A r \in Rank : notified'[r] \subseteq notified[r]
    <3>1. CASE NewContext(q) \/ SetProblem(q) \/ EnterCollective(q) \/ LeaveCollective(q) \/ Register(q)
               \/ OpenSegment(q) \/ SegmentIsOpen(q) \/ Work(q) \/ Finish(q)
      BY <3>1, NewContextLeads, SetProblemLeads, EnterLeads, LeaveLeads, RegisterLeads, OpenLeads,
         IsOpenLeads, WorkLeads, FinishLeads DEF network
    <3>2. CASE WaitQueue(q)
      BY <3>2, WaitQueueLeads
    <3>3. CASE TakeResults(q)
      BY <1>1, <3>3 DEF TakeResults
    <3>. QED BY <1>2, <3>1, <3>2, <3>3 DEF Step
  <2>2. \A m \in Message : m \in wire \/ (\E r \in Rank : m \in notified[r]) => Right(m)'
    BY <1>2, MessagesKept
  <2>. QED BY <1>1, <2>1, <2>2 DEF MessagesInv
<1>3. ASSUME NEW m \in wire, Arrive(m) PROVE MessagesInv'
  <2>1. /\ wire' = wire \ {m} /\ UNCHANGED program
        /\ notified' = [notified EXCEPT ![m.to] = {o \in @ : o.segment /= m.segment \/ o.id /= m.id} \cup {m}]
    BY <1>3 DEF Arrive
  <2>2. \A n : Right(n)' <=> Right(n)
    BY <2>1, RightUnchanged
  <2>3. \A r \in Rank : notified'[r] \subseteq notified[r] \cup (IF r = m.to THEN {m} ELSE {})
    BY <1>1, <2>1
  <2>4. Right(m) /\ m.to \in Rank
    BY <1>1 DEF MessagesInv
  <2>5. \A r \in Rank : \A n \in notified'[r] : n.to = r /\ Right(n)
    BY <2>3, <2>4 DEF MessagesInv
  <2>6. \A n \in wire' : Right(n) /\ (n.value = 1 => n \notin notified'[n.to])
    BY <1>1, <2>1, <2>3 DEF MessagesInv
  <2>. QED BY <2>2, <2>5, <2>6 DEF MessagesInv
<1>4. CASE UNCHANGED vars
  <2>1. UNCHANGED program /\ wire' = wire /\ notified' = notified
    BY <1>4 DEF vars, network
  <2>2. \A n : Right(n)' <=> Right(n)
    BY <2>1, RightUnchanged
  <2>. QED BY <2>1, <2>2 DEF MessagesInv
<1>5. ASSUME NEW q \in Rank, Step(q) \/ \E s \in Rank : Push(q, s) PROVE MessagesInv'
  BY <1>2, <1>5, DummyIsSent, DummyIsTaken, PushSends
<1>. QED BY <1>3, <1>4, <1>5 DEF Next, Stop

LEMMA HandshakeKept ==
  ProgramInv /\ LocalInv /\ MessagesInv /\ HandshakeInv /\ [Next]_vars => HandshakeInv'
<1>. SUFFICES ASSUME ProgramInv, LocalInv, MessagesInv, HandshakeInv, [Next]_vars PROVE HandshakeInv'
  OBVIOUS
<1>1. ASSUME NEW q \in Rank, Step(q) \/ \E s \in Rank : Push(q, s) PROVE HandshakeInv'
  <2>1. ASSUME Dynamic, NEW r \in Rank, NEW f \in Links(r), NEW c \in Nat, NEW kind \in OpenKinds,
               Taken(r, f, c, kind)'
        PROVE  Sent(f, r, c, kind)'
    BY <1>1, <2>1, HandshakeNext
  <2>2. \A r \in Rank : Links(r)' = Links(r)
    BY DEF Links, Tree
  <2>. QED BY <2>1, <2>2 DEF HandshakeInv, OpenKinds
<1>2. CASE UNCHANGED program
  <2>1. ASSUME NEW f, NEW t, NEW c, NEW k
        PROVE  (Sent(f, t, c, k)' <=> Sent(f, t, c, k)) /\ (Taken(t, f, c, k)' <=> Taken(t, f, c, k))
    BY <1>2 DEF program, Sent, Taken, Past, At, Opened, Order
  <2>. QED BY <2>1 DEF HandshakeInv, Links, Tree, OpenKinds
<1>. QED BY <1>1, <1>2 DEF Next, Arrive, Stop, vars

\* The inductive invariant.
SetupInv == ProgramInv /\ LocalInv /\ InStep /\ MessagesInv /\ HandshakeInv

\* What a rank does, has registered and created, and what is notified fit together, always.
THEOREM SetupInvariant == Spec => []SetupInv
<1>1. Init => SetupInv
  BY ProgramInit, LocalInit, InStepInit, MessagesInit DEF SetupInv
<1>2. SetupInv /\ [Next]_vars => SetupInv'
  BY ProgramNext, LocalNext, InStepNext, MessagesNext, HandshakeKept DEF SetupInv
<1>. QED BY <1>1, <1>2, PTL DEF Spec

LEMMA WorkerIsOpen ==
  ASSUME SetupInv, NEW r \in Rank, mode[r] = "work"
  PROVE  Opened(r) = 3 /\ context[r] \in Nat
<1>1. todo[r] = Work1
  BY DEF SetupInv, ProgramInv, ModeFits
<1>2. problems[r] # 0 /\ context[r] # -1
  BY <1>1, OwnTypes, Different DEF SetupInv, TodoFits
<1>. QED BY <1>1, <1>2, OwnTypes, Different DEF SetupInv, Opened, Opens

\* The assertion of open_segment_to_thieves holds, and no rank that works takes a dummy
\* notification for results.
THEOREM HandshakesAreKeptApart == Spec => []NotificationsKeptApart
<1>1. SetupInv => NotificationsKeptApart
  <2>. SUFFICES ASSUME SetupInv PROVE NotificationsKeptApart
    OBVIOUS
  <2>1. TypeOK
    BY DEF SetupInv, ProgramInv, Types
  <2>2. DummiesAreDummies
    <3>1. SUFFICES ASSUME NEW r \in Rank, Is(r, "wait", "open"), NEW n \in notified[r], n.segment = Segment(r)
                   PROVE  n.value = 1
      BY DEF DummiesAreDummies
    <3>2. todo[r] \in Opens
      BY <3>1, FirstStep DEF SetupInv, Is
    <3>. QED BY <3>1, <3>2, WaitsForDummies DEF SetupInv
  <2>3. ResultsAreResults
    <3>1. SUFFICES ASSUME NEW r \in Rank, mode[r] = "work", NEW n \in notified[r],
                          n.value # 2, n.segment = SegmentId(context[r], RESULT)
                   PROVE  FALSE
      BY DEF ResultsAreResults
    <3>2. n.to = r /\ Fresh(n)
      BY MessageTypes, <3>1 DEF SetupInv, MessagesInv, Right
    <3>3. Opened(r) = 3 /\ context[r] \in Nat /\ RESULT \in OpenKinds /\ Order(RESULT) = 0
      BY <3>1, WorkerIsOpen DEF OpenKinds, Order
    <3>4. ~Taken(r, n.from, context[r], RESULT)
      BY <3>1, <3>2, <3>3, FreshSays
    <3>. QED BY <3>3, <3>4 DEF Taken, Past
  <2>. QED BY <2>1, <2>2, <2>3 DEF NotificationsKeptApart
<1>. QED BY <1>1, SetupInvariant, PTL

\* Whatever a working rank steals from or pushes to is registered, created and open.
THEOREM WorkersAreSetUp == Spec => []SetUpBeforeUse
<1>1. SetupInv => SetUpBeforeUse
  <2>. SUFFICES ASSUME SetupInv, NEW r \in Rank, mode[r] = "work", NEW s \in registrations_status[r]
                PROVE  /\ context[s] = context[r] => r \in registrations_status[s]
                       /\ \A kind \in TASK .. SCRATCH : SegmentId(context[r], kind) \in created[s]
                       /\ Dynamic => \A n \in wire \cup notified[s] :
                            n.to = s /\ n.segment = SegmentId(context[r], RESULT) => n.value = 2
    BY DEF SetUpBeforeUse
  <2>1. /\ s \in Links(r) /\ s \in Rank
        /\ context[s] = context[r] => r \in registrations_status[s]
        /\ \A kind \in TASK .. SCRATCH : SegmentId(context[r], kind) \in created[s]
    BY LinksSetUp DEF SetupInv
  <2>2. ASSUME Dynamic, NEW n \in wire \cup notified[s], n.to = s, n.value # 2,
               n.segment = SegmentId(context[r], RESULT)
        PROVE  FALSE
    <3>1. Fresh(n)
      BY <2>1, <2>2, MessageTypes DEF SetupInv, MessagesInv, Right
    <3>2. /\ Opened(r) = 3 /\ context[r] \in Nat
          /\ RESULT \in OpenKinds /\ TMP \in OpenKinds /\ Order(RESULT) = 0 /\ Order(TMP) = 1
      BY WorkerIsOpen DEF OpenKinds, Order, RESULT, TMP
    <3>3. Taken(r, s, context[r], TMP)
      BY <3>2 DEF Taken, Past
    <3>4. Sent(s, r, context[r], TMP)
      BY <2>1, <2>2, <3>2, <3>3 DEF SetupInv, HandshakeInv
    <3>5. Past(s, context[r], RESULT)
      BY <2>1, <3>2, <3>4, OpenedType DEF Sent, Past, At
    <3>6. ~Taken(s, n.from, context[r], RESULT)
      BY <2>2, <3>1, <3>2, FreshSays
    <3>. QED BY <3>5, <3>6 DEF Taken
  <2>. QED BY <2>1, <2>2
<1>. QED BY <1>1, SetupInvariant, PTL

-----------------------------------------------------------------------------
(* Queues *)

\* Every segment of every context finds a queue with its number. For one context this is
\* what the initialisation asserts of GASPI's configuration, queue_num >= 4.
EnoughQueues == 4 * MaxContexts <= QueueNum

\* Only handshakes leave requests behind, in queue 0; in the first context, whose task segment
\* has that number, opening the task segment takes them away.
QueueFits(r, q) ==
  /\ queue[r][q] < QueueMax
  /\ queue[r][q] # 0 =>
       q = 0 /\ (context[r] <= 0 => todo[r] \in Opens /\ ~(todo[r] = Open1 /\ mode[r] = "wait"))

QueueInv == \A r \in Rank : mode[r] # "dead" /\ \A q \in Queue : QueueFits(r, q)

LEMMA QueueInit == Init => QueueInv
  BY ConnectionsAssumption DEF Init, QueueInv, QueueFits

LEMMA SegmentHasQueue ==
  ASSUME EnoughQueues, ProgramInv, NEW r \in Rank, context[r] >= 0, NEW kind \in 0 .. 3
  PROVE  SegmentId(context[r], kind) \in Queue
<1>1. context[r] \in 0 .. MaxContexts - 1 /\ MaxContexts \in Nat /\ QueueNum \in Nat
  BY OwnTypes, ConnectionsAssumption
<1>. QED BY <1>1 DEF EnoughQueues, SegmentId, Queue

\* Nothing is posted: the queues are as they were, and those that must be empty are.
LEMMA QueuesLeft ==
  ASSUME EnoughQueues, ProgramInv, LocalInv, QueueInv, NEW r \in Rank, NEW q \in Queue,
         Step(r), ~DummyNotify(r), ~WaitQueue(r)
  PROVE  mode'[r] # "dead" /\ QueueFits(r, q)'
<1>. DEFINE c == context[r] t == todo[r]
<1>1. QueueFits(r, q) /\ mode[r] # "dead"
  BY DEF QueueInv
<1>2. CASE NewContext(r) \/ SetProblem(r)
  <2>1. t = <<>> /\ mode'[r] = "user" /\ queue' = queue /\ context'[r] \in {c, c + 1} /\ c \in Int
    BY <1>2, NewContextLeads, SetProblemLeads, OwnTypes DEF Becomes, network
  <2>2. t \notin Opens
    BY <2>1, Different
  <2>3. queue[r][q] # 0 => q = 0 /\ ~(c <= 0)
    BY <1>1, <2>2 DEF QueueFits
  <2>4. ~(c <= 0) => ~(context'[r] <= 0)
    BY <2>1
  <2>. QED BY <1>1, <2>1, <2>3, <2>4 DEF QueueFits
<1>3. CASE LeaveCollective(r) \/ Register(r) \/ Work(r) \/ EnterCollective(r)
  <2>1. /\ t \in {Create4, Barrier2, Tree3, Dvs1, Make3, Make2, Make1, Sync, Again, Work1}
        /\ mode'[r] # "dead" /\ queue' = queue /\ context'[r] = c
    BY <1>3, LeaveLeads, RegisterLeads, WorkLeads, EnterLeads DEF Becomes, network
  <2>2. t \notin Opens
    <3>1. t \in {Create4, Barrier2, Tree3, Dvs1} => t \notin Opens
      BY Different
    <3>2. t \in {Make3, Make2, Make1, Sync, Again} => t \notin Opens
      BY Different
    <3>3. Work1 \notin Opens
      BY Different DEF Opens
    <3>. QED BY <2>1, <3>1, <3>2, <3>3
  <2>. QED BY <1>1, <2>1, <2>2 DEF QueueFits
<1>4. CASE OpenSegment(r)
  <2>1. /\ mode'[r] = "notify" /\ queue' = queue /\ context'[r] = c /\ todo'[r] = t /\ t \in Opens
    BY <1>4, OpenLeads DEF Becomes, network
  <2>. QED BY <1>1, <2>1 DEF QueueFits, Opens
<1>5. CASE DummyWait(r)
  <2>1. mode[r] = "wait" /\ mode'[r] = "wait" /\ queue' = queue /\ context'[r] = c /\ todo'[r] = t
    BY <1>5, DummyWaitLeads DEF Becomes
  <2>. QED BY <1>1, <2>1 DEF QueueFits, Opens
<1>6. CASE SegmentIsOpen(r)
  <2>1. /\ mode[r] = "wait" /\ mode'[r] = "user" /\ queue' = queue /\ context'[r] = c
        /\ todo'[r] = Tail(t) /\ t \in Opens
    BY <1>6, IsOpenLeads DEF Becomes, network
  <2>2. t # Open1 => todo'[r] \in Opens
    BY <2>1, Tails DEF Opens
  <2>. QED BY <1>1, <2>1, <2>2 DEF QueueFits, Opens
<1>7. CASE TakeResults(r)
  <2>1. queue' = queue /\ UNCHANGED program
    BY <1>7 DEF TakeResults
  <2>. QED BY <1>1, <2>1 DEF QueueFits, program, Opens
<1>8. CASE Finish(r)
  <2>1. mode[r] = "work" /\ t = Work1 /\ queue' = queue /\ context'[r] = c
    BY <1>8, FinishLeads DEF Becomes, network
  <2>2. c \in Nat /\ t \notin Opens
    <3>1. t # <<>> /\ t \notin Opens
      BY <2>1, Different DEF Opens
    <3>. QED BY <3>1, OwnTypes DEF TodoFits
  <2>3. ASSUME NEW kind \in {TASK, RESULT, TMP, SCRATCH}
        PROVE  SegmentId(c, kind) \in Queue /\ queue[r][SegmentId(c, kind)] = 0
    <3>1. kind \in 0 .. 3
      BY DEF TASK, RESULT, TMP, SCRATCH
    <3>2. SegmentId(c, kind) \in Queue
      BY <2>2, <3>1, SegmentHasQueue
    <3>3. QueueFits(r, SegmentId(c, kind))
      BY <3>2 DEF QueueInv
    <3>4. SegmentId(c, kind) = 0 => c <= 0
      BY <2>2, <3>1 DEF SegmentId
    <3>. QED BY <2>2, <3>2, <3>3, <3>4 DEF QueueFits
  <2>4. Done(r)
    BY <1>8, <2>3 DEF Finish
  <2>5. mode'[r] = "user"
    BY <2>4 DEF Done, ProgramInv, Types, TypeOK
  <2>. QED BY <1>1, <2>1, <2>2, <2>5 DEF QueueFits
<1>. QED BY <1>2, <1>3, <1>4, <1>5, <1>6, <1>7, <1>8 DEF Step

LEMMA QueueNext ==
  EnoughQueues /\ ProgramInv /\ LocalInv /\ QueueInv /\ [Next]_vars => QueueInv'
<1>. SUFFICES ASSUME EnoughQueues, ProgramInv, LocalInv, QueueInv, [Next]_vars PROVE QueueInv'
  OBVIOUS
<1>0. /\ queue \in [Rank -> [Queue -> Nat]] /\ mode \in [Rank -> {"user", "collective", "notify", "wait", "work", "dead"}]
      /\ QueueMax \in Nat \ {0, 1} /\ QueueNum \in Nat \ {0}
  BY ConnectionsAssumption DEF ProgramInv, Types, TypeOK
<1>1. ASSUME NEW r \in Rank, Step(r) \/ \E s \in Rank : Push(r, s),
             mode'[r] # "dead" /\ \A q \in Queue : QueueFits(r, q)'
      PROVE  QueueInv'
  <2>1. ASSUME NEW o \in Rank \ {r} PROVE mode'[o] # "dead" /\ \A q \in Queue : QueueFits(o, q)'
    <3>1. /\ context'[o] = context[o] /\ todo'[o] = todo[o] /\ mode'[o] = mode[o] /\ queue'[o] = queue[o]
      BY <1>1, OtherRanks DEF ProgramInv
    <3>. QED BY <3>1 DEF QueueInv, QueueFits, Opens
  <2>. QED BY <1>1, <2>1 DEF QueueInv, Queue
<1>2. ASSUME NEW r \in Rank, DummyNotify(r) PROVE QueueInv'
  <2>1. /\ mode[r] = "notify" /\ todo[r] \in Opens /\ mode'[r] = "notify"
        /\ context'[r] = context[r] /\ todo'[r] = todo[r]
    BY <1>2, NotifyLeads DEF Becomes
  <2>2. queue' = queue \/ queue' = Post(r, 0, 1)
    BY <1>2 DEF DummyNotify
  <2>3. ASSUME NEW q \in Queue PROVE QueueFits(r, q)'
    <3>1. QueueFits(r, q) /\ queue[r][q] \in Nat
      BY <1>0 DEF QueueInv
    <3>2. queue'[r][q] = queue[r][q] \/ (q = 0 /\ queue'[r][q] < QueueMax)
      <4>1. queue' = Post(r, 0, 1) => queue'[r][q] = IF q = 0
              THEN (IF Full(queue[r][q], 1) THEN 0 ELSE queue[r][q]) + 1 ELSE queue[r][q]
        BY <1>0 DEF Post
      <4>. QED BY <1>0, <2>2, <3>1, <4>1 DEF Full
    <3>. QED BY <2>1, <3>1, <3>2 DEF QueueFits, Opens
  <2>4. Step(r)
    BY <1>2 DEF Step
  <2>. QED BY <1>1, <2>1, <2>3, <2>4
<1>3. ASSUME NEW r \in Rank, WaitQueue(r) PROVE QueueInv'
  <2>1. /\ mode[r] = "notify" /\ todo[r] \in Opens /\ context'[r] = context[r] /\ todo'[r] = todo[r]
    BY <1>3, WaitQueueLeads DEF Becomes
  <2>2. /\ context[r] \in Nat /\ Kind(r) \in 0 .. 3 /\ Segment(r) = SegmentId(context[r], Kind(r))
        /\ todo[r] = Open1 => Kind(r) = 0
    BY <2>1, KindsOfSteps, Different DEF Segment, TASK
  <2>3. Segment(r) \in Queue
    BY <2>2, SegmentHasQueue
  <2>4. queue' = [queue EXCEPT ![r][Segment(r)] = 0] /\ mode' = [mode EXCEPT ![r] = "wait"]
    BY <1>3, <2>3 DEF WaitQueue, To
  <2>5. mode'[r] = "wait"
    BY <1>0, <2>4
  <2>6. ASSUME NEW q \in Queue PROVE QueueFits(r, q)'
    <3>1. QueueFits(r, q) /\ queue[r][q] \in Nat
      BY <1>0 DEF QueueInv
    <3>2. queue'[r][q] = IF q = Segment(r) THEN 0 ELSE queue[r][q]
      BY <1>0, <2>3, <2>4
    <3>3. todo[r] = Open1 /\ context[r] <= 0 => Segment(r) = 0
      BY <2>2 DEF SegmentId
    <3>. QED BY <1>0, <2>1, <3>1, <3>2, <3>3 DEF QueueFits, Opens
  <2>7. Step(r)
    BY <1>3 DEF Step
  <2>. QED BY <1>1, <2>5, <2>6, <2>7
<1>4. ASSUME NEW r \in Rank, NEW s \in Rank, Push(r, s) PROVE QueueInv'
  <2>1. UNCHANGED program /\ queue' = [queue EXCEPT ![r][queue_result(context[r])] = 0]
    BY <1>4 DEF Push
  <2>2. ASSUME NEW q \in Queue PROVE QueueFits(r, q)'
    <3>1. QueueFits(r, q)
      BY DEF QueueInv
    <3>2. queue'[r][q] \in {0, queue[r][q]}
      BY <1>0, <2>1
    <3>. QED BY <1>0, <2>1, <3>1, <3>2 DEF QueueFits, program, Opens
  <2>3. mode'[r] # "dead"
    BY <2>1 DEF QueueInv, program
  <2>. QED BY <1>1, <1>4, <2>2, <2>3
<1>5. ASSUME NEW r \in Rank, Step(r), ~DummyNotify(r), ~WaitQueue(r) PROVE QueueInv'
  <2>1. ASSUME NEW q \in Queue PROVE mode'[r] # "dead" /\ QueueFits(r, q)'
    BY <1>5, QueuesLeft
  <2>2. 0 \in Queue
    BY <1>0 DEF Queue
  <2>. QED BY <1>1, <1>5, <2>1, <2>2
<1>6. CASE UNCHANGED program /\ queue' = queue
  BY <1>6 DEF program, QueueInv, QueueFits, Opens, Queue
<1>. QED BY <1>2, <1>3, <1>4, <1>5, <1>6 DEF Next, Arrive, Stop, vars, network

\* With a queue for every segment no request is posted to a full queue, no queue is waited for
\* that does not exist, and every queue is empty that is checked after the work.
THEOREM QueuesAreUsable ==
  ASSUME EnoughQueues
  PROVE  Spec => []QueuesUsable
<1>1. Init => QueueInv
  BY QueueInit
<1>2. EnoughQueues /\ SetupInv /\ QueueInv /\ [Next]_vars => QueueInv'
  BY QueueNext DEF SetupInv
<1>3. QueueInv => QueuesUsable
  BY DEF QueueInv, QueueFits, QueuesUsable, QueuesFit, QueuesChecked
<1>4. EnoughQueues
  OBVIOUS
<1>5. SetupInv /\ QueueInv /\ [Next]_vars => QueueInv'
  BY <1>2, <1>4
<1>. QED BY <1>1, <1>3, <1>5, SetupInvariant, PTL DEF Spec
=============================================================================
