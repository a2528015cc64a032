------------------------ MODULE VictimSelectionProofs ------------------------
(***************************************************************************)
(* Whatever DVS contexts a program makes, swaps and deletes by the calls   *)
(* of VictimSelection, the one that is asked is alive and chooses          *)
(* registered ranks. What the routing of the small world needs is taken    *)
(* from SmallWorldProofs.                                                  *)
(***************************************************************************)
EXTENDS VictimSelection, TLAPS

\* The lemmas about routing, in the graph of this process
Facts == INSTANCE SmallWorldProofs WITH neighbors <- Graph, Degree <- 0, LocalReach <- 1,
                                        a <- NbRanks, i <- 0, at <- Self, dest <- Self

\* The next hop in the small world is a neighbour.
LEMMA RoutesAreEdges ==
  ASSUME NEW d \in Rank, d # Self, Self \notin Graph[Self]
  PROVE  Routing!NextHop(Self, d) \in Graph[Self]
<1>1. Facts!NextHop(Self, d) \in Graph[Self]
  BY SMTT(30), Facts!HopIsNeighbor, SelectionAssumption DEF Facts!Rank, Facts!RingIn, Rank
<1>2. Routing!LowerBound(Self, d) = Facts!LowerBound(Self, d)
  BY DEF Routing!LowerBound, Facts!LowerBound, Routing!Min, Facts!Min, Routing!Cardinality, Facts!Cardinality
<1>3. Routing!Candidates(Self, d) = Facts!Candidates(Self, d)
  BY <1>2 DEF Routing!Candidates, Facts!Candidates, Routing!Min, Facts!Min, Routing!Max, Facts!Max
<1>4. Routing!NextHop(Self, d) = Facts!NextHop(Self, d)
  BY <1>2, <1>3 DEF Routing!NextHop, Facts!NextHop, Routing!Min, Facts!Min,
                    Routing!Distance, Facts!Distance, Routing!Least, Facts!Least, Routing!Abs, Facts!Abs
<1>. QED BY <1>1, <1>4
-----------------------------------------------------------------------------
(* The invariant *)

\* The variables have their types; the sequences of contexts are equally long.
Shape ==
  /\ registrations_status \in Seq(SUBSET Rank) /\ DVS_context \in Seq(Nat)
  /\ Len(registrations_status) = Len(DVS_context)
  /\ made \in Seq(DvsContext)
  /\ alive \subseteq 1 .. Len(made)
  /\ context \in {None} \cup Context

\* A DVS context that is alive was made for a context that is registered to all it may choose.
Matched ==
  \A d \in alive : /\ made[d].for \in Context
                   /\ Registered(made[d].mode) \subseteq registrations_status[made[d].for]

\* Contexts have DVS contexts that are alive and were made for them.
Owned == \A c \in Context : DVS_context[c] \in alive /\ made[DVS_context[c]].for = c

\* The static pointer follows the current context.
Followed == context /= None => dvs = DVS_context[context]

SelectionInv == Shape /\ Matched /\ Owned /\ Followed

\* What a DVS context registers to are ranks, and what may be made is a mode.
LEMMA ModesAreModes ==
  /\ DEFAULT_DVS_MODE \in Mode
  /\ \A mode \in Mode : Fallback(mode) \in Mode /\ Registered(mode) \subseteq Rank
  BY SelectionAssumption DEF DEFAULT_DVS_MODE, Mode, Fallback, Registered

\* Making a DVS context for a context c that exists, or will after this step, and registering it
\* keeps every DVS context matched.
LEMMA MakeKeepsMatched ==
  ASSUME SelectionInv, NEW c \in Nat, NEW mode \in Mode, Make(c, mode),
         c \in 1 .. Len(DVS_context'),
         Len(DVS_context') >= Len(DVS_context), DVS_context' \in Seq(Nat),
         registrations_status' \in Seq(SUBSET Rank),
         \A x \in Context : registrations_status[x] \subseteq registrations_status'[x],
         Registered(Fallback(mode)) \subseteq registrations_status'[c]
  PROVE  /\ made' \in Seq(DvsContext) /\ Len(made') = Len(made) + 1
         /\ alive' \subseteq 1 .. Len(made')
         /\ \A d \in alive : made'[d] = made[d]
         /\ Len(made) + 1 \in alive' /\ alive \subseteq alive'
         /\ made'[Len(made) + 1].for = c
         /\ Matched'
<1>1. /\ made \in Seq(DvsContext) /\ alive \subseteq 1 .. Len(made) /\ Len(made) \in Nat
      /\ DVS_context \in Seq(Nat) /\ Len(DVS_context) \in Nat /\ Len(DVS_context') \in Nat
  BY DEF SelectionInv, Shape
<1>. DEFINE new == [mode |-> Fallback(mode), for |-> c]
<1>2. new \in DvsContext
  BY ModesAreModes DEF DvsContext
<1>3. made' = Append(made, new) /\ alive' = alive \cup {Len(made) + 1}
  BY DEF Make
<1>4. new.for = c /\ new.mode = Fallback(mode)
  OBVIOUS
<1>. HIDE DEF new
<1>5. /\ made' \in Seq(DvsContext) /\ Len(made') = Len(made) + 1
      /\ made'[Len(made) + 1] = new
      /\ \A d \in 1 .. Len(made) : made'[d] = made[d]
  BY <1>1, <1>2, <1>3
<1>6. ASSUME NEW d \in alive'
      PROVE  /\ made'[d].for \in Context'
             /\ Registered(made'[d].mode) \subseteq registrations_status'[made'[d].for]
  <2>1. CASE d = Len(made) + 1
    BY <2>1, <1>4, <1>5 DEF Context
  <2>2. CASE d \in alive
    <3>1. made[d].for \in Context /\ Registered(made[d].mode) \subseteq registrations_status[made[d].for]
      BY <2>2 DEF SelectionInv, Matched
    <3>2. made'[d] = made[d]
      BY <2>2, <1>1, <1>5
    <3>3. made[d].for \in Context'
      BY <3>1, <1>1 DEF Context
    <3>. QED BY <3>1, <3>2, <3>3
  <2>. QED BY <2>1, <2>2, <1>3
<1>7. Matched'
  BY <1>6 DEF Matched
<1>8. alive' \subseteq 1 .. Len(made')
  <2>1. 1 .. Len(made) \subseteq 1 .. Len(made') /\ Len(made) + 1 \in 1 .. Len(made')
    BY <1>1, <1>5
  <2>. QED BY <1>1, <1>3, <2>1
<1>9. \A d \in alive : made'[d] = made[d]
  BY <1>1, <1>5
<1>. QED BY <1>3, <1>4, <1>5, <1>7, <1>8, <1>9

LEMMA InvInit == Init => SelectionInv
<1>. SUFFICES ASSUME Init PROVE SelectionInv
  OBVIOUS
<1>1. Context = {}
  BY DEF Init, Context
<1>2. Shape
  BY <1>1 DEF Init, Shape
<1>. QED BY <1>1, <1>2 DEF Init, SelectionInv, Matched, Owned, Followed

LEMMA InvNext == SelectionInv /\ [Next]_vars => SelectionInv'
<1>. SUFFICES ASSUME SelectionInv, [Next]_vars PROVE SelectionInv'
  OBVIOUS
<1>1. /\ registrations_status \in Seq(SUBSET Rank) /\ DVS_context \in Seq(Nat)
      /\ Len(registrations_status) = Len(DVS_context) /\ Len(DVS_context) \in Nat
      /\ made \in Seq(DvsContext) /\ Len(made) \in Nat
      /\ alive \subseteq 1 .. Len(made)
      /\ context \in {None} \cup Context
  BY DEF SelectionInv, Shape
<1>2. Tree \subseteq Rank
  <2>1. NbRanks \in Nat /\ Self \in 0 .. NbRanks - 1
    BY SelectionAssumption DEF Rank
  <2>2. Self /= 0 => (Self - 1) \div 2 \in 0 .. NbRanks - 1
    BY <2>1
  <2>. QED BY <2>1, <2>2 DEF Tree, Rank
<1>3. CASE NewContext
  <2>. DEFINE c     == Len(DVS_context) + 1
              known == Tree \cup Registered(Fallback(DEFAULT_DVS_MODE))
  <2>1. /\ Make(c, DEFAULT_DVS_MODE) /\ registrations_status' = Append(registrations_status, known)
        /\ DVS_context' = Append(DVS_context, Len(made) + 1) /\ context' = context /\ dvs' = dvs
    BY <1>3 DEF NewContext
  <2>2. known \in SUBSET Rank
    BY <1>2, ModesAreModes
  <2>3. Registered(Fallback(DEFAULT_DVS_MODE)) \subseteq known
    OBVIOUS
  <2>. HIDE DEF known
  <2>4. /\ registrations_status' \in Seq(SUBSET Rank) /\ Len(registrations_status') = c
        /\ registrations_status'[c] = known
        /\ \A x \in Context : registrations_status'[x] = registrations_status[x]
    BY <1>1, <2>1, <2>2 DEF Context
  <2>5. /\ DVS_context' \in Seq(Nat) /\ Len(DVS_context') = c /\ DVS_context'[c] = Len(made) + 1
        /\ \A x \in Context : DVS_context'[x] = DVS_context[x]
    BY <1>1, <2>1 DEF Context
  <2>6. c \in Nat /\ c \in 1 .. Len(DVS_context') /\ Context' = Context \cup {c}
    BY <1>1, <2>5 DEF Context
  <2>7. /\ made' \in Seq(DvsContext) /\ alive' \subseteq 1 .. Len(made')
        /\ \A d \in alive : made'[d] = made[d]
        /\ Len(made) + 1 \in alive' /\ alive \subseteq alive'
        /\ made'[Len(made) + 1].for = c
        /\ Matched'
    <3>. HIDE DEF c
    <3>1. /\ Len(DVS_context') >= Len(DVS_context)
          /\ \A x \in Context : registrations_status[x] \subseteq registrations_status'[x]
          /\ Registered(Fallback(DEFAULT_DVS_MODE)) \subseteq registrations_status'[c]
      BY <1>1, <2>3, <2>4, <2>5 DEF c
    <3>. QED BY <2>1, <2>4, <2>5, <2>6, <3>1, ModesAreModes, MakeKeepsMatched
  <2>8. Owned'
    <3>1. ASSUME NEW x \in Context' PROVE DVS_context'[x] \in alive' /\ made'[DVS_context'[x]].for = x
      <4>1. CASE x = c
        BY <4>1, <2>5, <2>7
      <4>2. CASE x \in Context
        <5>1. DVS_context[x] \in alive /\ made[DVS_context[x]].for = x
          BY <4>2 DEF SelectionInv, Owned
        <5>. QED BY <4>2, <5>1, <2>5, <2>7
      <4>. QED BY <4>1, <4>2, <2>6
    <3>. QED BY <3>1 DEF Owned
  <2>9. Followed'
    BY <1>1, <2>1, <2>5 DEF SelectionInv, Followed
  <2>10. Shape'
    BY <1>1, <2>1, <2>4, <2>5, <2>6, <2>7 DEF Shape
  <2>. QED BY <2>7, <2>8, <2>9, <2>10 DEF SelectionInv
<1>4. ASSUME NEW c \in Context, NEW mode \in Mode, NewDvsContext(c, mode)
      PROVE  SelectionInv'
  <2>1. /\ Make(c, mode) /\ UNCHANGED <<DVS_context, context, dvs>>
        /\ registrations_status' = [registrations_status EXCEPT ![c] = @ \cup Registered(Fallback(mode))]
    BY <1>4 DEF NewDvsContext
  <2>2. Fallback(mode) \in Mode /\ Registered(Fallback(mode)) \subseteq Rank
    BY ModesAreModes
  <2>3. c \in 1 .. Len(registrations_status) /\ registrations_status[c] \in SUBSET Rank /\ c \in Nat
    BY <1>1 DEF Context
  <2>4. registrations_status[c] \cup Registered(Fallback(mode)) \in SUBSET Rank
    BY <2>2, <2>3
  <2>5. /\ registrations_status' \in Seq(SUBSET Rank) /\ Len(registrations_status') = Len(registrations_status)
        /\ registrations_status'[c] = registrations_status[c] \cup Registered(Fallback(mode))
        /\ \A x \in Context : registrations_status[x] \subseteq registrations_status'[x]
    BY <1>1, <2>1, <2>3, <2>4 DEF Context
  <2>6. /\ made' \in Seq(DvsContext) /\ alive' \subseteq 1 .. Len(made')
        /\ \A d \in alive : made'[d] = made[d]
        /\ alive \subseteq alive'
        /\ Matched'
    <3>1. /\ c \in 1 .. Len(DVS_context') /\ Len(DVS_context') >= Len(DVS_context)
          /\ DVS_context' \in Seq(Nat)
          /\ Registered(Fallback(mode)) \subseteq registrations_status'[c]
      BY <1>1, <2>1, <2>5 DEF Context
    <3>. QED BY <2>1, <2>3, <2>5, <3>1, MakeKeepsMatched
  <2>7. Context' = Context
    BY <2>1 DEF Context
  <2>8. Owned'
    BY <2>1, <2>6, <2>7 DEF SelectionInv, Owned
  <2>9. Followed'
    BY <2>1 DEF SelectionInv, Followed
  <2>10. Shape'
    BY <1>1, <2>1, <2>5, <2>6, <2>7 DEF Shape
  <2>. QED BY <2>6, <2>8, <2>9, <2>10 DEF SelectionInv
<1>5. ASSUME NEW c \in Context, SetContext(c)
      PROVE  SelectionInv'
  <2>1. /\ context' = c /\ dvs' = DVS_context[c]
        /\ UNCHANGED <<registrations_status, DVS_context, made, alive>> /\ Context' = Context
    BY <1>5 DEF SetContext, Use, Context
  <2>. QED BY <1>1, <2>1 DEF SelectionInv, Shape, Matched, Owned, Followed
<1>6. ASSUME NEW c \in Context, NEW d \in alive, SetDvsContext(c, d)
      PROVE  SelectionInv'
  <2>1. /\ made[d].for = c /\ DVS_context' = [DVS_context EXCEPT ![c] = d]
        /\ dvs' = (IF context = c THEN d ELSE dvs)
        /\ UNCHANGED <<registrations_status, context, made, alive>>
    BY <1>6 DEF SetDvsContext, Use
  <2>2. d \in Nat
    BY <1>1
  <2>3. /\ DVS_context' \in Seq(Nat) /\ Len(DVS_context') = Len(DVS_context)
        /\ \A x \in Context : DVS_context'[x] = IF x = c THEN d ELSE DVS_context[x]
    BY <1>1, <2>1, <2>2 DEF Context
  <2>4. Context' = Context
    BY <2>3 DEF Context
  <2>5. Shape' /\ Matched'
    BY <1>1, <2>1, <2>3, <2>4 DEF SelectionInv, Shape, Matched
  <2>6. Owned'
    BY <2>1, <2>3, <2>4 DEF SelectionInv, Owned
  <2>7. Followed'
    BY <1>1, <2>1, <2>3 DEF SelectionInv, Followed
  <2>. QED BY <2>5, <2>6, <2>7 DEF SelectionInv
<1>7. ASSUME NEW d \in alive, DeleteDvsContext(d)
      PROVE  SelectionInv'
  <2>1. /\ alive' = alive \ {d} /\ \A c \in Context : DVS_context[c] /= d /\ Context' = Context
        /\ UNCHANGED <<registrations_status, DVS_context, context, made, dvs>>
    BY <1>7 DEF DeleteDvsContext, Context
  <2>. QED BY <1>1, <2>1 DEF SelectionInv, Shape, Matched, Owned, Followed
<1>8. CASE UNCHANGED vars
  BY <1>8 DEF vars, SelectionInv, Shape, Matched, Owned, Followed, Context
<1>. QED BY <1>3, <1>4, <1>5, <1>6, <1>7, <1>8 DEF Next

\* A DVS context chooses among the ranks it registers to: victims, among them one that is not the
\* rank itself, and next hops.
LEMMA ChoicesAreRegistered ==
  ASSUME NEW mode \in Mode
  PROVE  /\ Targets(mode) \subseteq Registered(mode) /\ Targets(mode) \ {Self} /= {}
         /\ mode = "RANDOM" \/ Self \notin Graph[Self] =>
               \A dest \in Rank \ {Self} : NextHop(mode, dest) \in Registered(mode)
<1>1. NbRanks \in Nat /\ NbRanks > 2 /\ Self \in 0 .. NbRanks - 1
  BY SelectionAssumption DEF Rank
<1>2. CASE mode = "RANDOM"
  <2>1. \A draw \in 0 .. NbRanks - 2 : RandomTarget(draw) \in Rank \ {Self}
    BY <1>1 DEF RandomTarget, Rank
  <2>2. 0 \in 0 .. NbRanks - 2
    BY <1>1
  <2>. QED BY <1>2, <2>1, <2>2 DEF Targets, Registered, NextHop
<1>3. CASE mode = "SMALL_WORLD"
  <2>1. (Self + 1) % NbRanks \in Graph[Self]
    BY SelectionAssumption
  <2>2. (Self + 1) % NbRanks /= Self
    <3>1. (Self + 1) % NbRanks = IF Self = NbRanks - 1 THEN 0 ELSE Self + 1
      BY <1>1
    <3>. QED BY <1>1, <3>1
  <2>3. Self \notin Graph[Self] => \A dest \in Rank \ {Self} : Routing!NextHop(Self, dest) \in Graph[Self]
    BY RoutesAreEdges
  <2>. QED BY <1>3, <2>1, <2>2, <2>3 DEF Targets, Registered, NextHop
<1>. QED BY <1>2, <1>3 DEF Mode

\* After any of the calls of VictimSelection, the DVS context in use is alive, the current context's, and
\* sends thefts and results to ranks the current context is registered to.
THEOREM SelectionIsSound == Spec => []SelectionIsUsable
<1>1. SelectionInv => SelectionIsUsable
  <2>. SUFFICES ASSUME SelectionInv, context /= None
                PROVE  DvsOfContext /\ VictimsRegistered /\ HopsRegistered
    BY DEF SelectionIsUsable
  <2>1. context \in Context /\ dvs = DVS_context[context] /\ made \in Seq(DvsContext) /\ alive \subseteq 1 .. Len(made)
    BY DEF SelectionInv, Shape, Followed
  <2>2. dvs \in alive /\ made[dvs].for = context
    BY <2>1 DEF SelectionInv, Owned
  <2>3. Registered(made[dvs].mode) \subseteq registrations_status[context]
    BY <2>2 DEF SelectionInv, Matched
  <2>4. made[dvs].mode \in Mode
    <3>1. made[dvs] \in DvsContext
      BY <2>1, <2>2
    <3>. QED BY <3>1 DEF DvsContext
  <2>5. DvsOfContext
    BY <2>1, <2>2 DEF DvsOfContext
  <2>6. VictimsRegistered
    BY <2>3, <2>4, ChoicesAreRegistered DEF VictimsRegistered
  <2>7. HopsRegistered
    BY <2>3, <2>4, ChoicesAreRegistered DEF HopsRegistered
  <2>. QED BY <2>5, <2>6, <2>7
<1>. QED BY <1>1, InvInit, InvNext, PTL DEF Spec
=============================================================================
