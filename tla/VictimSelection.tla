--------------------------- MODULE VictimSelection ---------------------------
(***************************************************************************)
(* How one process chooses whom to rob and where to pass results: every    *)
(* TITUS_DLB context owns a DVS context, and the library asks the one that *)
(* a static pointer of DVS names. A program makes contexts, makes further  *)
(* DVS contexts for them, swaps and deletes them, and works in between.    *)
(* The registrations belong to the TITUS_DLB context, the choice to the    *)
(* DVS context: they must not part.                                        *)
(***************************************************************************)
EXTENDS Integers, Sequences

CONSTANTS
    NbRanks,
    Self,                  \* this rank
    Graph,                 \* Graph[r]: r's neighbours in the small world (see SmallWorld)
    DVS_SW_SMALLEST_SIZE,  \* with fewer ranks there is no small world
    MaxContexts, MaxDvs    \* bounds: contexts of either kind

Rank == 0 .. NbRanks - 1

\* Nobody works alone, and the ring is part of the small world. A rank may be its own neighbour.
ASSUME SelectionAssumption ==
    /\ NbRanks \in Nat /\ NbRanks > 2 /\ Self \in Rank
    /\ Graph \in [Rank -> SUBSET Rank]
    /\ \A r \in Rank : {(r + 1) % NbRanks, (r + NbRanks - 1) % NbRanks} \subseteq Graph[r]
    /\ DVS_SW_SMALLEST_SIZE \in Nat /\ MaxContexts \in Nat /\ MaxDvs \in Nat

None == 0
Mode == {"RANDOM", "SMALL_WORLD"} \* the weighted tree is a stub that always selects the rank itself

\* A context is the place it has in the sequences below: the one with the id c - 1.
VARIABLES
    registrations_status, \* registrations_status[c]: the ranks context c is registered to
    DVS_context,          \* DVS_context[c]: its DVS context
    context,              \* TITUS_DLB_impl::context, None before the first set_context
    made,                 \* made[d]: the mode of DVS context d and the context it was made for
    alive,                \* the DVS contexts that are not deleted
    dvs                   \* DVS_impl::context

vars == <<registrations_status, DVS_context, context, made, alive, dvs>>

DvsContext == [mode : Mode, for : Nat]
Context == 1 .. Len(DVS_context)

-----------------------------------------------------------------------------
(* What a DVS context chooses *)

DEFAULT_DVS_MODE == "SMALL_WORLD"

\* the mode that is made: a small world needs enough ranks
Fallback(mode) == IF NbRanks < DVS_SW_SMALLEST_SIZE THEN "RANDOM" ELSE mode

\* the ranks that the constructor of a DVS context registers to
Registered(mode) == IF mode = "RANDOM" THEN Rank ELSE Graph[Self]

\* rand() % (nb_ranks - 1), made a rank other than this one
RandomTarget(draw) ==
    LET a == draw % (NbRanks - 1) IN IF a >= Self THEN a + 1 ELSE a

\* The victims that select_target_rank can return, over all values of rand(); a small world takes
\* the neighbour of an index that is drawn.
Targets(mode) ==
    IF mode = "RANDOM" THEN {RandomTarget(draw) : draw \in 0 .. NbRanks - 2} ELSE Graph[Self]

\* the greedy routing of the small world, as SmallWorld has it
Routing == INSTANCE SmallWorld WITH neighbors <- Graph, Degree <- 0, LocalReach <- 1,
                                    a <- NbRanks, i <- 0, at <- Self, dest <- Self

\* select_next_hop_to: results of other ranks go there directly, or along the graph
NextHop(mode, dest) == IF mode = "RANDOM" THEN dest ELSE Routing!NextHop(Self, dest)

-----------------------------------------------------------------------------
(* The program's calls. None is made while the library works. The          *)
(* program does not call DVS::set_context itself, which is public, and     *)
(* deletes no context of the library.                                      *)

\* the ranks next to this one in the termination tree, and itself
Tree == {Self} \cup ({2 * Self + 1, 2 * Self + 2} \cap Rank) \cup (IF Self = 0 THEN {} ELSE {(Self - 1) \div 2})

\* DVS_Context(c, mode), of which the mode may fall back, and which registers.
Make(c, mode) ==
    /\ Len(made) < MaxDvs
    /\ made' = Append(made, [mode |-> Fallback(mode), for |-> c])
    /\ alive' = alive \cup {Len(made) + 1}

\* Any of the constructors of a context: it knows its tree, and makes its first DVS context.
NewContext ==
    /\ Len(DVS_context) < MaxContexts
    /\ Make(Len(DVS_context) + 1, DEFAULT_DVS_MODE)
    /\ registrations_status' = Append(registrations_status, Tree \cup Registered(Fallback(DEFAULT_DVS_MODE)))
    /\ DVS_context' = Append(DVS_context, Len(made) + 1)
    /\ UNCHANGED <<context, dvs>>

\* The program makes a DVS context for a context it has.
NewDvsContext(c, mode) ==
    /\ c \in Context
    /\ Make(c, mode)
    /\ registrations_status' = [registrations_status EXCEPT ![c] = @ \cup Registered(Fallback(mode))]
    /\ UNCHANGED <<DVS_context, context, dvs>>

\* DVS::set_context
Use(d) == dvs' = d

\* mutant: the choice of victims stays with the DVS context of the first context in use
MutSetContext(c) ==
    /\ c \in Context
    /\ context' = c /\ Use(IF dvs = None THEN DVS_context[c] ELSE dvs)
    /\ UNCHANGED <<registrations_status, DVS_context, made, alive>>
SetContext(c) ==
    /\ c \in Context
    /\ context' = c /\ Use(DVS_context[c])
    /\ UNCHANGED <<registrations_status, DVS_context, made, alive>>

\* A context gets another DVS context, one that was made for it; DVS follows if it is in use.
SetDvsContext(c, d) ==
    /\ c \in Context /\ d \in alive /\ made[d].for = c
    /\ DVS_context' = [DVS_context EXCEPT ![c] = d]
    /\ IF context = c THEN Use(d) ELSE UNCHANGED dvs
    /\ UNCHANGED <<registrations_status, context, made, alive>>

\* The program deletes a DVS context that no context has any more.
DeleteDvsContext(d) ==
    /\ d \in alive /\ \A c \in Context : DVS_context[c] /= d
    /\ alive' = alive \ {d}
    /\ UNCHANGED <<registrations_status, DVS_context, context, made, dvs>>

Init ==
    /\ registrations_status = <<>> /\ DVS_context = <<>> /\ context = None
    /\ made = <<>> /\ alive = {} /\ dvs = None

Next ==
    \/ NewContext
    \/ \E c \in Context :
         \/ SetContext(c)
         \/ \E mode \in Mode : NewDvsContext(c, mode)
         \/ \E d \in alive : SetDvsContext(c, d)
    \/ \E d \in alive : DeleteDvsContext(d)

Spec == Init /\ [][Next]_vars

-----------------------------------------------------------------------------
\* The choice belongs to the context in use and exists: it was not deleted behind DVS's back.
DvsOfContext == dvs \in alive /\ dvs = DVS_context[context]

\* load_balancing asserts that its victim is registered. It tries again when the victim is the
\* rank itself, by recursion: another one must be possible.
VictimsRegistered ==
    LET victims == Targets(made[dvs].mode) IN
    /\ victims \subseteq registrations_status[context]
    /\ victims \ {Self} /= {}

\* The flush asserts that the rank it pushes to is registered, whoever the results belong to. In
\* a small world in which the rank is its own neighbour this may fail (HopIsRegistered).
HopsRegistered ==
    made[dvs].mode = "RANDOM" \/ Self \notin Graph[Self] =>
        \A dest \in Rank \ {Self} : NextHop(made[dvs].mode, dest) \in registrations_status[context]

\* After any of the calls above, the DVS context that answers in parallel_work is alive, the
\* current context's, and sends thefts and results to ranks the current context is
\* registered to.
SelectionIsUsable == context /= None => DvsOfContext /\ VictimsRegistered /\ HopsRegistered
=============================================================================
