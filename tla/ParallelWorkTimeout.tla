------------------------- MODULE ParallelWorkTimeout -------------------------
(***************************************************************************)
(* parallel_work(timeout_ms) of one process: with a timeout a second       *)
(* thread sleeps for that long and then ends the process, through the      *)
(* signal handler of the main thread or, when that hangs, by itself. The   *)
(* user may send signals of his own.                                       *)
(***************************************************************************)
EXTENDS Naturals, Sequences, SequencesExt

CONSTANTS
    UserSignals, \* those the user may send, each once; SIGUSR2 is the killer's
    MaxCalls     \* bound: calls of parallel_work

VARIABLES
    main,     \* the main thread: "out" of the library, "working", "finished"
    timeout,  \* whether the call that runs has one
    late,     \* whether it has passed
    killer,   \* kill_me_later: "none", "sleeping", "woke", "waiting"
    pending,  \* signals for the main thread that wait for delivery
    handlers, \* print_stacktrace_and_quit on the main thread's stack: <<signal, what is next>>
    sent,     \* what the user sent
    process,  \* "running", "killed" by SIGKILL, "exited"
    calls

vars == <<main, timeout, late, killer, pending, handlers, sent, process, calls>>

Init ==
    /\ main = "out" /\ timeout = FALSE /\ late = FALSE /\ killer = "none"
    /\ pending = {} /\ handlers = <<>> /\ sent = {} /\ process = "running" /\ calls = 0

\* The main thread runs its own code, not a handler.
InMain(label) == process = "running" /\ handlers = <<>> /\ main = label

ParallelWork ==
    /\ InMain("out") /\ calls < MaxCalls
    /\ main' = "working" /\ calls' = calls + 1
    /\ timeout' \in BOOLEAN /\ late' = FALSE
    /\ killer' = (IF timeout' THEN "sleeping" ELSE "none")
    /\ UNCHANGED <<pending, handlers, sent, process>>

\* Termination was detected: the state is FINISHED. It may never be.
WorkIsDone ==
    /\ InMain("working")
    /\ main' = "finished"
    /\ UNCHANGED <<timeout, late, killer, pending, handlers, sent, process, calls>>

\* pthread_kill with SIGKILL: a signal that nothing handles ends the whole process, whichever
\* thread it is sent to.
KillKiller ==
    /\ InMain("finished") /\ timeout
    /\ process' = "killed"
    /\ UNCHANGED <<main, timeout, late, killer, pending, handlers, sent, calls>>

Return ==
    /\ InMain("finished") /\ ~ timeout
    /\ main' = "out"
    /\ UNCHANGED <<timeout, late, killer, pending, handlers, sent, process, calls>>

-----------------------------------------------------------------------------
(* kill_me_later; in another thread than the main one print_stacktrace_and_quit passes the *)
(* signal on, sleeps for a minute and exits *)

\* usleep returns.
KillerWakes ==
    /\ process = "running" /\ killer = "sleeping"
    /\ killer' = "woke" /\ late' = TRUE
    /\ UNCHANGED <<main, timeout, pending, handlers, sent, process, calls>>

PassOn(sig) == pending' = pending \cup {sig} /\ killer' = "waiting"

KillerSignals ==
    /\ process = "running" /\ killer = "woke"
    /\ PassOn("SIGUSR2")
    /\ UNCHANGED <<main, timeout, late, handlers, sent, process, calls>>

KillerExits ==
    /\ process = "running" /\ killer = "waiting"
    /\ process' = "exited"
    /\ UNCHANGED <<main, timeout, late, killer, pending, handlers, sent, calls>>

-----------------------------------------------------------------------------
(* The handler in the main thread *)

\* A signal to the process is handled in either thread.
Send(sig) ==
    /\ process = "running" /\ sig \in UserSignals \ sent
    /\ sent' = sent \cup {sig}
    /\ \/ pending' = pending \cup {sig} /\ UNCHANGED killer
       \/ killer /= "none" /\ PassOn(sig)
    /\ UNCHANGED <<main, timeout, late, handlers, process, calls>>

\* A handler is interrupted by any signal but its own.
Deliver(sig) ==
    /\ process = "running" /\ sig \in pending
    /\ \A h \in ToSet(handlers) : h[1] /= sig
    /\ pending' = pending \ {sig}
    /\ handlers' = Append(handlers, <<sig, "print">>)
    /\ UNCHANGED <<main, timeout, late, killer, sent, process, calls>>

\* The stack trace, the log of all sessions and end_session; any of it may hang.
Handle ==
    /\ process = "running" /\ handlers /= <<>> /\ Last(handlers)[2] = "print"
    /\ handlers' = [handlers EXCEPT ![Len(handlers)][2] = "exit"]
    /\ UNCHANGED <<main, timeout, late, killer, pending, sent, process, calls>>

Exit ==
    /\ process = "running" /\ handlers /= <<>> /\ Last(handlers)[2] = "exit"
    /\ process' = "exited"
    /\ UNCHANGED <<main, timeout, late, killer, pending, handlers, sent, calls>>

Over == (process /= "running" \/ (main = "out" /\ calls = MaxCalls)) /\ UNCHANGED vars

Next ==
    \/ ParallelWork \/ WorkIsDone \/ KillKiller \/ Return
    \/ KillerWakes \/ KillerSignals \/ KillerExits
    \/ \E sig \in UserSignals : Send(sig)
    \/ \E sig \in pending : Deliver(sig)
    \/ Handle \/ Exit \/ Over

Spec == Init /\ [][Next]_vars

-----------------------------------------------------------------------------
\* "kill_me_later : sleeping for", then "kill_me_later : killing process"
\* (TITUS_DLB_load_balancing.cpp:89 and :91): work that is done in time is not killed for it.
KilledOnlyLate == process = "killed" => late
=============================================================================
