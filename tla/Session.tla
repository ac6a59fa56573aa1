------------------------------- MODULE Session -------------------------------
(***************************************************************************)
(* A session of an on-demand build as the tracing threads see it (tracy/   *)
(* client/TracyProfiler.cpp, Worker): the worker accepts a server, clears  *)
(* what each thread has queued, sets m_isConnected, sends the state that   *)
(* cannot be traced any more, and serves until the connection is lost.     *)
(* What a thread has queued and what of it has been sent are one trace of  *)
(* the thread since its queue was cleared; ProfilerWorker models how the   *)
(* one becomes the other.                                                  *)
(***************************************************************************)
EXTENDS Naturals

CONSTANTS Threads, MaxSessions  \* bound on the connections

VARIABLES
    worker,       \* where the worker is
    toClear,      \* the threads whose queue it has still to clear
    isConnected,  \* m_isConnected
    sessions

session == <<worker, toClear, isConnected, sessions>>

InitSession ==
    /\ worker = "accept" /\ toClear = {}
    /\ isConnected = FALSE /\ sessions = 0

Accept ==
    /\ worker = "accept" /\ sessions < MaxSessions
    /\ worker' = "clear" /\ toClear' = Threads
    /\ sessions' = sessions + 1
    /\ UNCHANGED isConnected

\* ClearQueues takes bulks until one is empty, so a queue may be cleared again.
ClearQueue(t) ==
    /\ worker = "clear"
    /\ toClear' = toClear \ {t}
    /\ UNCHANGED <<worker, isConnected, sessions>>

Connect ==
    /\ worker = "clear" /\ toClear = {}
    /\ worker' = "welcome" /\ isConnected' = TRUE
    /\ UNCHANGED <<toClear, sessions>>

\* The on-demand payload, and the deferred items.
Welcome ==
    /\ worker = "welcome" /\ worker' = "serve"
    /\ UNCHANGED <<toClear, isConnected, sessions>>

Disconnect ==
    /\ worker = "serve" /\ worker' = "accept"
    /\ isConnected' = FALSE
    /\ UNCHANGED <<toClear, sessions>>
=============================================================================
