------------------------------ MODULE MCThreads ------------------------------
(* What threads share without the system's locks: the list of the queue's  *)
(* producers, with one consumer that goes round them, and, on its own, the *)
(* benaphore that serves as a lock.  With a quota of two a bulk of two     *)
(* rotates; three lockers make a waiter and a barging thread meet.         *)
EXTENDS ProducerList, Benaphore

VARIABLE part

all == <<part, vars, lockVars>>

MCInit ==
    /\ part \in {"list", "lock"}
    /\ Init /\ (part = "lock" => kind = [c \in Consumers |-> "bulk"])
    /\ InitLock

ThreadStep(t) == part = "list" /\ Thread(t) /\ UNCHANGED <<part, lockVars>>
ConsumerStep(c) == part = "list" /\ Consumer(c) /\ UNCHANGED <<part, lockVars>>
LockStep == part = "lock" /\ NextLock /\ UNCHANGED <<part, vars>>

MCNext == \/ \E t \in Threads : ThreadStep(t)
          \/ \E c \in Consumers : ConsumerStep(c)
          \/ LockStep

\* Consumers that poll, as Tracy's worker does; nothing is asked of the threads.
MCSpec == MCInit /\ [][MCNext]_all /\ \A c \in Consumers : WF_all(ConsumerStep(c))
=============================================================================
