------------------------------ MODULE Benaphore ------------------------------
(***************************************************************************)
(* NonRecursiveBenaphore over LightweightSemaphore over the system's        *)
(* semaphore (tracy/common/tracy_benaphore.h, tracy_sema.h): the mutex of   *)
(* Cygwin builds.  A count of contenders keeps the uncontended path to one  *)
(* operation; a second count keeps the kernel out of most handovers.  One   *)
(* step is one operation on one of the three counts.  A signal that         *)
(* interrupts the wait only makes it wait again.                            *)
(***************************************************************************)
EXTENDS Integers, FiniteSets

CONSTANTS Lockers, Spins  \* how often a waiter looks before it goes to the kernel

VARIABLES
    contention,  \* m_contentionCount
    count,       \* m_count of the LightweightSemaphore
    kernel,      \* the count of the system's semaphore
    locker,      \* where each thread is
    seen,        \* the count that a waiter has read
    spin         \* how often it has looked

lockVars == <<contention, count, kernel, locker, seen, spin>>

InitLock ==
    /\ contention = 0 /\ count = 0 /\ kernel = 0
    /\ locker = [t \in Lockers |-> "out"]
    /\ seen = [t \in Lockers |-> 0] /\ spin = [t \in Lockers |-> 0]

Step(t, from, to) == locker[t] = from /\ locker' = [locker EXCEPT ![t] = to]

Lock(t) ==
    /\ Step(t, "out", IF contention > 0 THEN "look" ELSE "in")
    /\ contention' = contention + 1
    /\ spin' = [spin EXCEPT ![t] = 0]
    /\ UNCHANGED <<count, kernel, seen>>

\* try_lock looks, and tries only when nobody contends.
TryLock(t) ==
    /\ contention = 0 /\ Step(t, "out", "try")
    /\ UNCHANGED <<contention, count, kernel, seen, spin>>

TryLockExchange(t) ==
    /\ Step(t, "try", IF contention = 0 THEN "in" ELSE "out")
    /\ contention' = IF contention = 0 THEN 1 ELSE contention
    /\ UNCHANGED <<count, kernel, seen, spin>>

\* tryWait, and the same again while spinning.
Again(t) == IF spin[t] = Spins THEN "subtract" ELSE "look"

LookAgain(t) ==
    /\ Step(t, "look", IF count > 0 THEN "exchange" ELSE Again(t))
    /\ seen' = [seen EXCEPT ![t] = count]
    /\ spin' = IF count > 0 THEN spin ELSE [spin EXCEPT ![t] = @ + 1]
    /\ UNCHANGED <<contention, count, kernel>>

Exchange(t) ==
    /\ Step(t, "exchange", IF count = seen[t] THEN "in" ELSE Again(t))
    /\ count' = IF count = seen[t] THEN count - 1 ELSE count
    /\ spin' = IF count = seen[t] THEN spin ELSE [spin EXCEPT ![t] = @ + 1]
    /\ UNCHANGED <<contention, kernel, seen>>

Subtract(t) ==
    /\ Step(t, "subtract", IF count <= 0 THEN "sleep" ELSE "in")
    /\ count' = count - 1
    /\ UNCHANGED <<contention, kernel, seen, spin>>

Wake(t) ==
    /\ kernel > 0 /\ Step(t, "sleep", "in")
    /\ kernel' = kernel - 1
    /\ UNCHANGED <<contention, count, seen, spin>>

ContendedMutant == contention > 2
Contended == contention > 1
Unlock(t) ==
    /\ Step(t, "in", IF Contended THEN "signal" ELSE "out")
    /\ contention' = contention - 1
    /\ UNCHANGED <<count, kernel, seen, spin>>

SleepersMutant == TRUE
\* toRelease, for a signal of one.
Sleepers == count < 0
Signal(t) ==
    /\ Step(t, "signal", IF Sleepers THEN "post" ELSE "out")
    /\ count' = count + 1
    /\ UNCHANGED <<contention, kernel, seen, spin>>

Post(t) ==
    /\ Step(t, "post", "out")
    /\ kernel' = kernel + 1
    /\ UNCHANGED <<contention, count, seen, spin>>

Locker(t) == \/ Lock(t) \/ TryLock(t)
             \/ TryLockExchange(t) \/ LookAgain(t) \/ Exchange(t) \/ Subtract(t) \/ Wake(t)
             \/ Unlock(t) \/ Signal(t) \/ Post(t)

NextLock == \E t \in Lockers : Locker(t)

LockSpec == InitLock /\ [][NextLock]_lockVars

-----------------------------------------------------------------------------
(* One thread at a time is in, across both fast paths and the handover     *)
(* through either count (tracy_benaphore.h:34-58, tracy_sema.h:195-240).   *)
MutualExclusion == Cardinality({ t \in Lockers : locker[t] = "in" }) <= 1

(* No wakeup is lost: while a thread waits, some thread is in or about to  *)
(* signal, or a signal is there that the waiter finds before it sleeps or  *)
(* that wakes it, in whatever order the threads spin, sleep and signal.    *)
Waiting(t) == locker[t] \in {"look", "exchange", "subtract", "sleep"}
NoWakeupLost ==
    (\E t \in Lockers : Waiting(t)) =>
        \/ \E t \in Lockers : locker[t] \in {"in", "signal", "post"}
        \/ kernel > 0 /\ \E t \in Lockers : locker[t] = "sleep"
        \/ count > 0 /\ \E t \in Lockers : locker[t] \in {"look", "exchange", "subtract"}

(* Both: the benaphore is a lock that its waiters get in the end, if they  *)
(* are scheduled (tracy_benaphore.h:34-58, tracy_sema.h:195-240).          *)
LockSound == MutualExclusion /\ NoWakeupLost
=============================================================================
