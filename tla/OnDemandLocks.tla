---------------------------- MODULE OnDemandLocks ----------------------------
(***************************************************************************)
(* Lockable and SharedLockable of an on-demand build (tracy/client/        *)
(* TracyLock.hpp): a lock announces itself once, to the server of every    *)
(* session, and each use of it decides from m_lockCount, m_active and      *)
(* m_isConnected, none of them under the lock, whether it is traced.  One  *)
(* step is one access to what threads share; the local part of a step goes *)
(* with it.                                                                *)
(***************************************************************************)
EXTENDS Session, Integers, FiniteSets

CONSTANT Shared  \* SharedLockable, with its shared modes

VARIABLES
    made,         \* how far the constructor is
    deferred,     \* m_deferredQueue holds the announcement
    announced,    \* its two ways to the server: [queued, copied]
    lockCount, active,  \* m_lockCount, m_active
    holders,      \* who holds m_lockable
    exclusive,    \* and whether exclusively
    thread,       \* where each thread is
    at,           \* its locals: [shared, try, first, active, connected, queue]
    balance,      \* each thread's traced obtains less its releases
    settled,      \* history: the lock was free of all threads in this session
    contended     \* history: and then used by two of them at a time

lock == <<lockCount, active, holders, exclusive>>
announcing == <<made, deferred, announced>>
using == <<lock, thread, at, balance, settled, contended>>
vars == <<session, announcing, using>>

NoLocals == [shared |-> FALSE, try |-> FALSE, first |-> FALSE, active |-> FALSE,
             connected |-> FALSE, queue |-> FALSE]

Init ==
    /\ InitSession
    /\ made = "no" /\ deferred = FALSE /\ announced = [queued |-> FALSE, copied |-> FALSE]
    /\ lockCount = 0 /\ active = FALSE /\ holders = {} /\ exclusive = FALSE
    /\ thread = [t \in Threads |-> "out"] /\ at = [t \in Threads |-> NoLocals]
    /\ balance = [t \in Threads |-> 0]
    /\ settled = FALSE /\ contended = FALSE

Step(t, from, to) == thread[t] = from /\ thread' = [thread EXCEPT ![t] = to]

Using == { t \in Threads : thread[t] # "out" }

\* The histories follow every step: the lock settles when nobody uses it
\* while a server is connected, and what was traced before counts no more.
Follow(newBalance) ==
    LET free == isConnected' /\ \A t \in Threads : thread'[t] = "out"
    IN  /\ settled' = (isConnected' /\ (settled \/ free))
        /\ contended' = (settled' /\ ~ free /\
                           (contended \/ Cardinality({ t \in Threads : thread'[t] # "out" }) > 1))
        /\ balance' = IF free /\ (contended \/ ~ settled) THEN [t \in Threads |-> 0]
                                                       ELSE newBalance

-----------------------------------------------------------------------------
\* The constructor: the announcement is deferred, then queued by its thread.

DeferItem ==
    /\ made = "no" /\ made' = "deferred"
    /\ deferred' = TRUE
    /\ UNCHANGED <<session, announced, using>>

AnnounceMutant ==
    /\ \/ made = "no" /\ made' = "deferred" /\ announced' = [announced EXCEPT !.queued = TRUE]
          /\ UNCHANGED deferred
       \/ made = "deferred" /\ made' = "yes" /\ deferred' = TRUE /\ UNCHANGED announced
    /\ UNCHANGED <<session, using>>
Announce ==
    /\ made = "deferred" /\ made' = "yes"
    /\ announced' = [announced EXCEPT !.queued = TRUE]
    /\ UNCHANGED <<session, deferred, using>>

\* The constructing thread is one of them; whose queue it is matters to nobody.
Clear(t) ==
    /\ ClearQueue(t)
    /\ announced' = [announced EXCEPT !.queued = FALSE]
    /\ thread' = thread /\ Follow([balance EXCEPT ![t] = 0])
    /\ UNCHANGED <<made, deferred, lock, at>>

Begin ==
    /\ Accept
    /\ announced' = [announced EXCEPT !.copied = FALSE]
    /\ UNCHANGED <<made, deferred, using>>

Connected ==
    /\ Connect /\ thread' = thread /\ Follow(balance)
    /\ UNCHANGED <<announcing, lock, at>>

CopyDeferred ==
    /\ Welcome
    /\ announced' = [announced EXCEPT !.copied = deferred]
    /\ UNCHANGED <<made, deferred, using>>

Lost ==
    /\ Disconnect /\ thread' = thread /\ Follow(balance)
    /\ UNCHANGED <<announcing, lock, at>>

-----------------------------------------------------------------------------
\* Using the lock.

Locals(t, l) == at' = [at EXCEPT ![t] = l]
Quiet == UNCHANGED <<session, announcing>> /\ Follow(balance)

Free(shared) == IF shared THEN ~ exclusive ELSE holders = {}
Take(t, shared) ==
    /\ Free(shared)
    /\ holders' = holders \cup {t} /\ exclusive' = ~ shared

\* lock and lock_shared count first, try_lock and try_lock_shared afterwards.
Lock(t, shared) ==
    /\ made = "yes" /\ Step(t, "out", "load")
    /\ Locals(t, [NoLocals EXCEPT !.shared = shared, !.first = (lockCount = 0)])
    /\ lockCount' = lockCount + 1
    /\ UNCHANGED <<active, holders, exclusive>> /\ Quiet

TryLock(t, shared) ==
    /\ made = "yes" /\ Step(t, "out", "count")
    /\ Take(t, shared)
    /\ Locals(t, [NoLocals EXCEPT !.shared = shared, !.try = TRUE])
    /\ UNCHANGED <<lockCount, active>> /\ Quiet

CountTried(t) ==
    /\ Step(t, "count", "load")
    /\ Locals(t, [at[t] EXCEPT !.first = (lockCount = 0)])
    /\ lockCount' = lockCount + 1
    /\ UNCHANGED <<active, holders, exclusive>> /\ Quiet

\* Where a decision leads: a traced lock waits, a traced try has obtained.
Decided(t, queue) == IF at[t].try THEN (IF queue THEN "obtain" ELSE "in")
                     ELSE (IF queue THEN "wait" ELSE "acquire")

MayTraceMutant(t) == active
\* It was free, or whoever uses it is traced.
MayTrace(t) == at[t].first \/ active
LoadActive(t) ==
    /\ Step(t, "load", IF MayTrace(t) THEN "connected" ELSE Decided(t, FALSE))
    /\ Locals(t, [at[t] EXCEPT !.active = active])
    /\ UNCHANGED lock /\ Quiet

LoadConnected(t) ==
    /\ Step(t, "connected", IF at[t].active # isConnected THEN "store" ELSE Decided(t, isConnected))
    /\ Locals(t, [at[t] EXCEPT !.connected = isConnected, !.queue = isConnected])
    /\ UNCHANGED lock /\ Quiet

StoreActive(t) ==
    /\ Step(t, "store", Decided(t, at[t].connected))
    /\ active' = at[t].connected
    /\ UNCHANGED <<lockCount, holders, exclusive, at>> /\ Quiet

Wait(t) ==
    /\ Step(t, "wait", "acquire")
    /\ UNCHANGED <<lock, at>> /\ Quiet

Acquire(t) ==
    /\ Step(t, "acquire", IF at[t].queue THEN "obtain" ELSE "in")
    /\ Take(t, at[t].shared)
    /\ UNCHANGED <<lockCount, active, at>> /\ Quiet

Obtain(t) ==
    /\ Step(t, "obtain", "in")
    /\ UNCHANGED <<session, announcing, lock, at>>
    /\ Follow([balance EXCEPT ![t] = @ + 1])

\* Mark, by who holds the lock: it may find the connection gone, too.
Mark(t) ==
    /\ active /\ Step(t, "in", IF isConnected THEN "in" ELSE "unmark")
    /\ UNCHANGED <<lock, at>> /\ Quiet

MarkInactive(t) ==
    /\ Step(t, "unmark", "in")
    /\ active' = FALSE
    /\ UNCHANGED <<lockCount, holders, exclusive, at>> /\ Quiet

Unlock(t) ==
    /\ Step(t, "in", "uncount")
    /\ holders' = holders \ {t} /\ exclusive' = FALSE
    /\ UNCHANGED <<lockCount, active, at>> /\ Quiet

Uncount(t) ==
    /\ Step(t, "uncount", "unload")
    /\ lockCount' = lockCount - 1
    /\ UNCHANGED <<active, holders, exclusive, at>> /\ Quiet

Leave(t, from, to) ==
    /\ Step(t, from, to)
    /\ IF to = "out" THEN Locals(t, NoLocals) ELSE UNCHANGED at

UnlockLoad(t) ==
    /\ Leave(t, "unload", IF active THEN "unconnected" ELSE "out")
    /\ UNCHANGED lock /\ Quiet

UnlockConnected(t) ==
    /\ Step(t, "unconnected", IF isConnected THEN "release" ELSE "unstore")
    /\ UNCHANGED <<lock, at>> /\ Quiet

UnlockStore(t) ==
    /\ Leave(t, "unstore", "out")
    /\ active' = FALSE
    /\ UNCHANGED <<lockCount, holders, exclusive>> /\ Quiet

Release(t) ==
    /\ Leave(t, "release", "out")
    /\ UNCHANGED <<session, announcing, lock>>
    /\ Follow([balance EXCEPT ![t] = @ - 1])

User(t) ==
    \/ \E shared \in (IF Shared THEN BOOLEAN ELSE {FALSE}) : Lock(t, shared) \/ TryLock(t, shared)
    \/ CountTried(t) \/ LoadActive(t) \/ LoadConnected(t) \/ StoreActive(t)
    \/ Wait(t) \/ Acquire(t) \/ Obtain(t) \/ Mark(t) \/ MarkInactive(t)
    \/ Unlock(t) \/ Uncount(t) \/ UnlockLoad(t) \/ UnlockConnected(t) \/ UnlockStore(t)
    \/ Release(t)

Next == \/ DeferItem \/ Announce
        \/ Begin \/ Connected \/ CopyDeferred \/ Lost
        \/ \E t \in Threads : Clear(t) \/ User(t)

Spec == Init /\ [][Next]_vars

-----------------------------------------------------------------------------
(* The server of every session learns of every lock, whatever its          *)
(* announcement crosses: the clearing of the queues, the flag or the copy  *)
(* of the deferred items (TracyLock.hpp:38-42, TracyProfiler.cpp:968-991). *)
AnnouncementKept ==
    worker = "serve" /\ made = "yes" => announced.queued \/ announced.copied

\* A thread's trace: obtained from Obtain until Release, and else not.
Precise(t) ==
    balance[t] = IF thread[t] \in {"in", "unmark", "uncount", "unload", "unconnected", "release"}
                   THEN 1 ELSE 0

(* Once a lock has been fully released in a session it is traced exactly,  *)
(* as long as no two threads use it at a time (TracyLock.hpp:51-116).      *)
PreciseUncontended == settled /\ ~ contended => \A t \in Threads : Precise(t)

(* "the resulting trace will be less precise, until application state is   *)
(* appropriately reset. For example, locks need to be fully released"      *)
(* (NEWS:24-26): then no release is traced without its obtain.             *)
PreciseOnceReleased == settled => \A t \in Threads : balance[t] >= 0
=============================================================================
