----------------------------- MODULE SerialQueue -----------------------------
(***************************************************************************)
(* The profiler's serial queue when the program crashes: the threads that  *)
(* trace their allocations into m_serialQueue under m_serialLock           *)
(* (MemAlloc, MemAllocCallstack and the frees, TracyProfiler.hpp), the     *)
(* worker that swaps it away (DequeueSerial, TracyProfiler.cpp), FastVector *)
(* at the level of its three pointers, and CrashHandler, which freezes the *)
(* other threads wherever they are and then lets the worker do without the *)
(* lock.  What the worker does with its items is in ProfilerWorker.        *)
(*                                                                         *)
(* A vector's ptr is a block, its write and end are places <<block, n>>.   *)
(* A block holds 2^20 items or more, which rpmalloc unmaps when it is      *)
(* freed: reading it faults.  A SIGPWR reaches its thread at once, within  *)
(* the 500 ms the handler waits.                                           *)
(***************************************************************************)
EXTENDS Naturals, Sequences, SequencesExt

CONSTANTS
    Threads,    \* the threads that trace
    Capacity,   \* of a vector at first, 2^20
    MaxAllocs   \* bound on the events traced

ASSUME SerialAssumption == /\ Capacity \in Nat \ {0}
                           /\ MaxAllocs \in Nat
                           /\ "none" \notin Threads /\ "worker" \notin Threads

VARIABLES
    lock,      \* who holds m_serialLock
    pc,        \* where each thread is, in the lock or outside
    todo,      \* the items the lock's holder still has to push
    toInstall, \* the pointers AllocMore still has to set
    blocks,    \* the heap: every block allocated so far
    serial,    \* m_serialQueue
    dequeue,   \* m_serialDequeue
    worker,    \* where the worker is
    cursor,    \* the items of m_serialDequeue it has sent
    flushing,  \* it is in the last loop over the queues
    finished,  \* m_shutdownFinished
    crashed,   \* the thread that runs CrashHandler
    frozen,    \* the threads that sleep in ThreadFreezer
    shutdown, shutdownManual,
    aborted,
    traced,    \* the events traced so far
    order,     \* history: the items in the order of their commit
    sent       \* history: the items the worker took

tracers == <<pc, todo, toInstall, traced, order>>
crash == <<crashed, frozen, shutdown, shutdownManual, aborted>>
reader == <<worker, cursor, flushing, finished, sent>>
vars == <<lock, blocks, serial, dequeue, tracers, crash, reader>>

Items == {"event", "callstack"} \X (1..MaxAllocs)
Vectors(n) == [ptr : 1..n, write : (1..n) \X Nat, end : (1..n) \X Nat]

TypeOK ==
    /\ lock \in Threads \cup {"none", "worker"}
    /\ pc \in [Threads -> {"outside", "push", "free", "install", "commit", "unlock"}]
    /\ todo \in Seq(Items)
    /\ toInstall \subseteq {"ptr", "write", "end"}
    /\ \A b \in DOMAIN blocks : /\ blocks[b].cells \in Seq(Items)
                                /\ Len(blocks[b].cells) <= blocks[b].room
                                /\ blocks[b].live \in BOOLEAN
    /\ serial \in Vectors(Len(blocks)) /\ dequeue \in Vectors(Len(blocks))
    /\ worker \in {"try", "swap", "read", "idle", "returned", "handler", "faulted"}
    /\ cursor \in 0..Len(order)
    /\ \A flag \in {flushing, finished, shutdown, shutdownManual, aborted} : flag \in BOOLEAN
    /\ crashed \in Threads \cup {"none", "worker"}
    /\ frozen \subseteq Threads
    /\ traced \in 0..MaxAllocs
    /\ order \in Seq(Items) /\ sent \in Seq(Items)

EmptyVector(b) == [ptr |-> b, write |-> <<b, 0>>, end |-> <<b, Capacity>>]
EmptyBlock == [cells |-> <<>>, room |-> Capacity, live |-> TRUE]

Init ==
    /\ lock = "none"
    /\ pc = [t \in Threads |-> "outside"]
    /\ todo = <<>> /\ toInstall = {}
    /\ blocks = <<EmptyBlock, EmptyBlock>>
    /\ serial = EmptyVector(1) /\ dequeue = EmptyVector(2)
    /\ worker = "try" /\ cursor = 0
    /\ flushing = FALSE /\ finished = FALSE
    /\ crashed = "none" /\ frozen = {}
    /\ shutdown = FALSE /\ shutdownManual = FALSE /\ aborted = FALSE
    /\ traced = 0 /\ order = <<>> /\ sent = <<>>

-----------------------------------------------------------------------------
\* A tracing thread.

Stopped(t) == t \in frozen \/ t = crashed \/ aborted

\* MemAlloc and MemFree push one item, with a callstack two.
LockMutant(t) ==
    /\ pc[t] = "outside" /\ ~ Stopped(t)
    /\ lock = "none" /\ traced < MaxAllocs
    /\ lock' = t
    /\ traced' = traced + 1
    /\ todo' \in { << <<"event", traced'>> >>, << <<"callstack", traced'>>, <<"event", traced'>> >> }
    /\ pc' = [pc EXCEPT ![t] = "push"]
    /\ UNCHANGED <<blocks, serial, dequeue, toInstall, order, crash, reader>>
Lock(t) ==
    /\ pc[t] = "outside" /\ ~ Stopped(t)
    /\ lock = "none" /\ traced < MaxAllocs
    /\ lock' = t
    /\ traced' = traced + 1
    /\ todo' \in { << <<"event", traced'>> >>, << <<"event", traced'>>, <<"callstack", traced'>> >> }
    /\ pc' = [pc EXCEPT ![t] = "push"]
    /\ UNCHANGED <<blocks, serial, dequeue, toInstall, order, crash, reader>>

\* prepare_next and the writing of the item.
PushMutant(t) ==
    /\ pc[t] = "push" /\ ~ Stopped(t)
    /\ serial.write # serial.end
    /\ blocks' = [blocks EXCEPT ![serial.ptr].cells = Append(@, Head(todo))]
    /\ pc' = [pc EXCEPT ![t] = "commit"]
    /\ UNCHANGED <<lock, serial, dequeue, todo, toInstall, traced, order, crash, reader>>
Push(t) ==
    /\ pc[t] = "push" /\ ~ Stopped(t)
    /\ serial.write # serial.end
    /\ blocks' = [blocks EXCEPT ![serial.ptr].cells = Append(SubSeq(@, 1, serial.write[2]), Head(todo))]
    /\ pc' = [pc EXCEPT ![t] = "commit"]
    /\ UNCHANGED <<lock, serial, dequeue, todo, toInstall, traced, order, crash, reader>>

\* AllocMore: allocate and copy; free the old block; set the three pointers,
\* whose plain stores the compiler may put in any order.
Grow(t) ==
    /\ pc[t] = "push" /\ ~ Stopped(t)
    /\ serial.write = serial.end
    /\ blocks' = Append(blocks, [cells |-> blocks[serial.ptr].cells, live |-> TRUE,
                                 room |-> 2 * blocks[serial.ptr].room])
    /\ pc' = [pc EXCEPT ![t] = "free"]
    /\ UNCHANGED <<lock, serial, dequeue, todo, toInstall, traced, order, crash, reader>>

FreeOldMutant(t) ==
    /\ pc[t] = "free" /\ ~ Stopped(t)
    /\ blocks' = [blocks EXCEPT ![serial.ptr].live = FALSE]
    /\ toInstall' = {"write", "end"}
    /\ pc' = [pc EXCEPT ![t] = "install"]
    /\ UNCHANGED <<lock, serial, dequeue, todo, traced, order, crash, reader>>
FreeOld(t) ==
    /\ pc[t] = "free" /\ ~ Stopped(t)
    /\ blocks' = [blocks EXCEPT ![serial.ptr].live = FALSE]
    /\ toInstall' = {"ptr", "write", "end"}
    /\ pc' = [pc EXCEPT ![t] = "install"]
    /\ UNCHANGED <<lock, serial, dequeue, todo, traced, order, crash, reader>>

Install(t) ==
    /\ pc[t] = "install" /\ ~ Stopped(t)
    /\ \E field \in toInstall :
         /\ serial' = [serial EXCEPT ![field] =
                         CASE field = "ptr" -> Len(blocks)
                           [] field = "write" -> <<Len(blocks), @[2]>>
                           [] field = "end" -> <<Len(blocks), Last(blocks).room>>]
         /\ toInstall' = toInstall \ {field}
    /\ pc' = [pc EXCEPT ![t] = IF toInstall' = {} THEN "push" ELSE @]
    /\ UNCHANGED <<lock, blocks, dequeue, todo, traced, order, crash, reader>>

Commit(t) ==
    /\ pc[t] = "commit" /\ ~ Stopped(t)
    /\ serial' = [serial EXCEPT !.write[2] = @ + 1]
    /\ order' = Append(order, Head(todo))
    /\ todo' = Tail(todo)
    /\ pc' = [pc EXCEPT ![t] = IF todo' = <<>> THEN "unlock" ELSE "push"]
    /\ UNCHANGED <<lock, blocks, dequeue, toInstall, traced, crash, reader>>

Unlock(t) ==
    /\ pc[t] = "unlock" /\ ~ Stopped(t)
    /\ lock' = "none"
    /\ pc' = [pc EXCEPT ![t] = "outside"]
    /\ UNCHANGED <<blocks, serial, dequeue, todo, toInstall, traced, order, crash, reader>>

-----------------------------------------------------------------------------
\* The worker, in DequeueSerial and in the loops that call it.

\* Not once shutdownManual is set does it insist on the lock.
TryLockForeverMutant ==
    /\ worker = "try" /\ ~ aborted
    /\ lock = "none"
    /\ lock' = "worker"
    /\ worker' = "swap"
    /\ UNCHANGED <<blocks, serial, dequeue, tracers, crash, cursor, flushing, finished, sent>>
TryLock ==
    /\ worker = "try" /\ ~ aborted
    /\ lock = "none" \/ shutdownManual
    /\ lock' = IF lock = "none" THEN "worker" ELSE lock
    /\ worker' = "swap"
    /\ UNCHANGED <<blocks, serial, dequeue, tracers, crash, cursor, flushing, finished, sent>>

Empty(v) == v.write = <<v.ptr, 0>>

SwapMutant ==
    /\ worker = "swap" /\ ~ aborted
    /\ serial' = [dequeue EXCEPT !.end = serial.end]
    /\ dequeue' = [serial EXCEPT !.end = dequeue.end]
    /\ lock' = IF lock = "worker" THEN "none" ELSE lock
    /\ worker' = IF Empty(dequeue') THEN "idle" ELSE "read"
    /\ UNCHANGED <<blocks, tracers, crash, cursor, flushing, finished, sent>>
Swap ==
    /\ worker = "swap" /\ ~ aborted
    /\ serial' = dequeue /\ dequeue' = serial
    /\ lock' = IF lock = "worker" THEN "none" ELSE lock
    /\ worker' = IF Empty(dequeue') THEN "idle" ELSE "read"
    /\ UNCHANGED <<blocks, tracers, crash, cursor, flushing, finished, sent>>

\* From ptr to write, if both are in one block; else on until it faults.  The
\* handler of a later crash sleeps.
Read ==
    /\ worker = "read" /\ ~ aborted
    /\ dequeue.write # <<dequeue.ptr, cursor>>
    /\ IF blocks[dequeue.ptr].live /\ cursor < Len(blocks[dequeue.ptr].cells)
         THEN /\ sent' = Append(sent, blocks[dequeue.ptr].cells[cursor + 1])
              /\ cursor' = cursor + 1
              /\ UNCHANGED <<worker, crashed>>
         ELSE /\ worker' = "faulted"
              /\ crashed' = IF crashed = "none" THEN "worker" ELSE crashed
              /\ UNCHANGED <<sent, cursor>>
    /\ UNCHANGED <<lock, blocks, serial, dequeue, tracers, frozen, shutdown, shutdownManual,
                   aborted, flushing, finished>>

ClearMutant ==
    /\ worker = "read" /\ ~ aborted
    /\ dequeue.write = <<dequeue.ptr, cursor>>
    /\ dequeue' = [dequeue EXCEPT !.write = <<dequeue.ptr, 0>>]
    /\ worker' = "try"
    /\ UNCHANGED <<lock, blocks, serial, tracers, crash, cursor, flushing, finished, sent>>
Clear ==
    /\ worker = "read" /\ ~ aborted
    /\ dequeue.write = <<dequeue.ptr, cursor>>
    /\ dequeue' = [dequeue EXCEPT !.write = <<dequeue.ptr, 0>>]
    /\ cursor' = 0
    /\ worker' = "try"
    /\ UNCHANGED <<lock, blocks, serial, tracers, crash, flushing, finished, sent>>

\* Nothing was queued: once told to shut down, one last loop over the queues.
Idle ==
    /\ worker = "idle" /\ ~ aborted
    /\ flushing' = (flushing \/ shutdown)
    /\ finished' = flushing
    /\ worker' = IF flushing THEN "returned" ELSE "try"
    /\ UNCHANGED <<lock, blocks, serial, dequeue, tracers, crash, cursor, sent>>

-----------------------------------------------------------------------------
\* CrashHandler.

Crash(t) ==
    /\ crashed = "none"
    /\ \/ t \in Threads /\ UNCHANGED worker
       \/ t = "worker" /\ worker # "returned" /\ worker' = "handler"
    /\ crashed' = t
    /\ UNCHANGED <<lock, blocks, serial, dequeue, tracers, frozen, shutdown, shutdownManual,
                   aborted, cursor, flushing, finished, sent>>

\* By tkill, or because it crashes as well.
Freeze(t) ==
    /\ crashed # "none" /\ t \notin frozen \cup {crashed} /\ ~ aborted
    /\ frozen' = frozen \cup {t}
    /\ UNCHANGED <<lock, blocks, serial, dequeue, tracers, crashed, shutdown, shutdownManual,
                   aborted, reader>>

\* RequestShutdown, two relaxed stores.
RequestShutdownMutant ==
    /\ crashed # "none" /\ ~ aborted
    /\ \/ ~ shutdown /\ shutdown' = TRUE /\ UNCHANGED shutdownManual
       \/ ~ shutdownManual /\ shutdownManual' = TRUE /\ UNCHANGED shutdown
    /\ UNCHANGED <<lock, blocks, serial, dequeue, tracers, crashed, frozen, aborted, reader>>
RequestShutdown ==
    /\ crashed # "none" /\ Threads \subseteq frozen \cup {crashed} /\ ~ aborted
    /\ \/ ~ shutdown /\ shutdown' = TRUE /\ UNCHANGED shutdownManual
       \/ ~ shutdownManual /\ shutdownManual' = TRUE /\ UNCHANGED shutdown
    /\ UNCHANGED <<lock, blocks, serial, dequeue, tracers, crashed, frozen, aborted, reader>>

Abort ==
    /\ shutdown /\ shutdownManual /\ finished /\ ~ aborted
    /\ aborted' = TRUE
    /\ UNCHANGED <<lock, blocks, serial, dequeue, tracers, crashed, frozen, shutdown,
                   shutdownManual, reader>>

-----------------------------------------------------------------------------
Tracer(t) == Lock(t) \/ Push(t) \/ Grow(t) \/ FreeOld(t) \/ Install(t) \/ Commit(t) \/ Unlock(t)

Worker == TryLock \/ Swap \/ Read \/ Clear \/ Idle

Handler == RequestShutdown \/ Abort \/ \E t \in Threads : Freeze(t)

Next == \/ \E t \in Threads : Tracer(t)
        \/ Worker
        \/ \E t \in Threads \cup {"worker"} : Crash(t)
        \/ Handler

Spec == Init /\ [][Next]_vars

\* The operating system schedules the worker and the thread that handles the
\* crash; no thread is owed anything that another could freeze.
FairSpec == Spec /\ WF_vars(Worker) /\ WF_vars(Handler)

-----------------------------------------------------------------------------
\* A thread that will never set the rest of AllocMore's pointers.
StoppedGrowing == \E t \in frozen \cup {crashed} : t \in Threads /\ pc[t] = "install"

(* "Allocation event queuing must be done in order" (NEWS:149-150): the    *)
(* worker takes the items exactly in the order of their commit, each once, *)
(* whatever was swapped, grown, crashed or frozen on the way.              *)
SentInOrder == IsPrefix(sent, order)

(* An event's callstack directly follows it, which is all that tells the   *)
(* server whose it is (TracyProfiler.hpp:295-318, 424-432).                *)
CallstackFollows ==
    \A k \in 1..(Len(sent) - 1) :
        sent[k + 1][1] = "callstack" => sent[k] = <<"event", sent[k + 1][2]>>

(* Unless a thread was stopped in AllocMore while it set the pointers, the *)
(* worker reads no block that was freed and runs over no end, and out of   *)
(* AllocMore both vectors have their three pointers in a block of their    *)
(* own, not freed, and never pass its end (TracyFastVector.hpp:63-107).    *)
VectorsSound ==
    /\ worker = "faulted" => StoppedGrowing
    /\ (\A t \in Threads : pc[t] # "install") =>
         /\ serial.ptr # dequeue.ptr
         /\ \A v \in {serial, dequeue} :
              /\ v.write[1] = v.ptr /\ v.end = <<v.ptr, blocks[v.ptr].room>>
              /\ v.write[2] <= v.end[2]
              /\ blocks[v.ptr].live

(* The worker swaps without the lock only when no thread can run that      *)
(* might use the vector (TracyProfiler.cpp:640-655, 667, 1309-1323).       *)
BypassOnlyFrozen ==
    [][dequeue' # dequeue /\ worker = "swap" /\ lock # "worker"
          => Threads \subseteq frozen \cup {crashed}]_vars

(* After a crash in a tracing thread, the process finishes and aborts,     *)
(* though a stopped thread may hold the lock; unless it was growing.       *)
CrashEnds == crashed \in Threads ~> aborted \/ StoppedGrowing

(* "Tracy can intercept crashes and finish sending data from a dying       *)
(* process" (NEWS:115), of a crash in a tracing thread.                    *)
FinishesSending == crashed \in Threads ~> finished
=============================================================================
