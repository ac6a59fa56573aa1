----------------------------- MODULE ImplicitHash -----------------------------
(***************************************************************************)
(* get_or_add_implicit_producer of the vendored queue (tracy/client/       *)
(* concurrentqueue.h): how a thread that enqueues without a token finds its *)
(* own producer, in a lock-free hash table that grows by putting a larger, *)
(* empty table before the others.  Threads do not leave (the listener for  *)
(* that is compiled out).  A probe, its read and its compare-and-swap, is  *)
(* one step: the swap fails only where the read could have found the slot  *)
(* in use; the search for a thread's own id is one step, as nobody else    *)
(* writes that id and no slot is ever emptied.                             *)
(***************************************************************************)
EXTENDS Naturals, Sequences, FiniteSets

CONSTANTS
    Enqueuers,
    InitialCapacity,  \* INITIAL_IMPLICIT_PRODUCER_HASH_SIZE, a power of two
    MaxFailures       \* bound on the allocations that fail

Nobody == 0

VARIABLES
    tables,    \* every ImplicitProducerHash, the newest last: slots of [key, value]
    count,     \* implicitProducerHashCount
    resizing,  \* the thread inside implicitProducerHashResizeInProgress, or Nobody
    created,   \* how many implicit producers there are
    home,      \* the hash of each thread's id
    pc,        \* where each thread is
    at,        \* its locals: [main, count, capacity, slot, value]
    given,     \* history: every producer a thread was given
    failures

shared == <<tables, count, resizing, created>>
vars == <<shared, home, pc, at, given, failures>>

NoLocals == [main |-> 0, count |-> 0, capacity |-> 0, slot |-> 0, value |-> Nobody]
EmptyTable(capacity) == [s \in 0..(capacity - 1) |-> [key |-> Nobody, value |-> Nobody]]
Capacity(i) == Cardinality(DOMAIN tables[i])
Current == Len(tables)

Init ==
    /\ tables = << EmptyTable(InitialCapacity) >>
    /\ count = 0 /\ resizing = Nobody /\ created = 0
    /\ home \in [Enqueuers -> 0..1]
    /\ pc = [t \in Enqueuers |-> "idle"] /\ at = [t \in Enqueuers |-> NoLocals]
    /\ given = [t \in Enqueuers |-> {}]
    /\ failures = 0

Step(t, from, to) == pc[t] = from /\ pc' = [pc EXCEPT ![t] = to]
Return(t, value) ==
    /\ pc' = [pc EXCEPT ![t] = "idle"] /\ at' = [at EXCEPT ![t] = NoLocals]
    /\ given' = [given EXCEPT ![t] = @ \cup {value}]

Begin(t) ==
    /\ Step(t, "idle", "search")
    /\ at' = [at EXCEPT ![t].main = Current]
    /\ UNCHANGED <<shared, home, given, failures>>

\* The tables from the main one back, for the slot with the thread's own id.
HoldingMutant(t) == { i \in {at[t].main} : \E s \in DOMAIN tables[i] : tables[i][s].key = t }
Holding(t) == { i \in 1..at[t].main : \E s \in DOMAIN tables[i] : tables[i][s].key = t }
Latest(S) == CHOOSE i \in S : \A j \in S : j <= i
ValueIn(t, i) == tables[i][CHOOSE s \in DOMAIN tables[i] : tables[i][s].key = t].value

Found(t) ==
    /\ pc[t] = "search" /\ at[t].main \in Holding(t)
    /\ Return(t, ValueIn(t, at[t].main))
    /\ UNCHANGED <<shared, home, failures>>

\* Found in an older table: it is added to the main one as well.
FoundDeep(t) ==
    /\ Step(t, "search", "insert")
    /\ Holding(t) # {} /\ at[t].main \notin Holding(t)
    /\ at' = [at EXCEPT ![t].value = ValueIn(t, Latest(Holding(t))), ![t].slot = home[t]]
    /\ UNCHANGED <<shared, home, given, failures>>

NotFound(t) ==
    /\ Step(t, "search", "check")
    /\ Holding(t) = {}
    /\ count' = count + 1
    /\ at' = [at EXCEPT ![t].count = count']
    /\ UNCHANGED <<tables, resizing, created, home, given, failures>>

Crowded(t, i) == at[t].count >= Capacity(i) \div 2
RoomyMutant(t, i) == at[t].count < Capacity(i) + 2
\* Less than three quarters full.
Roomy(t, i) == at[t].count < (Capacity(i) \div 2) + (Capacity(i) \div 4)

\* The resize lock is taken, and the main table read again under it.
Lock(t) ==
    /\ Step(t, "check", "resize")
    /\ Crowded(t, at[t].main) /\ resizing = Nobody
    /\ resizing' = t
    /\ at' = [at EXCEPT ![t].main = Current, ![t].capacity = Capacity(Current)]
    /\ UNCHANGED <<tables, count, created, home, given, failures>>

\* Not locked by it: add to this table anyhow, or look again.
NoLock(t) ==
    /\ Step(t, "check", "room")
    /\ Crowded(t, at[t].main) => resizing # Nobody
    /\ UNCHANGED <<shared, home, at, given, failures>>

\* Twice the capacity, until the threads counted take less than half of it.
Ample(t) == at[t].count < at[t].capacity \div 2

Double(t) ==
    /\ pc[t] = "resize" /\ ~ Ample(t)
    /\ at' = [at EXCEPT ![t].capacity = 2 * @]
    /\ UNCHANGED <<shared, home, pc, given, failures>>

Larger(t) == at[t].capacity # Capacity(at[t].main)

Resize(t) ==
    /\ Step(t, "resize", "room") /\ Ample(t)
    /\ tables' = IF Larger(t) THEN Append(tables, EmptyTable(at[t].capacity)) ELSE tables
    /\ at' = [at EXCEPT ![t].main = Len(tables')]
    /\ resizing' = Nobody
    /\ UNCHANGED <<count, created, home, given, failures>>

\* No memory, for a table or for a producer.
AllocationFails(t) ==
    /\ \/ pc[t] = "resize" /\ Ample(t) /\ Larger(t) /\ resizing' = Nobody
       \/ pc[t] = "room" /\ Roomy(t, at[t].main) /\ UNCHANGED resizing
    /\ failures < MaxFailures /\ failures' = failures + 1
    /\ count' = count - 1
    /\ pc' = [pc EXCEPT ![t] = "idle"] /\ at' = [at EXCEPT ![t] = NoLocals]
    /\ UNCHANGED <<tables, created, home, given>>

CreateProducer(t) ==
    /\ Step(t, "room", "insert")
    /\ Roomy(t, at[t].main)
    /\ created' = created + 1
    /\ at' = [at EXCEPT ![t].value = created', ![t].slot = home[t]]
    /\ UNCHANGED <<tables, count, resizing, home, given, failures>>

\* "somebody else is busy allocating a new one"
LookAgain(t) ==
    /\ Step(t, "room", "check")
    /\ ~ Roomy(t, at[t].main)
    /\ at' = [at EXCEPT ![t].main = Current]
    /\ UNCHANGED <<shared, home, given, failures>>

Slot(t) == at[t].slot % Capacity(at[t].main)
Free(t) == tables[at[t].main][Slot(t)].key = Nobody

Insert(t) ==
    /\ pc[t] = "insert" /\ Free(t)
    /\ tables' = [tables EXCEPT ![at[t].main][Slot(t)] = [key |-> t, value |-> at[t].value]]
    /\ Return(t, at[t].value)
    /\ UNCHANGED <<count, resizing, created, home, failures>>

Probe(t) ==
    /\ pc[t] = "insert" /\ ~ Free(t)
    /\ at' = [at EXCEPT ![t].slot = Slot(t) + 1]
    /\ UNCHANGED <<shared, home, pc, given, failures>>

Enqueuer(t) == \/ Begin(t) \/ Found(t) \/ FoundDeep(t) \/ NotFound(t) \/ Lock(t) \/ NoLock(t)
               \/ Double(t) \/ Resize(t) \/ AllocationFails(t) \/ CreateProducer(t) \/ LookAgain(t)
               \/ Insert(t) \/ Probe(t)

Next == \E t \in Enqueuers : Enqueuer(t)

Spec == Init /\ [][Next]_vars

-----------------------------------------------------------------------------
(* Every call of a thread brings the same producer, and no other thread is *)
(* ever given it, over any number of tables (concurrentqueue.h:3371-3373:  *)
(* "this same thread would have added it previously").                     *)
OwnProducer ==
    /\ \A t \in Enqueuers : Cardinality(given[t]) <= 1
    /\ \A t, u \in Enqueuers : t # u => given[t] \cap given[u] = {}

(* No table is ever full, whatever allocations fail and however late a     *)
(* thread adds itself to a table that is no longer the newest: both loops  *)
(* that probe end ("at least one slot is free in the hash table",          *)
(* concurrentqueue.h:3389; "guaranteed to be room", 3397).                 *)
NeverFull ==
    \A i \in DOMAIN tables : \E s \in DOMAIN tables[i] : tables[i][s].key = Nobody
=============================================================================
