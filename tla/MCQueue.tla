------------------------------- MODULE MCQueue -------------------------------
(* The vendored queue's lock-free parts side by side: one explicit or one  *)
(* implicit producer with two consumers that race for its items, the free  *)
(* list, the table in which threads find their implicit producers, and the *)
(* lives of queues and tokens.  Blocks of two items and an index of two    *)
(* blocks make five items reuse blocks and grow the index; three threads   *)
(* make a table of two grow twice.  Two queues of one block, with two      *)
(* tokens and two threads, are made, moved, swapped and destroyed.         *)
EXTENDS ExplicitProducer

CONSTANTS Adders, Nodes, Null, Enqueuers, InitialCapacity, MaxFailures,
          Queues, Tokens, Threads, MaxLives

VARIABLES part, free, entries,
          freeListHead, freeListRefs, freeListNext, thread, at, out,
          tables, count, resizing, created, home, pc, locals, given, failures,
          queue, owner, block, token, table, fate, lives

Implicit == INSTANCE ImplicitProducer
List == INSTANCE FreeList
Hash == INSTANCE ImplicitHash WITH at <- locals
Life == INSTANCE QueueLife WITH producer <- owner, PoolSize <- 1, MaxItems <- 3,
                                MaxProducers <- 3, InitialCapacity <- 4

\* The threads are finitely many, and fewer than the references a node can count.
ASSUME EnqueuersAssumption ==
    /\ IsFiniteSet(Enqueuers) /\ Hash!Nobody \notin Enqueuers
    /\ InitialCapacity \in Nat \ {0}
ASSUME AddersAssumption ==
    /\ IsFiniteSet(Adders) /\ Cardinality(Adders) < List!ShouldBeOnFreeList - 2
    /\ Null \notin Nodes

implicitVars == <<free, entries>>
listVars == <<freeListHead, freeListRefs, freeListNext, thread, at, out>>
hashVars == <<tables, count, resizing, created, home, pc, locals, given, failures>>
lifeVars == <<queue, owner, block, token, table, fate, lives>>
all == <<part, vars, implicitVars, listVars, hashVars, lifeVars>>

MCInit ==
    /\ part \in {"explicit", "implicit", "list", "hash", "life"}
    /\ List!Init /\ Life!Init
    /\ Hash!Init /\ (part # "hash" => home = [t \in Enqueuers |-> 0])
    /\ \/ part = "implicit" /\ Implicit!Init /\ slotsUsed = 0 /\ front = 0
       \/ part # "implicit" /\ Init /\ free = {} /\ entries = <<>>

ExplicitStep == part = "explicit" /\ Next /\ UNCHANGED <<part, implicitVars, listVars, hashVars, lifeVars>>
ImplicitStep == part = "implicit" /\ Implicit!Next /\ UNCHANGED <<part, slotsUsed, front, listVars, hashVars, lifeVars>>
ListStep == part = "list" /\ List!Next /\ UNCHANGED <<part, vars, implicitVars, hashVars, lifeVars>>
HashStep == part = "hash" /\ Hash!Next /\ UNCHANGED <<part, vars, implicitVars, listVars, lifeVars>>
LifeStep == part = "life" /\ Life!Next /\ UNCHANGED <<part, vars, implicitVars, listVars, hashVars>>

MCNext == ExplicitStep \/ ImplicitStep \/ ListStep \/ HashStep \/ LifeStep

MCSpec == MCInit /\ [][MCNext]_all

(* No block of an implicit producer is lost and none is in two places; and *)
(* whatever becomes of queues and tokens, each block is freed once and not *)
(* while it is used, and each item is destroyed once (concurrentqueue.h:   *)
(* 2848-2858, 2651-2672, 745-945, 1763-1812, 2426-2475).                   *)
BlocksAccounted ==
    /\ part = "implicit" => Implicit!BlocksAccounted
    /\ part = "life" => Life!LivesSound

(* A node of the free list is handed to one thread at a time and none is   *)
(* lost (concurrentqueue.h:1423-1488).                                     *)
NodesAccounted == List!HandedOutOnce /\ List!NoneLost

(* Every call of a thread without a token brings it the same producer,     *)
(* which no other thread is given (concurrentqueue.h:3371-3373).           *)
OwnProducer == Hash!OwnProducer

(* No table of implicit producers is ever full (concurrentqueue.h:3389).   *)
NeverFull == Hash!NeverFull
=============================================================================
