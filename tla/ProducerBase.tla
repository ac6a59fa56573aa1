----------------------------- MODULE ProducerBase -----------------------------
(***************************************************************************)
(* What the two kinds of producer of the vendored queue share (tracy/client/ *)
(* concurrentqueue.h, ProducerBase): the four counters over which consumers *)
(* race, without locks, for the indexes they may take, and the locals of a *)
(* consumer.  A dequeue is the case of a bulk of one.  Accesses to the     *)
(* counters are sequentially consistent, and separate steps wherever what  *)
(* was read can be old when it is used.  The item at index i is i + 1; the *)
(* indexes do not wrap, which takes 2^64 items.                            *)
(***************************************************************************)
EXTENDS Integers, Sequences, FiniteSets

CONSTANTS
    Consumers,
    BlockSize,     \* BLOCK_SIZE, a power of two
    MaxBulk,       \* the most items of one bulk operation
    MaxItems,      \* bound on the items enqueued
    MaxReserved    \* bound on the optimistic count

ASSUME BaseAssumption == /\ BlockSize \in Nat \ {0, 1}
                         /\ MaxBulk \in Nat \ {0} /\ MaxItems \in Nat
                         /\ MaxReserved \in Nat

VARIABLES
    tail, head, optimistic, overcommit,
    consumer,    \* where each consumer is
    local,       \* the locals of its operation
    taken        \* history: the items copied out, at the indexes claimed

counters == <<tail, head, optimistic, overcommit>>
reading == <<consumer, local, taken>>

Offsets == 0..(BlockSize - 1)
Base(i) == i - (i % BlockSize)

NoLocal == [over |-> 0, want |-> 0, mine |-> 0, next |-> 0, stop |-> 0,
            header |-> 0, slot |-> 0, block |-> 0]

InitBase ==
    /\ tail = 0 /\ head = 0 /\ optimistic = 0 /\ overcommit = 0
    /\ consumer = [c \in Consumers |-> "idle"]
    /\ local = [c \in Consumers |-> NoLocal]
    /\ taken = {}

At(c, from, to) == consumer[c] = from /\ consumer' = [consumer EXCEPT ![c] = to]
Gone(c) == consumer' = [consumer EXCEPT ![c] = "idle"] /\ local' = [local EXCEPT ![c] = NoLocal]

\* Something seems to be there: how much of it to ask for.
Look(c, max) ==
    LET seen == tail - (optimistic - overcommit)
    IN  /\ seen > 0 /\ optimistic < MaxReserved
        /\ At(c, "idle", "reserve")
        /\ local' = [local EXCEPT ![c] = [NoLocal EXCEPT !.over = overcommit,
                                             !.want = IF seen < max THEN seen ELSE max]]
        /\ UNCHANGED <<counters, taken>>

Reserve(c) ==
    /\ At(c, "reserve", "claim")
    /\ optimistic' = optimistic + local[c].want
    /\ local' = [local EXCEPT ![c].mine = optimistic]
    /\ UNCHANGED <<tail, head, overcommit, taken>>

\* The tail again: what there is for this consumer may be less, or nothing.
Actual(c) ==
    LET left == tail - (local[c].mine - local[c].over)
    IN  IF left <= 0 THEN 0 ELSE IF local[c].want < left THEN local[c].want ELSE left

\* What was reserved in vain is given back.
Claim(c) ==
    /\ consumer[c] = "claim"
    /\ overcommit' = overcommit + local[c].want - Actual(c)
    /\ head' = head + Actual(c)
    /\ IF Actual(c) = 0
         THEN Gone(c)
         ELSE /\ At(c, "claim", "index")
              /\ local' = [local EXCEPT ![c] = [NoLocal EXCEPT !.next = head, !.stop = head']]
    /\ UNCHANGED <<tail, optimistic, taken>>

CountItems(c) == Reserve(c) \/ Claim(c) \/ \E max \in {1, MaxBulk} : Look(c, max)

\* The end of the items claimed that lie in the block of the next one.
End(c) == IF Base(local[c].next) + BlockSize < local[c].stop
            THEN Base(local[c].next) + BlockSize ELSE local[c].stop
InBlock(c) == local[c].next..(End(c) - 1)

\* On to the next block, or done.
NextBlock(c, from, to) ==
    /\ consumer[c] = from
    /\ IF End(c) = local[c].stop
         THEN Gone(c)
         ELSE /\ At(c, from, to)
              /\ local' = [local EXCEPT ![c].next = End(c)]

\* Items at some indexes are constructed, each in the block that place gives.
Filled(blocks, place, first, last) ==
    [b \in DOMAIN blocks |-> [blocks[b] EXCEPT !.cells =
       [o \in Offsets |->
          LET here == { i \in first..last : place[i] = b /\ i % BlockSize = o }
          IN  IF here = {} THEN @[o] ELSE 1 + CHOOSE i \in here : TRUE]]]

Queue == INSTANCE ItemQueue
           WITH published <- tail, claimed <- head, delivered <- taken

(* Whatever the consumers' races over the counters, an index is claimed    *)
(* once and only after its item was published, and what is copied out is   *)
(* the item enqueued at that index: no block is found through a stale      *)
(* entry and none is filled again while it is read (concurrentqueue.h:     *)
(* 2267-2327 against 1919-1966 and 2082-2265; 2767-2858 against 2513-2765). *)
ImplementsQueue == Queue!Spec
=============================================================================
