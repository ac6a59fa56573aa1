--------------------------- MODULE ImplicitProducer ---------------------------
(***************************************************************************)
(* ImplicitProducer of the vendored queue (tracy/client/concurrentqueue.h): *)
(* a producer whose blocks come from, and go back to, the queue's free     *)
(* list, with an index of entries that consumers empty and the producer    *)
(* uses again.  The free list's get and add are atomic here; FreeList is   *)
(* how they come about.  Consumers read the index, its tail, the key at    *)
(* the tail and the entry each in a step of its own; undoing a failed      *)
(* enqueue_bulk touches only entries of items not published, and is one.   *)
(***************************************************************************)
EXTENDS ProducerBase

CONSTANT InitialIndex  \* IMPLICIT_INITIAL_INDEX_SIZE

VARIABLES
    blocks,      \* every block: [done, cells]
    free,        \* the blocks on the free list
    entries,     \* every BlockIndexEntry: [key, value]
    indexes,     \* every BlockIndexHeader: [capacity, tail, index]
    tailBlock,
    producer,    \* where the producer is
    op,          \* the locals of its operation
    failed       \* history: an allocation failed; at most once

pool == <<blocks, free>>
index == <<entries, indexes>>
enqueuing == <<tailBlock, producer, op, failed>>
vars == <<counters, pool, index, enqueuing, reading>>

Invalid == -1  \* INVALID_BLOCK_BASE
NoBlock == 0
Current == Len(indexes)  \* blockIndex
NoOp == [kind |-> "none", n |-> 0, need |-> 0, chain |-> <<>>, entry |-> 0]
FreshEntries(n) == [i \in 1..n |-> [key |-> Invalid, value |-> NoBlock]]

Init ==
    /\ InitBase
    /\ blocks = <<>> /\ free = {}
    /\ entries = FreshEntries(InitialIndex)
    /\ indexes = << [capacity |-> InitialIndex, tail |-> InitialIndex - 1,
                     index |-> [s \in 0..(InitialIndex - 1) |-> s + 1]] >>
    /\ tailBlock = NoBlock
    /\ producer = "idle" /\ op = NoOp /\ failed = FALSE

-----------------------------------------------------------------------------
\* The producer.

\* new_block_index: twice the entries, the old ones in order after the tail's.
Doubled ==
    LET old == indexes[Current]
        two == 2 * old.capacity
    IN  [capacity |-> two, tail |-> old.capacity - 1,
         index |-> [s \in 0..(two - 1) |->
            IF s < old.capacity THEN old.index[(old.tail + 1 + s) % old.capacity]
                                ELSE Len(entries) + 1 + s - old.capacity]]

NewTail == (indexes[Current].tail + 1) % indexes[Current].capacity
Candidate == indexes[Current].index[NewTail]
SlotFreeMutant == TRUE
SlotFree == entries[Candidate].key = Invalid \/ entries[Candidate].value = NoBlock

\* An operation starts; n items, some of which may need new blocks.
Begin(kind, n) ==
    /\ producer = "idle" /\ tail + n <= MaxItems
    /\ LET need == (Base(tail + n - 1) - Base(tail - 1)) \div BlockSize
       IN  /\ op' = [NoOp EXCEPT !.kind = kind, !.n = n, !.need = need]
           /\ producer' = IF need = 0 THEN "publish" ELSE "entry"
    /\ UNCHANGED <<counters, pool, index, tailBlock, failed, reading>>

\* The index of the first item of the next block.
NewBase == Base(tail - 1) + BlockSize * (Len(op.chain) + 1)

\* insert_block_index_entry: the entry after the tail's, in a larger index
\* when that one is in use; its key, and then the tail that shows it.
Grow ==
    /\ producer = "entry" /\ ~ SlotFree
    /\ entries' = entries \o FreshEntries(indexes[Current].capacity)
    /\ indexes' = Append(indexes, Doubled)
    /\ UNCHANGED <<counters, pool, enqueuing, reading>>

SetKey ==
    /\ producer = "entry" /\ SlotFree
    /\ entries' = [entries EXCEPT ![Candidate].key = NewBase]
    /\ op' = [op EXCEPT !.entry = Candidate]
    /\ producer' = "tail"
    /\ UNCHANGED <<counters, pool, indexes, tailBlock, failed, reading>>

SetTail ==
    /\ producer = "tail"
    /\ indexes' = [indexes EXCEPT ![Current].tail = NewTail]
    /\ producer' = "block"
    /\ UNCHANGED <<counters, pool, entries, tailBlock, op, failed, reading>>

\* requisition_block, reset and put behind its entry: one from the free list,
\* or a new one when that is empty.
TakeBlock ==
    /\ producer = "block"
    /\ \E b \in (IF free = {} THEN {Len(blocks) + 1} ELSE free) :
         /\ blocks' = IF b > Len(blocks)
                        THEN Append(blocks, [done |-> 0, cells |-> [o \in Offsets |-> 0]])
                        ELSE [blocks EXCEPT ![b].done = 0]
         /\ free' = free \ {b}
         /\ entries' = [entries EXCEPT ![op.entry].value = b]
         /\ op' = [op EXCEPT !.chain = Append(@, b), !.need = @ - 1]
    /\ producer' = IF op.need = 1 THEN "publish" ELSE "entry"
    /\ UNCHANGED <<counters, indexes, tailBlock, failed, reading>>

\* How many entries an operation that fails has put in front of the tail:
\* one for each block it has, and one for the block that it does not get.
Inserted == Len(op.chain) + (IF producer = "block" THEN 1 ELSE 0)
Rewound == [indexes EXCEPT ![Current].tail = (@ - Inserted) % indexes[Current].capacity]

\* No memory for an index or for a block: everything is undone.
AllocationFails ==
    /\ \/ producer = "entry" /\ ~ SlotFree
       \/ producer = "block" /\ free = {}
    /\ ~ failed /\ failed' = TRUE
    /\ entries' = [e \in DOMAIN entries |->
                     IF \E k \in DOMAIN op.chain : op.chain[k] = entries[e].value
                       THEN [entries[e] EXCEPT !.value = NoBlock] ELSE entries[e]]
    /\ indexes' = Rewound
    /\ free' = free \cup { op.chain[k] : k \in DOMAIN op.chain }
    /\ producer' = "idle" /\ op' = NoOp
    /\ UNCHANGED <<counters, blocks, tailBlock, reading>>

\* The block an item goes to: the tail block, or one of the chain.
BlockFor(i) ==
    LET hops == (Base(i) - Base(tail - 1)) \div BlockSize
    IN  IF hops = 0 THEN tailBlock ELSE op.chain[hops]

Publish ==
    /\ producer = "publish"
    /\ LET last == tail + op.n - 1
       IN  /\ blocks' = Filled(blocks, [i \in tail..last |-> BlockFor(i)], tail, last)
           /\ tailBlock' = BlockFor(last)
    /\ tail' = tail + op.n
    /\ producer' = "idle" /\ op' = NoOp
    /\ UNCHANGED <<head, optimistic, overcommit, free, index, failed, reading>>

-----------------------------------------------------------------------------
\* A consumer: get_block_index_index_for_index, and the entries it leads to.

LoadIndex(c) ==
    /\ At(c, "index", "tail")
    /\ local' = [local EXCEPT ![c].header = Current]
    /\ UNCHANGED <<counters, pool, index, enqueuing, taken>>

LoadTail(c) ==
    /\ At(c, "tail", "key")
    /\ local' = [local EXCEPT ![c].slot = indexes[local[c].header].tail]
    /\ UNCHANGED <<counters, pool, index, enqueuing, taken>>

LoadKey(c) ==
    /\ At(c, "key", "copy")
    /\ LET header == indexes[local[c].header]
           offset == (Base(local[c].next) - entries[header.index[local[c].slot]].key)
                       \div BlockSize
       IN  local' = [local EXCEPT ![c].slot = (@ + offset) % header.capacity]
    /\ UNCHANGED <<counters, pool, index, enqueuing, taken>>

Entry(c) == indexes[local[c].header].index[local[c].slot]

Copy(c) ==
    /\ At(c, "copy", "count")
    /\ LET b == entries[Entry(c)].value
       IN  /\ local' = [local EXCEPT ![c].block = b]
           /\ taken' = taken \cup { <<i, IF b = NoBlock THEN 0
                                         ELSE blocks[b].cells[i % BlockSize]>> : i \in InBlock(c) }
    /\ UNCHANGED <<counters, pool, index, enqueuing>>

\* set_many_empty: who takes the last items of a block empties its entry and
\* gives the block back.
Counted(c) == blocks[local[c].block].done + Cardinality(InBlock(c))

CountDone(c) ==
    /\ consumer[c] = "count"
    /\ blocks' = [blocks EXCEPT ![local[c].block].done = Counted(c)]
    /\ consumer' = [consumer EXCEPT ![c] =
                      IF Counted(c) = BlockSize THEN "clear" ELSE "advance"]
    /\ UNCHANGED <<counters, free, index, enqueuing, local, taken>>

ClearEntry(c) ==
    /\ At(c, "clear", "free")
    /\ entries' = [entries EXCEPT ![Entry(c)].value = NoBlock]
    /\ UNCHANGED <<counters, pool, indexes, enqueuing, local, taken>>

FreeBlock(c) ==
    /\ At(c, "free", "advance")
    /\ free' = free \cup {local[c].block}
    /\ UNCHANGED <<counters, blocks, index, enqueuing, local, taken>>

Advance(c) ==
    /\ consumer[c] = "advance"
    /\ IF End(c) = local[c].stop
         THEN Gone(c)
         ELSE /\ At(c, "advance", "copy")
              /\ local' = [local EXCEPT ![c].next = End(c),
                             ![c].slot = (@ + 1) % indexes[local[c].header].capacity]
    /\ UNCHANGED <<counters, pool, index, enqueuing, taken>>

Produce == \/ Begin("one", 1) \/ \E n \in 1..MaxBulk : Begin("bulk", n)
           \/ Grow \/ SetKey \/ SetTail \/ TakeBlock \/ AllocationFails \/ Publish

Consume(c) == \/ CountItems(c) /\ UNCHANGED <<pool, index, enqueuing>>
              \/ LoadIndex(c) \/ LoadTail(c) \/ LoadKey(c) \/ Copy(c)
              \/ CountDone(c) \/ ClearEntry(c) \/ FreeBlock(c) \/ Advance(c)

Next == Produce \/ \E c \in Consumers : Consume(c)

Spec == Init /\ [][Next]_vars

-----------------------------------------------------------------------------
(* No block is lost and none is in two places: each is on the free list,   *)
(* behind one entry of the index, or on its way from the one to the other  *)
(* in the hands of the consumer that took its last item (concurrentqueue.h: *)
(* 2848-2858), after a failed enqueue_bulk too (2651-2672).                *)
BlocksAccounted ==
    \A b \in DOMAIN blocks :
        LET behind == { e \in DOMAIN entries : entries[e].value = b }
            held == { c \in Consumers : consumer[c] = "free" /\ local[c].block = b }
        IN  Cardinality(behind) + Cardinality(held) + (IF b \in free THEN 1 ELSE 0) = 1
=============================================================================
