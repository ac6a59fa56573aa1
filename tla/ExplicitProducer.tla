--------------------------- MODULE ExplicitProducer ---------------------------
(***************************************************************************)
(* ExplicitProducer of the vendored queue (tracy/client/concurrentqueue.h): *)
(* one producer that enqueues (enqueue, Tracy's enqueue_begin, enqueue_bulk) *)
(* into a circular list of blocks, a ring that indexes the blocks by the   *)
(* index of their first item, and consumers that dequeue (dequeue_bulk,    *)
(* dequeue is its case of one) without locks.                              *)
(*                                                                         *)
(* Accesses to what both sides share are sequentially consistent.  A       *)
(* consumer's are separate steps wherever what it has read can have become *)
(* old: the counters it looks at, its reservation, its claim, the index    *)
(* and its front, the entries and items, the empty flags.  The producer's  *)
(* are each block it takes, each entry with the front that shows it, and   *)
(* the tail with the items it shows.                                        *)
(***************************************************************************)
EXTENDS ProducerBase

CONSTANTS
    InitialIndex,  \* EXPLICIT_INITIAL_INDEX_SIZE
    BulkMayFail    \* whether enqueue_bulk can be refused a block or an index

ASSUME QueueAssumption == InitialIndex \in Nat \ {0, 1} /\ BulkMayFail \in BOOLEAN

VARIABLES
    blocks,      \* every block: [next, empty, cells]
    indexes,     \* every BlockIndexHeader; the last one is blockIndex
    tailBlock,
    slotsUsed,   \* pr_blockIndexSlotsUsed
    front,       \* pr_blockIndexFront, the next slot
    producer,    \* where the producer is
    op,          \* the locals of its operation
    failed       \* history: an allocation failed; at most once

private == <<tailBlock, slotsUsed, front>>
enqueuing == <<private, producer, op, failed>>
vars == <<counters, blocks, indexes, private, producer, op, failed, reading>>

Size == indexes[Len(indexes)].size
NoOp == [kind |-> "none", n |-> 0]
One == [kind |-> "one", n |-> 1]

EmptyIndex(size) == [size |-> size, front |-> -1,
                     entries |-> [s \in 0..(size - 1) |-> [base |-> -1, block |-> 0]]]

Init ==
    /\ InitBase
    /\ blocks = <<>>
    /\ indexes = << EmptyIndex(InitialIndex) >>
    /\ tailBlock = 0 /\ slotsUsed = 0 /\ front = 0
    /\ producer = "idle" /\ op = NoOp /\ failed = FALSE

-----------------------------------------------------------------------------
\* The producer.

Ahead == blocks[tailBlock].next
AheadEmptyMutant == tailBlock # 0 /\ blocks[Ahead].empty # {}
\* is_empty, of the block that would be filled next: the oldest of the list.
AheadEmpty == tailBlock # 0 /\ blocks[Ahead].empty = Offsets

\* A new block goes between the tail block and the oldest; it is reset, or
\* set all empty in enqueue_bulk.
Inserted(flags) ==
    LET b == Len(blocks) + 1
        new == [next |-> IF tailBlock = 0 THEN b ELSE Ahead, empty |-> flags,
                cells |-> [o \in Offsets |-> 0]]
    IN  IF tailBlock = 0 THEN <<new>>
                         ELSE Append([blocks EXCEPT ![tailBlock].next = b], new)

\* new_block_index: twice the size, the used slots copied in order.
Grown(exposed) ==
    LET old == indexes[Len(indexes)]
        first == front - slotsUsed
    IN  [size |-> 2 * old.size, front |-> exposed - 1,
         entries |-> [s \in 0..(2 * old.size - 1) |->
            IF s < slotsUsed THEN old.entries[(first + s) % old.size]
                             ELSE [base |-> -1, block |-> 0]]]

GrowIndex(exposed) ==
    /\ indexes' = Append(indexes, Grown(exposed))
    /\ front' = slotsUsed

Entered(base, block) ==
    [indexes EXCEPT ![Len(indexes)].entries[front] = [base |-> base, block |-> block]]

\* enqueue and enqueue_begin start a new block when the last one is full.
StartsBlock == producer = "idle" /\ tail < MaxItems /\ tail % BlockSize = 0

ReuseBlock ==
    /\ StartsBlock /\ AheadEmpty
    /\ tailBlock' = Ahead
    /\ blocks' = [blocks EXCEPT ![Ahead].empty = {}]
    /\ producer' = "entry" /\ op' = One
    /\ UNCHANGED <<counters, indexes, slotsUsed, front, failed, reading>>

NeedBlock ==
    /\ StartsBlock /\ ~ AheadEmpty
    /\ IF slotsUsed = Size THEN GrowIndex(slotsUsed) ELSE UNCHANGED <<indexes, front>>
    /\ producer' = "new" /\ op' = One
    /\ UNCHANGED <<counters, blocks, tailBlock, slotsUsed, failed, reading>>

NewBlock ==
    /\ producer = "new" /\ op.kind = "one"
    /\ blocks' = Inserted({})
    /\ tailBlock' = Len(blocks')
    /\ slotsUsed' = slotsUsed + 1
    /\ producer' = "entry"
    /\ UNCHANGED <<counters, indexes, front, op, failed, reading>>

WriteEntry ==
    /\ producer = "entry"
    /\ indexes' = [Entered(tail, tailBlock) EXCEPT ![Len(indexes)].front = front]
    /\ front' = (front + 1) % Size
    /\ producer' = "publish"
    /\ UNCHANGED <<counters, blocks, tailBlock, slotsUsed, op, failed, reading>>

\* Or they go on in it.
Continue ==
    /\ producer = "idle" /\ tail < MaxItems /\ tail % BlockSize # 0
    /\ producer' = "publish" /\ op' = One
    /\ UNCHANGED <<counters, blocks, indexes, private, failed, reading>>

\* enqueue_bulk: the blocks first, reused from ahead, then new ones.
BeginBulk(n) ==
    /\ producer = "idle" /\ tail + n <= MaxItems
    /\ LET need == (Base(tail + n - 1) - Base(tail - 1)) \div BlockSize
       IN  /\ op' = [kind |-> "bulk", n |-> n, need |-> need, chain |-> <<>>,
                     start |-> tailBlock, slots0 |-> slotsUsed, front0 |-> front]
           /\ producer' = IF need = 0 THEN "publish" ELSE "reuse"
    /\ UNCHANGED <<counters, blocks, indexes, private, failed, reading>>

\* One more block: its entry is written, the front waits for the last.
Chain(b, inserted) ==
    /\ blocks' = inserted
    /\ tailBlock' = b
    /\ indexes' = Entered(Base(tail - 1) + BlockSize * (Len(op.chain) + 1), b)
    /\ front' = (front + 1) % Size
    /\ op' = [op EXCEPT !.need = @ - 1, !.chain = Append(@, b)]

FullCircle == op.chain # <<>> /\ Ahead = op.chain[1]
Reusable == op.need > 0 /\ AheadEmpty /\ ~ FullCircle

BulkReuse ==
    /\ producer = "reuse" /\ Reusable
    /\ Chain(Ahead, blocks)
    /\ UNCHANGED <<counters, slotsUsed, producer, failed, reading>>

BulkNoReuse ==
    /\ producer = "reuse" /\ ~ Reusable
    /\ producer' = IF op.need = 0 THEN "front" ELSE "new"
    /\ UNCHANGED <<counters, blocks, indexes, private, op, failed, reading>>

BulkGrow ==
    /\ producer = "new" /\ op.kind = "bulk" /\ slotsUsed = Size
    /\ GrowIndex(op.slots0)
    /\ op' = [op EXCEPT !.front0 = op.slots0]
    /\ UNCHANGED <<counters, blocks, tailBlock, slotsUsed, producer, failed, reading>>

BulkNew ==
    /\ producer = "new" /\ op.kind = "bulk" /\ slotsUsed # Size
    /\ Chain(Len(blocks) + 1, Inserted(Offsets))
    /\ slotsUsed' = slotsUsed + 1
    /\ producer' = IF op.need = 1 THEN "front" ELSE "new"
    /\ UNCHANGED <<counters, failed, reading>>

\* No memory for a block or an index, or a full index that try_enqueue_bulk
\* may not grow.  enqueue has nothing to undo; enqueue_bulk undoes, but keeps
\* the blocks it has put into the list.
AllocationFails ==
    /\ producer = "new" /\ ~ failed
    /\ op.kind = "bulk" => BulkMayFail
    /\ failed' = TRUE
    /\ IF op.kind = "bulk"
         THEN /\ front' = op.front0 /\ slotsUsed' = op.slots0
              /\ tailBlock' = IF op.start = 0 /\ op.chain # <<>> THEN op.chain[1] ELSE op.start
         ELSE UNCHANGED private
    /\ producer' = "idle" /\ op' = NoOp
    /\ UNCHANGED <<counters, blocks, indexes, reading>>

BulkFront ==
    /\ producer = "front" /\ op.kind = "bulk"
    /\ blocks' = [b \in DOMAIN blocks |->
                    IF \E k \in DOMAIN op.chain : op.chain[k] = b
                      THEN [blocks[b] EXCEPT !.empty = {}] ELSE blocks[b]]
    /\ indexes' = [indexes EXCEPT ![Len(indexes)].front = (front - 1) % Size]
    /\ producer' = "publish"
    /\ UNCHANGED <<counters, private, op, failed, reading>>

\* The block an item goes to: the tail block, or a later one of the chain.
BlockFor(i) ==
    LET hops == (Base(i) - Base(tail - 1)) \div BlockSize
    IN  IF op.kind = "one" THEN tailBlock
        ELSE IF hops = 0 THEN op.start ELSE op.chain[hops]

\* The items are constructed, and the tail shows them.
Publish ==
    /\ producer = "publish"
    /\ LET last == tail + op.n - 1
       IN  blocks' = Filled(blocks, [i \in tail..last |-> BlockFor(i)], tail, last)
    /\ tail' = tail + op.n
    /\ producer' = "idle" /\ op' = NoOp
    /\ UNCHANGED <<head, optimistic, overcommit, indexes, private, failed, reading>>

-----------------------------------------------------------------------------
\* A consumer.

LoadIndex(c) ==
    /\ At(c, "index", "copy")
    /\ local' = [local EXCEPT ![c].header = Len(indexes),
                              ![c].slot = indexes[Len(indexes)].front]
    /\ UNCHANGED <<counters, blocks, indexes, enqueuing, taken>>

\* A block's entry, counted from the one at the front.
BlockOf(c) ==
    LET header == indexes[local[c].header]
        offset == (Base(local[c].next) - header.entries[local[c].slot].base) \div BlockSize
    IN  header.entries[(local[c].slot + offset) % header.size].block

\* The items of one block, and then its flags.
Copy(c) ==
    /\ At(c, "copy", "release")
    /\ taken' = taken \cup { <<i, IF BlockOf(c) = 0 THEN 0 ELSE
                                     blocks[BlockOf(c)].cells[i % BlockSize]>> :
                             i \in InBlock(c) }
    /\ UNCHANGED <<counters, blocks, indexes, enqueuing, local>>

SetManyEmpty(c) ==
    /\ consumer[c] = "release"
    /\ blocks' = [blocks EXCEPT ![BlockOf(c)].empty = @ \cup
                    { i % BlockSize : i \in InBlock(c) }]
    /\ NextBlock(c, "release", "copy")
    /\ UNCHANGED <<counters, indexes, enqueuing, taken>>

Produce == \/ ReuseBlock \/ NeedBlock \/ NewBlock \/ WriteEntry \/ Continue
           \/ \E n \in 1..MaxBulk : BeginBulk(n)
           \/ BulkReuse \/ BulkNoReuse \/ BulkGrow \/ BulkNew \/ AllocationFails \/ BulkFront
           \/ Publish

Consume(c) == \/ CountItems(c) /\ UNCHANGED <<blocks, indexes, enqueuing>>
              \/ LoadIndex(c) \/ Copy(c) \/ SetManyEmpty(c)

Next == Produce \/ \E c \in Consumers : Consume(c)

Spec == Init /\ [][Next]_vars


-----------------------------------------------------------------------------
(* "guaranteed to be room since we're conceptually removing the last block *)
(* from it first" (concurrentqueue.h:1944): the entry that a block is put  *)
(* into is not one through which items are still to be found.              *)
EntryHasRoom ==
    producer = "entry" =>
        LET old == indexes[Len(indexes)].entries[front]
        IN  \A i \in 0..(tail - 1) : Base(i) = old.base => \E t \in taken : t[1] = i
=============================================================================
