------------------------------ MODULE QueueLife ------------------------------
(***************************************************************************)
(* Lives of the vendored queue's objects (tracy/client/concurrentqueue.h):  *)
(* queues are constructed with a pool of blocks, moved, swapped and         *)
(* destroyed, tokens too, while producers own blocks and blocks own items.  *)
(* Each of these calls needs the queue for itself, so each is one step; how *)
(* threads race in the others is modelled by ExplicitProducer,              *)
(* ImplicitProducer, FreeList, ImplicitHash and ProducerList.               *)
(*                                                                          *)
(* The blocks of an explicit producer are a ring, kept from the oldest to   *)
(* the tail block; those of an implicit one are the entries of its index,   *)
(* and the tail block.  Items are numbered as they are enqueued.            *)
(***************************************************************************)
EXTENDS Integers, SequencesExt, FiniteSetsExt

CONSTANTS
    Queues, Tokens, Threads,
    BlockSize, PoolSize,      \* items of a block; blocks of a queue's pool
    InitialCapacity,          \* INITIAL_IMPLICIT_PRODUCER_HASH_SIZE
    MaxItems, MaxProducers, MaxLives  \* bounds

VARIABLES
    queue,     \* [alive, prods, pool, next, free, chain, count]
    producer,  \* [explicit, parent, token, inactive, alive, head, tail, ring, index]
    block,     \* [done, cells, dynamic, freed]: how often it was freed
    token,     \* its producer, Invalid or Unmade
    table,     \* hash tables: the queues' own, and those allocated
    fate,      \* how often each item was destroyed
    lives      \* how many objects were made, moved, swapped or destroyed

vars == <<queue, producer, block, token, table, fate, lives>>

Invalid == 0
Unmade == -1
None == "none"
NoQueue == [alive |-> FALSE, prods |-> <<>>, pool |-> <<>>, next |-> 0, free |-> <<>>,
            chain |-> <<>>, count |-> 0]
Own(q) == <<"own", q>>
EmptyTable(capacity) == [capacity |-> capacity, entries |-> {}]

Init ==
    /\ queue = [q \in Queues |-> NoQueue]
    /\ producer = <<>> /\ block = <<>>
    /\ token = [k \in Tokens |-> Unmade]
    /\ table = [id \in {Own(q) : q \in Queues} |-> EmptyTable(InitialCapacity)]
    /\ fate = <<>> /\ lives = 0

Live == lives < MaxLives /\ lives' = lives + 1

------------------------------------------------------------------------------
\* Blocks.

Fresh(dynamic) == [done |-> 0, cells |-> [o \in 0..BlockSize - 1 |-> 0],
                   dynamic |-> dynamic, freed |-> 0]

\* The constructor, with populate_initial_block_list.
NewQueue(q) ==
    /\ ~queue[q].alive /\ Live
    /\ block' = block \o [i \in 1..PoolSize |-> Fresh(FALSE)]
    /\ queue' = [queue EXCEPT ![q] = [NoQueue EXCEPT !.alive = TRUE, !.chain = <<Own(q)>>,
                                      !.pool = [i \in 1..PoolSize |-> Len(block) + i]]]
    /\ table' = [table EXCEPT ![Own(q)] = EmptyTable(InitialCapacity)]
    /\ UNCHANGED <<producer, token, fate>>

\* requisition_block: what the queue then is, the block, and all blocks.
Requisitioned(q) ==
    LET Q == queue[q] IN
    IF Q.next < Len(Q.pool)
    THEN [queue |-> [Q EXCEPT !.next = @ + 1], got |-> Q.pool[Q.next + 1], blocks |-> block]
    ELSE IF Q.free # <<>> THEN [queue |-> [Q EXCEPT !.free = Tail(@)], got |-> Head(Q.free), blocks |-> block]
    ELSE [queue |-> Q, got |-> Len(block) + 1, blocks |-> Append(block, Fresh(TRUE))]

Base(i) == i - (i % BlockSize)
BlockAt(P, i) == P.index[CHOOSE e \in DOMAIN P.index : P.index[e].base = Base(i)].block

\* The block for the next item is ready to be written to: [queue, blocks, producer].
Prepared(p) ==
    LET P == producer[p]
        reuse == P.explicit /\ P.ring # <<>> /\ block[Head(P.ring)].done = BlockSize
        more == IF reuse THEN [queue |-> queue[P.parent], got |-> Head(P.ring), blocks |-> block]
                ELSE Requisitioned(P.parent)
        entry == [base |-> P.tail, block |-> more.got]
        kept == IF reuse THEN Tail(P.index) ELSE P.index IN
    IF P.tail % BlockSize # 0 THEN [queue |-> queue[P.parent], blocks |-> block, producer |-> P]
    ELSE [queue |-> more.queue,
          blocks |-> [more.blocks EXCEPT ![more.got].done = 0],
          producer |-> [P EXCEPT !.index = Append(kept, entry),
                                 !.ring = IF ~P.explicit THEN <<more.got>>
                                          ELSE Append(IF reuse THEN Tail(@) ELSE @, more.got)]]

PutItem(p) ==
    LET s == Prepared(p)
        P == s.producer
        item == Len(fate) + 1 IN
    /\ Len(fate) < MaxItems /\ fate' = Append(fate, 0)
    /\ queue' = [queue EXCEPT ![P.parent] = s.queue]
    /\ producer' = [producer EXCEPT ![p] = [P EXCEPT !.tail = @ + 1]]
    /\ block' = [s.blocks EXCEPT ![Last(P.ring)].cells[P.tail % BlockSize] = item]

Enqueue(k) ==
    /\ token[k] > 0 /\ PutItem(token[k])
    /\ UNCHANGED <<token, table, lives>>

\* An item is moved out and destroyed; an implicit producer's block that has
\* none any more is free.
Dequeue(p) ==
    LET P == producer[p]
        b == BlockAt(P, P.head)
        released == ~P.explicit /\ block[b].done = BlockSize - 1
        item == block[b].cells[P.head % BlockSize] IN
    /\ P.alive /\ P.head < P.tail
    /\ fate' = [fate EXCEPT ![item] = @ + 1]
    /\ block' = [block EXCEPT ![b].done = @ + 1]
    /\ producer' = [producer EXCEPT ![p].head = @ + 1,
                       ![p].index = IF released THEN SelectSeq(@, LAMBDA e : e.block # b) ELSE @]
    /\ queue' = IF released THEN [queue EXCEPT ![P.parent].free = <<b>> \o @] ELSE queue
    /\ UNCHANGED <<token, table, lives>>

\* try_dequeue without a token: from the fullest of the first three producers
\* that have items, which here cannot fail.
Size(p) == producer[p].tail - producer[p].head
Filled(q) == SelectSeq(queue[q].prods, LAMBDA p : Size(p) > 0)
Best(q) == LET three == SubSeq(Filled(q), 1, Min({3, Len(Filled(q))}))
               largest == {i \in DOMAIN three : \A j \in DOMAIN three : Size(three[j]) <= Size(three[i])} IN
           three[Min(largest)]
TryDequeue(q) == Filled(q) # <<>> /\ Dequeue(Best(q))
TryDequeueNonInterleaved(q) == Filled(q) # <<>> /\ Dequeue(Head(Filled(q)))
TryDequeueFromProducer(k) == token[k] > 0 /\ Dequeue(token[k])

------------------------------------------------------------------------------
\* Producers and their tokens.

Recyclable(q, explicit) ==
    {i \in DOMAIN queue[q].prods : LET P == producer[queue[q].prods[i]] IN
                                   P.inactive /\ P.explicit = explicit}
NewProducer(q, explicit, k) ==
    [explicit |-> explicit, parent |-> q, token |-> k, inactive |-> FALSE, alive |-> TRUE,
     head |-> 0, tail |-> 0, ring |-> <<>>, index |-> <<>>]

\* recycle_or_create_producer, and what the token's constructor does.
NewToken(k, q) ==
    LET old == Recyclable(q, TRUE)
        p == IF old # {} THEN queue[q].prods[Min(old)] ELSE Len(producer) + 1 IN
    /\ token[k] = Unmade /\ queue[q].alive /\ Live /\ p <= MaxProducers
    /\ token' = [token EXCEPT ![k] = p]
    /\ IF old # {}
       THEN producer' = [producer EXCEPT ![p].inactive = FALSE, ![p].token = k] /\ UNCHANGED queue
       ELSE /\ producer' = Append(producer, NewProducer(q, TRUE, k))
            /\ queue' = [queue EXCEPT ![q].prods = <<p>> \o @]
    /\ UNCHANGED <<block, table, fate>>

DropToken(k) ==
    LET p == token[k] IN
    /\ p # Unmade /\ Live
    /\ token' = [token EXCEPT ![k] = Unmade]
    /\ producer' = IF p = Invalid THEN producer
                   ELSE [producer EXCEPT ![p].token = None, ![p].inactive = TRUE]
    /\ UNCHANGED <<queue, block, table, fate>>

\* The move constructor of a token l.
MoveToken(k, l) ==
    LET p == token[k] IN
    /\ p # Unmade /\ token[l] = Unmade /\ Live
    /\ token' = [token EXCEPT ![l] = p, ![k] = Invalid]
    /\ producer' = IF p = Invalid THEN producer ELSE [producer EXCEPT ![p].token = l]
    /\ UNCHANGED <<queue, block, table, fate>>

\* swap, which is also the assignment.
SwapTokens(k, l) ==
    /\ k # l /\ token[k] # Unmade /\ token[l] # Unmade /\ Live
    /\ token' = [token EXCEPT ![k] = token[l], ![l] = token[k]]
    /\ producer' = [p \in DOMAIN producer |->
                      IF p = token[l] THEN [producer[p] EXCEPT !.token = k]
                      ELSE IF p = token[k] THEN [producer[p] EXCEPT !.token = l] ELSE producer[p]]
    /\ UNCHANGED <<queue, block, table, fate>>

------------------------------------------------------------------------------
\* The tables in which threads find their implicit producers.

Known(q, t) == UNION {{e[2] : e \in {x \in table[queue[q].chain[i]].entries : x[1] = t}} :
                      i \in DOMAIN queue[q].chain}

\* get_or_add_implicit_producer of a thread that has one.
EnqueueKnown(t, q) ==
    LET newest == Head(queue[q].chain) IN
    /\ queue[q].alive /\ \E p \in Known(q, t) :
        /\ PutItem(p)
        /\ table' = [table EXCEPT ![newest].entries = @ \cup {<<t, p>>}]
    /\ UNCHANGED <<token, lives>>

\* Of one that has none: it is added, to a table twice as large if this is half full.
AddImplicit(t, q) ==
    LET p == Len(producer) + 1
        newest == Head(queue[q].chain)
        capacity == table[newest].capacity
        grows == queue[q].count + 1 >= capacity \div 2
        into == IF grows THEN <<"more", Cardinality(DOMAIN table)>> ELSE newest
        old == IF grows THEN EmptyTable(2 * capacity) ELSE table[newest] IN
    /\ queue[q].alive /\ Known(q, t) = {} /\ p <= MaxProducers /\ Live
    /\ producer' = Append(producer, NewProducer(q, FALSE, None))
    /\ queue' = [queue EXCEPT ![q].prods = <<p>> \o @, ![q].count = @ + 1,
                              ![q].chain = IF grows THEN <<into>> \o @ ELSE @]
    /\ table' = [id \in DOMAIN table \cup {into} |->
                   IF id = into THEN [old EXCEPT !.entries = @ \cup {<<t, p>>}] ELSE table[id]]
    /\ UNCHANGED <<block, token, fate>>

\* swap_implicit_producer_hashes: a table that lies in its queue stays there,
\* and its entries are swapped.
ChainOf(c, q) == [c EXCEPT ![Len(c)] = Own(q)]
SwappedTables(a, b) == [table EXCEPT ![Own(a)] = table[Own(b)], ![Own(b)] = table[Own(a)]]

\* Mutant: the producers keep the queue that made them.
ReownedMutant(Q) == producer

\* reown_producers, of some queues.
Reowned(Q) ==
    [p \in DOMAIN producer |->
        IF \E q \in DOMAIN Q : Contains(Q[q].prods, p)
        THEN [producer[p] EXCEPT !.parent = CHOOSE q \in DOMAIN Q : Contains(Q[q].prods, p)]
        ELSE producer[p]]

------------------------------------------------------------------------------
\* Queues.

\* The move constructor of a queue r; the other one is left without a pool.
MoveQueue(q, r) ==
    /\ queue[q].alive /\ ~queue[r].alive /\ Live
    /\ queue' = [queue EXCEPT ![r] = [queue[q] EXCEPT !.chain = ChainOf(@, r)],
                              ![q] = [NoQueue EXCEPT !.alive = TRUE, !.chain = <<Own(q)>>]]
    /\ table' = [table EXCEPT ![Own(r)] = table[Own(q)], ![Own(q)] = EmptyTable(InitialCapacity)]
    /\ producer' = Reowned([x \in {r} |-> queue'[r]])
    /\ UNCHANGED <<block, token, fate>>

\* swap_internal, which is also the assignment.
SwapQueues(a, b) ==
    /\ a # b /\ queue[a].alive /\ queue[b].alive /\ Live
    /\ queue' = [queue EXCEPT ![a] = [queue[b] EXCEPT !.chain = ChainOf(@, a)],
                              ![b] = [queue[a] EXCEPT !.chain = ChainOf(@, b)]]
    /\ table' = SwappedTables(a, b)
    /\ producer' = Reowned([x \in {a, b} |-> queue'[x]])
    /\ UNCHANGED <<block, token, fate>>

\* ~ExplicitProducer: the items it destroys.  The first block that ends behind
\* the head is partly dequeued, if the head is within one.
ExplicitItems(P) ==
    LET half == IF P.head % BlockSize = 0 THEN 0
                ELSE P.index[Min({e \in DOMAIN P.index : P.index[e].base + BlockSize >= P.head})].block
        first(b) == IF b = half THEN P.head % BlockSize ELSE 0
        last(b) == IF b = Last(P.ring) /\ P.tail % BlockSize # 0 THEN P.tail % BlockSize ELSE BlockSize
        full == SelectSeq(P.ring, LAMBDA b : block[b].done < BlockSize) IN
    FlattenSeq([i \in DOMAIN full |->
        [o \in 1..last(full[i]) - first(full[i]) |-> block[full[i]].cells[first(full[i]) + o - 1]]])

\* ~ImplicitProducer: the items, and the blocks it gives back.
ImplicitItems(P) ==
    [i \in 1..P.tail - P.head |-> block[BlockAt(P, P.head + i - 1)].cells[(P.head + i - 1) % BlockSize]]
ImplicitBlocks(P) ==
    LET all == SelectSeq([i \in 1..P.tail - P.head |-> BlockAt(P, P.head + i - 1)],
                         LAMBDA b : b # Last(P.ring)) IN
    (IF P.ring # <<>> /\ (P.head # P.tail \/ P.tail % BlockSize # 0) THEN P.ring ELSE <<>>)
    \o SetToSeq(ToSet(all))

\* The destructor: the producers with their items, then the blocks that are
\* free by now, then the pool.
DestroyQueue(q) ==
    LET Q == queue[q]
        owned == [i \in DOMAIN Q.prods |-> producer[Q.prods[i]]]
        items == FlattenSeq([i \in DOMAIN owned |-> IF owned[i].explicit THEN ExplicitItems(owned[i])
                                                    ELSE ImplicitItems(owned[i])])
        rings == FlattenSeq([i \in DOMAIN owned |-> IF owned[i].explicit THEN owned[i].ring ELSE <<>>])
        given == FlattenSeq([i \in DOMAIN owned |-> IF owned[i].explicit THEN <<>> ELSE ImplicitBlocks(owned[i])])
        dynamic(l) == SelectSeq(l, LAMBDA b : block[b].dynamic)
        freed == dynamic(rings) \o dynamic(given \o Q.free) \o Q.pool IN
    /\ Q.alive /\ Live
    /\ fate' = [i \in DOMAIN fate |-> fate[i] + Cardinality({n \in DOMAIN items : items[n] = i})]
    /\ block' = [b \in DOMAIN block |->
                   [block[b] EXCEPT !.freed = @ + Cardinality({n \in DOMAIN freed : freed[n] = b})]]
    /\ token' = [k \in Tokens |-> IF \E i \in DOMAIN owned : owned[i].token = k THEN Invalid ELSE token[k]]
    /\ producer' = [p \in DOMAIN producer |->
                      IF Contains(Q.prods, p) THEN [producer[p] EXCEPT !.alive = FALSE] ELSE producer[p]]
    /\ queue' = [queue EXCEPT ![q] = NoQueue]
    /\ UNCHANGED table

------------------------------------------------------------------------------
Next ==
    \/ \E q \in Queues : NewQueue(q) \/ DestroyQueue(q) \/ TryDequeue(q) \/ TryDequeueNonInterleaved(q)
    \/ \E q, r \in Queues : MoveQueue(q, r) \/ SwapQueues(q, r)
    \/ \E k \in Tokens : Enqueue(k) \/ TryDequeueFromProducer(k) \/ DropToken(k) \/ \E q \in Queues : NewToken(k, q)
    \/ \E k, l \in Tokens : MoveToken(k, l) \/ SwapTokens(k, l)
    \/ \E t \in Threads, q \in Queues : EnqueueKnown(t, q) \/ AddImplicit(t, q)

Spec == Init /\ [][Next]_vars

------------------------------------------------------------------------------
Alive == {p \in DOMAIN producer : producer[p].alive}
BlocksOf(P) == IF P.explicit THEN P.ring ELSE [e \in DOMAIN P.index |-> P.index[e].block]
\* What a queue answers for: what is left of its pool, what is free, and its producers'.
Held(q) == LET Q == queue[q] IN
           SubSeq(Q.pool, Q.next + 1, Len(Q.pool)) \o Q.free
           \o FlattenSeq([i \in DOMAIN Q.prods |-> BlocksOf(producer[Q.prods[i]])])
Waiting == UNION {{block[BlockAt(producer[p], i)].cells[i % BlockSize] :
                   i \in producer[p].head..producer[p].tail - 1} : p \in Alive}

(* Whatever is moved, swapped or destroyed: a token and its producer know   *)
(* each other and a producer its queue; each block is freed once, with the  *)
(* queue that answers for it then, and not while it is used; each item is   *)
(* destroyed once; and a thread finds its own producer, in this queue       *)
(* (concurrentqueue.h:600-645, 745-945, 1763-1812, 2426-2475, 3012-3090,    *)
(* 3262-3363).                                                              *)
LivesSound ==
    /\ \A k \in Tokens : token[k] > 0 => token[k] \in Alive /\ producer[token[k]].token = k
    /\ \A p \in Alive :
          LET P == producer[p] IN
          /\ queue[P.parent].alive /\ Contains(queue[P.parent].prods, p)
          /\ P.explicit => IF P.inactive THEN P.token = None ELSE token[P.token] = p
    /\ \A q \in Queues : IsInjective(Held(q)) /\ \A p \in ToSet(queue[q].prods) : producer[p].parent = q
    /\ \A b \in DOMAIN block :
          LET holders == {q \in Queues : Contains(Held(q), b)} IN
          /\ block[b].freed = IF holders = {} THEN 1 ELSE 0
          /\ Cardinality(holders) <= 1
          /\ ~block[b].dynamic => \A q \in holders : Contains(queue[q].pool, b)
    /\ \A i \in DOMAIN fate : fate[i] = IF i \in Waiting THEN 0 ELSE 1
    /\ \A q \in Queues : queue[q].alive =>
          /\ Last(queue[q].chain) = Own(q)
          /\ \A t \in Threads : /\ Cardinality(Known(q, t)) <= 1
                                /\ Known(q, t) \subseteq ToSet(queue[q].prods)
=============================================================================
