---------------------------- MODULE ProducerList ----------------------------
(***************************************************************************)
(* How threads come by a producer of the vendored queue and how consumers  *)
(* go round the producers (tracy/client/concurrentqueue.h): the lock-free  *)
(* list, ProducerToken's recycling of an exited thread's producer, and     *)
(* try_dequeue and try_dequeue_bulk on a ConsumerToken with the rotation   *)
(* that its quota brings about.  What one producer holds is the number of  *)
(* its items (ItemQueue, which ExplicitProducer implements); a dequeue     *)
(* from one producer is atomic.                                            *)
(***************************************************************************)
EXTENDS Naturals, Sequences, FiniteSets

CONSTANTS
    Threads,       \* the threads that produce
    Consumers,
    Quota,         \* EXPLICIT_CONSUMER_CONSUMPTION_QUOTA_BEFORE_ROTATE, 256
    OffsetMod,     \* globalExplicitConsumerOffset is a uint32_t
    MaxBulk,       \* the most a bulk dequeue asks for
    MaxPending     \* bound on the items a producer holds

ASSUME ListAssumption == /\ Quota \in Nat \ {0, 1} /\ OffsetMod \in Nat \ {0}
                         /\ MaxBulk \in Nat \ {0} /\ MaxPending \in Nat \ {0}
ASSUME ThreadsAssumption == IsFiniteSet(Threads) /\ IsFiniteSet(Consumers)

Null == 0
Objects == 1..Cardinality(Threads)  \* the producers ever created

VARIABLES
    listTail,      \* producerListTail
    next,          \* next_prod of each producer
    inactive,
    producerCount,
    pending,       \* the items each producer holds
    thread,        \* where each thread is
    at,            \* the producer it looks at, has made, or holds
    globalOffset,
    consumer,      \* where each consumer is
    kind,          \* whether it dequeues one item or in bulk
    token,         \* its ConsumerToken
    call,          \* the locals of its call
    lastServed     \* history: the producer dequeued from last

list == <<listTail, next, inactive, producerCount>>
producing == <<thread, at>>
consuming == <<globalOffset, consumer, kind, token, call, lastServed>>
vars == <<list, pending, producing, consuming>>

None == OffsetMod  \* lastKnownGlobalOffset at first, -1
NoCall == [ptr |-> Null, tail |-> Null, left |-> 0, count |-> 0, listed |-> {}, seen |-> {}]

Init ==
    /\ listTail = Null /\ next = [p \in Objects |-> Null]
    /\ inactive = [p \in Objects |-> FALSE]
    /\ producerCount = 0
    /\ pending = [p \in Objects |-> 0]
    /\ thread = [t \in Threads |-> "out"] /\ at = [t \in Threads |-> Null]
    /\ globalOffset = 0
    /\ consumer = [c \in Consumers |-> "idle"]
    /\ kind \in [Consumers -> {"one", "bulk"}]
    /\ \E rank \in [Consumers -> 0..(Cardinality(Consumers) - 1)] :
         /\ \A c, d \in Consumers : rank[c] = rank[d] => c = d
         /\ token = [c \in Consumers |-> [initial |-> rank[c], known |-> None,
                       consumed |-> 0, current |-> Null, desired |-> Null]]
    /\ call = [c \in Consumers |-> NoCall]
    /\ lastServed = Null

-----------------------------------------------------------------------------
\* recycle_or_create_producer, and the token's destructor.

Goes(t, from, to, p) ==
    /\ thread[t] = from
    /\ thread' = [thread EXCEPT ![t] = to]
    /\ at' = [at EXCEPT ![t] = p]

StartToken(t) ==
    /\ Goes(t, "out", IF listTail = Null THEN "create" ELSE "look", listTail)
    /\ UNCHANGED <<list, pending, consuming>>

Look(t) ==
    /\ thread[t] = "look"
    /\ IF inactive[at[t]]
         THEN Goes(t, "look", "swap", at[t])
         ELSE Goes(t, "look", IF next[at[t]] = Null THEN "create" ELSE "look", next[at[t]])
    /\ UNCHANGED <<list, pending, consuming>>

\* The compare-and-swap of inactive: another thread may have been faster.
RecycleMutant(t) ==
    /\ Goes(t, "swap", "hold", at[t])
    /\ inactive' = [inactive EXCEPT ![at[t]] = FALSE]
    /\ UNCHANGED <<listTail, next, producerCount, pending, consuming>>
Recycle(t) ==
    /\ thread[t] = "swap"
    /\ IF inactive[at[t]]
         THEN Goes(t, "swap", "hold", at[t])
         ELSE Goes(t, "swap", IF next[at[t]] = Null THEN "create" ELSE "look", next[at[t]])
    /\ inactive' = [inactive EXCEPT ![at[t]] = FALSE]
    /\ UNCHANGED <<listTail, next, producerCount, pending, consuming>>

Fresh == { p \in Objects : p # listTail /\ \A q \in Objects : next[q] # p /\ \A t \in Threads : at[t] # p }

\* add_producer: counted, linked to the tail it read, pushed if that is still it.
Create(t) ==
    /\ Goes(t, "create", "push", CHOOSE p \in Fresh : \A q \in Fresh : p <= q)
    /\ producerCount' = producerCount + 1
    /\ next' = [next EXCEPT ![at'[t]] = listTail]
    /\ UNCHANGED <<listTail, inactive, pending, consuming>>

Push(t) ==
    /\ thread[t] = "push"
    /\ IF listTail = next[at[t]]
         THEN /\ listTail' = at[t] /\ Goes(t, "push", "hold", at[t])
              /\ UNCHANGED next
         ELSE next' = [next EXCEPT ![at[t]] = listTail] /\ UNCHANGED <<listTail, producing>>
    /\ UNCHANGED <<inactive, producerCount, pending, consuming>>

Produce(t) ==
    /\ thread[t] = "hold" /\ pending[at[t]] < MaxPending
    /\ pending' = [pending EXCEPT ![at[t]] = @ + 1]
    /\ UNCHANGED <<list, producing, consuming>>

Release(t) ==
    /\ thread[t] = "hold"
    /\ inactive' = [inactive EXCEPT ![at[t]] = TRUE]
    /\ Goes(t, "hold", "out", Null)
    /\ UNCHANGED <<listTail, next, producerCount, pending, consuming>>

-----------------------------------------------------------------------------
\* A consumer.

\* n times to the next producer, and from the last one to the tail.
After(p) == IF next[p] = Null THEN listTail ELSE next[p]
Walked(p, n) ==
    LET step[k \in 0..n] == IF k = 0 THEN p ELSE After(step[k - 1]) IN step[n]

\* update_current_producer_after_rotation
Rotated(tok) ==
    LET home == IF tok.desired = Null
                  THEN Walked(listTail, producerCount - 1 - (tok.initial % producerCount))
                  ELSE tok.desired
        known == IF tok.known = None THEN OffsetMod - 1 ELSE tok.known
        delta == ((globalOffset + OffsetMod - known) % OffsetMod) % producerCount
        there == Walked(home, delta)
    IN  [tok EXCEPT !.desired = there, !.current = there, !.known = globalOffset, !.consumed = 0]

InList(p) == listTail # Null /\ \E n \in 0..Cardinality(Objects) : Walked(listTail, n) = p

Take(p, n) ==
    /\ pending' = [pending EXCEPT ![p] = @ - n]
    /\ lastServed' = IF n > 0 THEN p ELSE lastServed

Taken(p, max) == IF pending[p] < max THEN pending[p] ELSE max

ReachesQuotaMutant(c, tok) == FALSE
ReachesQuota(c, tok) == IF kind[c] = "one" THEN tok.consumed = Quota ELSE tok.consumed >= Quota

\* The token's own producer first.
Begin(c, max) ==
    /\ consumer[c] = "idle" /\ listTail # Null
    /\ kind[c] = "one" => max = 1
    /\ LET tok == IF token[c].desired = Null \/ token[c].known # globalOffset
                    THEN Rotated(token[c]) ELSE token[c]
           n == Taken(tok.current, max)
           after == [tok EXCEPT !.consumed = IF kind[c] = "bulk" /\ @ + n > Quota THEN Quota ELSE @ + n]
       IN  /\ Take(tok.current, n)
           /\ token' = [token EXCEPT ![c] = after]
           /\ globalOffset' = IF n = max /\ ReachesQuota(c, after)
                                THEN (globalOffset + 1) % OffsetMod ELSE globalOffset
           /\ consumer' = [consumer EXCEPT ![c] = IF n = max THEN "idle" ELSE "round"]
           /\ call' = [call EXCEPT ![c] = IF n = max THEN NoCall ELSE
                [ptr |-> After(tok.current), tail |-> listTail, left |-> max - n, count |-> n,
                 listed |-> { p \in Objects : InList(p) }, seen |-> {tok.current}]]
    /\ UNCHANGED <<list, producing, kind>>

\* Then the others, round to it again.
Round(c) ==
    /\ consumer[c] = "round"
    /\ call[c].ptr # token[c].current
    /\ LET p == call[c].ptr
           n == Taken(p, call[c].left)
       IN  /\ Take(p, n)
           /\ token' = IF n = 0 THEN token
                       ELSE [token EXCEPT ![c].current = p, ![c].consumed = n]
           /\ call' = [call EXCEPT ![c].ptr = IF next[p] = Null THEN call[c].tail ELSE next[p],
                ![c].left = @ - n, ![c].count = @ + n,
                ![c].seen = IF n < call[c].left THEN @ \cup {p} ELSE @]
           /\ consumer' = [consumer EXCEPT ![c] = IF n = call[c].left THEN "done" ELSE "round"]
    /\ UNCHANGED <<list, producing, globalOffset, kind>>

RoundEndsMutant(c) ==
    /\ consumer[c] = "round"
    /\ call[c].ptr = call[c].tail
    /\ consumer' = [consumer EXCEPT ![c] = "done"]
    /\ UNCHANGED <<list, pending, producing, globalOffset, kind, token, call, lastServed>>
RoundEnds(c) ==
    /\ consumer[c] = "round"
    /\ call[c].ptr = token[c].current
    /\ consumer' = [consumer EXCEPT ![c] = "done"]
    /\ UNCHANGED <<list, pending, producing, globalOffset, kind, token, call, lastServed>>

Return(c) ==
    /\ consumer[c] = "done"
    /\ consumer' = [consumer EXCEPT ![c] = "idle"]
    /\ call' = [call EXCEPT ![c] = NoCall]
    /\ UNCHANGED <<list, pending, producing, globalOffset, kind, token, lastServed>>

Thread(t) == StartToken(t) \/ Look(t) \/ Recycle(t) \/ Create(t) \/ Push(t) \/ Produce(t) \/ Release(t)
Consumer(c) == (\E max \in {1, MaxBulk} : Begin(c, max)) \/ Round(c) \/ RoundEnds(c) \/ Return(c)

Next == (\E t \in Threads : Thread(t)) \/ (\E c \in Consumers : Consumer(c))

Spec == Init /\ [][Next]_vars

\* Consumers that poll, as Tracy's worker does; nothing is asked of the threads.
FairSpec == Spec /\ \A c \in Consumers : WF_vars(Consumer(c))

-----------------------------------------------------------------------------
(* A producer is held by one thread at a time: two that find an exited     *)
(* thread's producer, or push at once, never share it, and no producer is  *)
(* lost from the list (concurrentqueue.h:3201-3259).                       *)
OneOwner ==
    /\ \A t, u \in Threads : thread[t] = "hold" /\ thread[u] = "hold" /\ at[t] = at[u] => t = u
    /\ \A t \in Threads : thread[t] = "hold" => InList(at[t]) /\ ~ inactive[at[t]]

(* "Returns 0 if all producer streams appeared empty at the time they were *)
(* checked" (concurrentqueue.h:1193): a call that brings nothing has found *)
(* every producer empty that was on the list when it began, wherever on    *)
(* the ring it started and whatever was pushed meanwhile.                  *)
NothingMeansAllEmpty ==
    \A c \in Consumers : consumer[c] = "done" /\ call[c].count = 0 => call[c].listed \subseteq call[c].seen

(* No producer is starved by others that are never empty: the rotation     *)
(* comes round to it (concurrentqueue.h:1133-1137).                        *)
NoProducerStarves == \A p \in Objects : pending[p] > 0 ~> lastServed = p
=============================================================================
