------------------------------ MODULE VkContext ------------------------------
(***************************************************************************)
(* The pool of timestamp queries of a Vulkan context (tracy/               *)
(* TracyVulkan.hpp: VkCtx, VkCtxScope).  What the thread records, writes   *)
(* and resets, the GPU executes later and in order; Collect reads the pool *)
(* as it is meanwhile.  A query is known by its number.                    *)
(***************************************************************************)
EXTENDS Session, Integers, SequencesExt

CONSTANTS QueryCount,
          MaxScopes, MaxQueries  \* bounds: scopes open at a time, queries

VARIABLES
    head, tail, oldCnt,  \* m_head, m_tail, m_oldCnt
    pool,      \* m_query: the number written in each place, 0 if it is reset
    commands,  \* recorded and not executed: [place, number] or [first, cnt]
    issued,
    next,      \* history: the query that is collected next
    wrong,     \* history: a time was sent that is not of that query
    open       \* m_active of the scopes open

ring == <<head, tail, oldCnt, issued, next, wrong>>
gpu == <<pool, commands>>
vars == <<session, ring, gpu, open>>

Places == 0 .. QueryCount - 1
Write(p, n) == [place |-> p, number |-> n]
Resets(first, cnt) == [first |-> first, cnt |-> cnt]
IsReset(c) == "cnt" \in DOMAIN c
Span(first, cnt) == first .. first + cnt - 1

Init ==
    /\ InitSession
    /\ head = 0 /\ tail = 0 /\ oldCnt = 0
    /\ pool = [p \in Places |-> 0] /\ commands = <<>>
    /\ issued = 0 /\ next = 1 /\ wrong = FALSE
    /\ open = <<>>

\* NextQueryId, whose assertion stops the thread, and the command to write it.
NextQueryId ==
    /\ issued < MaxQueries /\ (head + 1) % QueryCount # tail
    /\ head' = (head + 1) % QueryCount
    /\ issued' = issued + 1
    /\ commands' = Append(commands, Write(head, issued + 1))
    /\ UNCHANGED <<tail, oldCnt, next, wrong, pool>>

ScopeBegin ==
    /\ Len(open) < MaxScopes
    /\ open' = Append(open, isConnected)
    /\ IF isConnected THEN NextQueryId ELSE UNCHANGED <<ring, gpu>>
    /\ UNCHANGED session

ScopeEnd ==
    /\ open # <<>>
    /\ open' = Front(open)
    /\ IF Last(open) THEN NextQueryId ELSE UNCHANGED <<ring, gpu>>
    /\ UNCHANGED session

Execute ==
    /\ commands # <<>> /\ commands' = Tail(commands)
    /\ LET c == Head(commands)
       IN  pool' = IF IsReset(c)
                     THEN [p \in Places |-> IF p \in Span(c.first, c.cnt) THEN 0 ELSE pool[p]]
                     ELSE [pool EXCEPT ![c.place] = c.number]
    /\ UNCHANGED <<session, ring, open>>

-----------------------------------------------------------------------------
\* Collect.

Disconnected ==
    /\ tail # head /\ ~ isConnected
    /\ commands' = Append(commands, Resets(0, QueryCount))
    /\ head' = 0 /\ tail' = 0 /\ next' = issued + 1
    /\ UNCHANGED <<session, oldCnt, issued, wrong, pool, open>>

\* As many as before, if they were not ready; else all up to the ring's end.
Count == IF oldCnt # 0 THEN oldCnt
         ELSE IF head < tail THEN QueryCount - tail ELSE head - tail

Ready == \A p \in Span(tail, Count) : pool[p] # 0

NotReady ==
    /\ tail # head /\ isConnected /\ ~ Ready
    /\ oldCnt' = Count
    /\ UNCHANGED <<session, head, tail, issued, next, wrong, gpu, open>>

\* The GPU has still to execute a reset of the place.
Stale(p) == \E i \in DOMAIN commands :
                IsReset(commands[i]) /\ p \in Span(commands[i].first, commands[i].cnt)

\* The ring has not been taken past its head since it was last reset.
Kept == issued + 1 - next = (head - tail) % QueryCount

WrongTime ==
    /\ Kept
    /\ \E k \in 0 .. Count - 1 : pool[tail + k] # next + k /\ ~ Stale(tail + k)

AfterCollectMutant(cnt) == commands
AfterCollect(cnt) == Append(commands, Resets(tail, cnt))
Collect ==
    /\ tail # head /\ isConnected /\ Ready
    /\ wrong' = (wrong \/ WrongTime)
    /\ oldCnt' = 0
    /\ commands' = AfterCollect(Count)
    /\ tail' = IF tail + Count = QueryCount THEN 0 ELSE tail + Count
    /\ next' = next + Count
    /\ UNCHANGED <<session, head, issued, pool, open>>

Worker ==
    /\ \/ Accept \/ Connect \/ Welcome \/ Disconnect \/ \E t \in Threads : ClearQueue(t)
    /\ UNCHANGED <<ring, gpu, open>>

Next == \/ Worker \/ ScopeBegin \/ ScopeEnd \/ Execute
        \/ Disconnected \/ NotReady \/ Collect

Spec == Init /\ [][Next]_vars

-----------------------------------------------------------------------------
(* The times are sent in the order of the queries, each once, though       *)
(* m_oldCnt survives the reset of the ring: the first time that is another *)
(* query's, or none's, is one whose place the GPU has yet to reset         *)
(* (TracyVulkan.hpp:135-195).                                              *)
VkTimesInOrder == ~ wrong
=============================================================================
