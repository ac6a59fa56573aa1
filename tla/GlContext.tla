------------------------------ MODULE GlContext ------------------------------
(***************************************************************************)
(* The ring of timestamp queries of an OpenGL context (tracy/              *)
(* TracyOpenGL.hpp: GpuCtx, GpuCtxScope).  One thread issues the queries   *)
(* and collects their results; the GPU finishes them in order meanwhile,   *)
(* and asking for a result that is not there would wait for it.  A query   *)
(* is known by its number, counted from the first.                         *)
(***************************************************************************)
EXTENDS Session, Integers, SequencesExt

CONSTANTS QueryCount,
          MaxScopes, MaxQueries  \* bounds: scopes open at a time, queries

VARIABLES
    head, tail,     \* m_head, m_tail
    query,          \* m_query: the number last issued in each place
    issued, finished,  \* by the thread, and by the GPU
    next,           \* history: the query that is collected next
    open,           \* m_active of the scopes open
    at, start, end  \* Collect and its locals

ring == <<head, tail, query, issued, next>>
collecting == <<at, start, end>>
vars == <<session, ring, finished, open, collecting>>

Places == 0 .. QueryCount - 1
Wrap(n) == n % QueryCount

Init ==
    /\ InitSession
    /\ head = 0 /\ tail = 0 /\ query = [p \in Places |-> 0]
    /\ issued = 0 /\ finished = 0 /\ next = 1
    /\ open = <<>>
    /\ at = "out" /\ start = 0 /\ end = 0

-----------------------------------------------------------------------------
\* Scopes. NextQueryId asserts that the ring has room.

NextQueryId ==
    /\ issued < MaxQueries /\ Wrap(head + 1) # tail
    /\ head' = Wrap(head + 1)
    /\ issued' = issued + 1
    /\ query' = [query EXCEPT ![head] = issued + 1]
    /\ UNCHANGED <<tail, next>>

ScopeBegin ==
    /\ at = "out" /\ Len(open) < MaxScopes
    /\ open' = Append(open, isConnected)
    /\ IF isConnected THEN NextQueryId ELSE UNCHANGED ring
    /\ UNCHANGED <<session, finished, collecting>>

ScopeEnd ==
    /\ at = "out" /\ open # <<>>
    /\ open' = Front(open)
    /\ IF Last(open) THEN NextQueryId ELSE UNCHANGED ring
    /\ UNCHANGED <<session, finished, collecting>>

Finish ==
    /\ finished < issued /\ finished' = finished + 1
    /\ UNCHANGED <<session, ring, open, collecting>>

-----------------------------------------------------------------------------
\* Collect: a binary search for the queries that are finished, then each.

Available(p) == query[Wrap(p)] <= finished

Collect ==
    /\ at = "out" /\ tail # head /\ isConnected
    /\ at' = "search" /\ start' = tail /\ end' = head + QueryCount
    /\ UNCHANGED <<session, ring, finished, open>>

Reset ==
    /\ at = "out" /\ tail # head /\ ~ isConnected
    /\ head' = 0 /\ tail' = 0 /\ next' = issued + 1
    /\ UNCHANGED <<session, query, issued, finished, open, collecting>>

Probe ==
    /\ at = "search" /\ Wrap(end - start) > 1
    /\ LET mid == start + Wrap(end - start) \div 2
       IN  IF Available(mid) THEN start' = mid /\ UNCHANGED end
                             ELSE end' = mid /\ UNCHANGED start
    /\ UNCHANGED <<session, ring, finished, open, at>>

FoundMutant == Wrap(end)
Found == Wrap(start)
Searched ==
    /\ at = "search" /\ Wrap(end - start) <= 1
    /\ at' = "read" /\ start' = Found
    /\ UNCHANGED <<session, ring, finished, open, end>>

Read ==
    /\ at = "read" /\ tail # start
    /\ tail' = Wrap(tail + 1) /\ next' = next + 1
    /\ UNCHANGED <<session, head, query, issued, finished, open, collecting>>

Collected ==
    /\ at = "read" /\ tail = start
    /\ at' = "out" /\ start' = 0 /\ end' = 0
    /\ UNCHANGED <<session, ring, finished, open>>

Worker ==
    /\ \/ Accept \/ Connect \/ Welcome \/ Disconnect \/ \E t \in Threads : ClearQueue(t)
    /\ UNCHANGED <<ring, finished, open, collecting>>

Next == \/ Worker \/ ScopeBegin \/ ScopeEnd \/ Finish
        \/ Collect \/ Reset \/ Probe \/ Searched \/ Read \/ Collected

Spec == Init /\ [][Next]_vars

-----------------------------------------------------------------------------
Between(from, to) == { Wrap(from + k) : k \in 0 .. Wrap(to - from) - 1 }

(* The results come in the order of the queries, none twice and none left  *)
(* out but by a reset, and none is asked for before the GPU has finished   *)
(* it, whatever the GPU finishes during the search                         *)
(* (TracyOpenGL.hpp:99-160).                                               *)
GlTimesInOrder ==
    /\ Wrap(head - tail) = issued + 1 - next
    /\ \A k \in 0 .. issued - next : query[Wrap(tail + k)] = next + k
    /\ at = "read" => \A p \in Between(tail, start) : Available(p)
=============================================================================
