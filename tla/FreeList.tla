------------------------------- MODULE FreeList -------------------------------
(***************************************************************************)
(* The lock-free free list of the vendored queue (tracy/client/            *)
(* concurrentqueue.h, FreeList): a stack whose nodes count the threads that *)
(* may look at them, with a bit that says a node should be on the list; who *)
(* drops the last reference of a node with the bit puts it there.  One     *)
(* step is one access to a shared variable, in a sequentially consistent   *)
(* order.  A thread adds any node it or another one has been handed, as a  *)
(* consumer frees the block that a producer once took.                     *)
(***************************************************************************)
EXTENDS Naturals, FiniteSets

CONSTANTS Adders, Nodes, Null

ShouldBeOnFreeList == 1073741824  \* 2^31 in the code: more than any count of references

VARIABLES
    freeListHead,
    freeListRefs, freeListNext,  \* of each node
    thread,                      \* where each thread is
    at,                          \* its locals: [head, refs, next, node, getting]
    out                          \* the nodes handed out and not added since

list == <<freeListHead, freeListRefs, freeListNext>>
vars == <<list, thread, at, out>>

NoLocals == [head |-> Null, refs |-> 0, next |-> Null, node |-> Null, getting |-> FALSE]

Init ==
    /\ freeListHead = Null
    /\ freeListRefs = [n \in Nodes |-> 0] /\ freeListNext = [n \in Nodes |-> Null]
    /\ thread = [t \in Adders |-> "idle"] /\ at = [t \in Adders |-> NoLocals]
    /\ out = Nodes

Step(t, from, to) == thread[t] = from /\ thread' = [thread EXCEPT ![t] = to]
Return(t) == thread' = [thread EXCEPT ![t] = "idle"] /\ at' = [at EXCEPT ![t] = NoLocals]
Goto(t, to) == thread' = [thread EXCEPT ![t] = to]

\* add: "We know that the should-be-on-freelist bit is 0 at this point".
Add(t, n) ==
    /\ thread[t] = "idle" /\ n \in out
    /\ out' = out \ {n}
    /\ freeListRefs' = [freeListRefs EXCEPT ![n] = @ + ShouldBeOnFreeList]
    /\ IF freeListRefs[n] = 0
         THEN Goto(t, "add_head") /\ at' = [at EXCEPT ![t].node = n]
         ELSE UNCHANGED <<thread, at>>
    /\ UNCHANGED <<freeListHead, freeListNext>>

\* add_knowing_refcount_is_zero
AddLoadHead(t) ==
    /\ Step(t, "add_head", "add_next")
    /\ at' = [at EXCEPT ![t].next = freeListHead]
    /\ UNCHANGED <<list, out>>

AddStoreNext(t) ==
    /\ Step(t, "add_next", "add_refs")
    /\ freeListNext' = [freeListNext EXCEPT ![at[t].node] = at[t].next]
    /\ UNCHANGED <<freeListHead, freeListRefs, at, out>>

AddStoreRefs(t) ==
    /\ Step(t, "add_refs", "add_cas")
    /\ freeListRefs' = [freeListRefs EXCEPT ![at[t].node] = 1]
    /\ UNCHANGED <<freeListHead, freeListNext, at, out>>

\* After it, a get that was interrupted goes on.
AddDone(t) ==
    IF at[t].getting
      THEN Goto(t, "get_loop") /\ at' = [at EXCEPT ![t].node = Null]
      ELSE Return(t)

AddCas(t) ==
    /\ thread[t] = "add_cas"
    /\ \/ freeListHead = at[t].next /\ freeListHead' = at[t].node /\ AddDone(t)
       \/ /\ freeListHead # at[t].next /\ UNCHANGED freeListHead
          /\ Goto(t, "add_undo") /\ at' = [at EXCEPT ![t].next = freeListHead]
    /\ UNCHANGED <<freeListRefs, freeListNext, out>>

\* "we can only try again when the refcount goes back to zero"
LastReference(n) == freeListRefs[n] = 1
AddUndo(t) ==
    /\ thread[t] = "add_undo"
    /\ freeListRefs' = [freeListRefs EXCEPT ![at[t].node] = @ + ShouldBeOnFreeList - 1]
    /\ IF LastReference(at[t].node) THEN Goto(t, "add_next") /\ UNCHANGED at ELSE AddDone(t)
    /\ UNCHANGED <<freeListHead, freeListNext, out>>

\* A node without references must not be touched: it may be put back.
UnreferencedMutant(refs) == FALSE
Unreferenced(refs) == refs % ShouldBeOnFreeList = 0

\* try_get
Get(t) ==
    /\ thread[t] = "idle" /\ freeListHead # Null
    /\ Goto(t, "get_loop")
    /\ at' = [at EXCEPT ![t].head = freeListHead, ![t].getting = TRUE]
    /\ UNCHANGED <<list, out>>

GetReload(t) ==
    /\ Step(t, "get_head", "get_loop")
    /\ at' = [at EXCEPT ![t].head = freeListHead]
    /\ UNCHANGED <<list, out>>

GetLoop(t) ==
    /\ thread[t] = "get_loop"
    /\ IF at[t].head = Null
         THEN Return(t)
         ELSE LET refs == freeListRefs[at[t].head]
              IN  /\ Goto(t, IF Unreferenced(refs) THEN "get_head" ELSE "get_ref")
                  /\ at' = [at EXCEPT ![t].refs = refs]
    /\ UNCHANGED <<list, out>>

GetRef(t) ==
    /\ thread[t] = "get_ref"
    /\ \/ /\ freeListRefs[at[t].head] = at[t].refs
          /\ freeListRefs' = [freeListRefs EXCEPT ![at[t].head] = @ + 1]
          /\ Goto(t, "get_next")
       \/ /\ freeListRefs[at[t].head] # at[t].refs
          /\ Goto(t, "get_head") /\ UNCHANGED freeListRefs
    /\ UNCHANGED <<freeListHead, freeListNext, at, out>>

GetNext(t) ==
    /\ Step(t, "get_next", "get_cas")
    /\ at' = [at EXCEPT ![t].next = freeListNext[at[t].head]]
    /\ UNCHANGED <<list, out>>

GetCas(t) ==
    /\ thread[t] = "get_cas"
    /\ \/ /\ freeListHead = at[t].head
          /\ freeListHead' = at[t].next
          /\ Goto(t, "get_done") /\ UNCHANGED at
       \/ /\ freeListHead # at[t].head /\ UNCHANGED freeListHead
          /\ Goto(t, "get_undo")
          /\ at' = [at EXCEPT ![t].node = at[t].head, ![t].head = freeListHead]
    /\ UNCHANGED <<freeListRefs, freeListNext, out>>

\* "once for our ref, and once for the list's ref"
GetDone(t) ==
    /\ thread[t] = "get_done"
    /\ freeListRefs' = [freeListRefs EXCEPT ![at[t].head] = @ - 2]
    /\ out' = out \cup {at[t].head}
    /\ Return(t)
    /\ UNCHANGED <<freeListHead, freeListNext>>

PutsBackMutant(n) == FALSE
\* The last one to look at a node that should be on the list puts it there.
PutsBack(n) == freeListRefs[n] = ShouldBeOnFreeList + 1
GetUndo(t) ==
    /\ thread[t] = "get_undo"
    /\ freeListRefs' = [freeListRefs EXCEPT ![at[t].node] = @ - 1]
    /\ Goto(t, IF PutsBack(at[t].node) THEN "add_head" ELSE "get_loop")
    /\ UNCHANGED <<freeListHead, freeListNext, at, out>>

Thread(t) == \/ \E n \in Nodes : Add(t, n)
             \/ AddLoadHead(t) \/ AddStoreNext(t) \/ AddStoreRefs(t) \/ AddCas(t) \/ AddUndo(t)
             \/ Get(t) \/ GetReload(t) \/ GetLoop(t) \/ GetRef(t) \/ GetNext(t) \/ GetCas(t)
             \/ GetDone(t) \/ GetUndo(t)

Next == \E t \in Adders : Thread(t)

Spec == Init /\ [][Next]_vars

-----------------------------------------------------------------------------
\* The nodes on the list: the smallest set with the head and each one's next.
Listed == { n \in Nodes : \A S \in SUBSET Nodes :
              (/\ freeListHead # Null => freeListHead \in S
               /\ \A m \in S : freeListNext[m] # Null => freeListNext[m] \in S) => n \in S }
Taken == { at[t].head : t \in { u \in Adders : thread[u] = "get_done" } }

(* A node is handed to one thread at a time: what has been handed out, or  *)
(* is about to be, is not on the list and has not its bit set, so neither  *)
(* a stale next (the ABA problem) nor a double add hands it out again      *)
(* (concurrentqueue.h:1435-1443, with the assertion there).                *)
HandedOutOnce ==
    /\ (out \cup Taken) \cap Listed = {} /\ out \cap Taken = {}
    /\ \A n \in out \cup Taken : freeListRefs[n] < ShouldBeOnFreeList
    /\ \A t, u \in Adders : thread[t] = "get_done" /\ thread[u] = "get_done" =>
                               t = u \/ at[t].head # at[u].head

(* No node is lost: one that is neither out nor on the list is in the      *)
(* hands of a thread that is putting it there, or has its bit set and a    *)
(* thread that still looks at it and will (concurrentqueue.h:1449-1453).   *)
NoneLost ==
    \A n \in Nodes \ (out \cup Taken \cup Listed) :
        \/ \E t \in Adders : thread[t] \in {"add_head", "add_next", "add_refs", "add_cas", "add_undo"}
                              /\ at[t].node = n
        \/ /\ freeListRefs[n] > ShouldBeOnFreeList
           /\ \E t \in Adders : \/ thread[t] \in {"get_next", "get_cas", "get_done"} /\ at[t].head = n
                                \/ thread[t] = "get_undo" /\ at[t].node = n
=============================================================================
