----------------------------- MODULE BlockHeap -----------------------------
(***************************************************************************)
(* Blocks in the spans of rpmalloc's heaps (tracy/client/tracy_rpmalloc.cpp *)
(* 846-872, 1037-1139, 1235-1401).  A span holds the blocks of one class.   *)
(* Its free ones are a list of indices kept in their first words, followed  *)
(* by those never used yet, which need no list (first_autolink); the        *)
(* counters of a heap's active span are in the heap, those of the others in *)
(* the spans.  A block freed by another thread is deferred to its heap.     *)
(*                                                                          *)
(* Thread t has heap t; SpanHeap models how heaps change their threads and  *)
(* where spans come from, of which only this remains here: the pool is of   *)
(* spans nobody uses.  A call only touches its own heap, but for the two    *)
(* lists that threads share, so each is one step.                           *)
(***************************************************************************)
EXTENDS Integers, SequencesExt, FiniteSetsExt

CONSTANTS
    Threads,
    Spans,       \* their number
    MaxCalls,    \* a bound
    BlockCount,  \* the number of blocks in a span, by class
    Junk         \* a word that is no index: what a user or another list wrote

Classes == DOMAIN BlockCount
MaxBlocks == Max({BlockCount[c] : c \in Classes})

VARIABLES
    span,    \* the headers
    word,    \* the first word of each block
    heap,    \* active_block, active_span and size_cache by class, defer_deallocate
    pool,    \* the spans in no heap
    held,    \* the blocks users have
    calls    \* how many calls there were

vars == <<span, word, heap, pool, held, calls>>

None == 0
Init ==
    /\ span = [s \in 1..Spans |-> [class |-> 1, heap |-> None, list |-> 0, auto |-> 0, count |-> 0,
                                   next |-> None, prev |-> None]]
    /\ word = [s \in 1..Spans |-> [b \in 0..MaxBlocks - 1 |-> Junk]]
    /\ heap = [t \in Threads |-> [block |-> [c \in Classes |-> [list |-> 0, auto |-> 0, count |-> 0]],
                                  active |-> [c \in Classes |-> None],
                                  partly |-> [c \in Classes |-> None],
                                  dealloc |-> <<>>]]
    /\ pool = 1..Spans /\ held = {} /\ calls = 0

\* What a call works on: its heap hp and what spans it may reach.
Memory(t) == [hp |-> heap[t], span |-> span, word |-> word, pool |-> pool]

\* Mutant: the old head is not linked back.
LinkAddMutant(m, c, s) ==
    [m EXCEPT !.span[s].next = m.hp.partly[c], !.hp.partly[c] = s]

\* _memory_span_list_doublelink_add: the span's own prev_span keeps its value.
LinkAdd(m, c, s) ==
    LET head == m.hp.partly[c] IN
    [m EXCEPT !.span = [i \in DOMAIN @ |->
                  IF i = s THEN [@[i] EXCEPT !.next = head]
                  ELSE IF i = head THEN [@[i] EXCEPT !.prev = s] ELSE @[i]],
              !.hp.partly[c] = s]

\* _memory_span_list_doublelink_remove.
LinkRemove(m, c, s) ==
    LET next == m.span[s].next
        prev == m.span[s].prev IN
    IF m.hp.partly[c] = s THEN [m EXCEPT !.hp.partly[c] = next]
    ELSE [m EXCEPT !.span = [i \in DOMAIN @ |->
                       CASE i = prev -> [@[i] EXCEPT !.next = next]
                         [] i = next /\ i # prev -> [@[i] EXCEPT !.prev = prev]
                         [] OTHER -> @[i]]]

\* _memory_deallocate_to_heap of block blk = <<span, index>>.
ToHeap(m, blk) ==
    LET s == blk[1]
        c == m.span[s].class
        active == m.hp.active[c] = s
        count == IF active THEN m.hp.block[c].count ELSE m.span[s].count
        list == IF active THEN m.hp.block[c].list ELSE m.span[s].list
        emptied == IF active THEN [m EXCEPT !.hp.block[c].count = 0]
                   ELSE IF count > 0 THEN LinkRemove(m, c, s) ELSE m
        added == IF count > 0 THEN m
                 ELSE IF active THEN [LinkAdd(m, c, s) EXCEPT !.hp.block[c].auto = BlockCount[c]]
                 ELSE [LinkAdd(m, c, s) EXCEPT !.span[s].auto = BlockCount[c]]
        written == [added EXCEPT !.word[s][blk[2]] = list] IN
    IF count = BlockCount[c] - 1 THEN [emptied EXCEPT !.pool = @ \cup {s}]
    ELSE IF active THEN [written EXCEPT !.hp.block[c].count = @ + 1, !.hp.block[c].list = blk[2]]
    ELSE [written EXCEPT !.span[s].count = @ + 1, !.span[s].list = blk[2]]

\* _memory_deallocate_deferred.
Deferred(m) == FoldLeft(ToHeap, [m EXCEPT !.hp.dealloc = <<>>], m.hp.dealloc)

\* A block of the active span, and what is left.
FirstFree(m, c) == <<m.hp.active[c], m.hp.block[c].list>>
Taken(m, c) ==
    LET s == m.hp.active[c]
        b == m.hp.block[c] IN
    IF b.count = 1
    THEN [m EXCEPT !.hp.block[c].count = 0, !.hp.active[c] = None,
                   !.span[s].count = 0, !.span[s].auto = BlockCount[c]]
    ELSE IF b.list < b.auto
    THEN [m EXCEPT !.hp.block[c] = [b EXCEPT !.count = @ - 1, !.list = m.word[s][b.list]]]
    ELSE [m EXCEPT !.hp.block[c] = [list |-> b.list + 1, auto |-> b.auto + 1, count |-> b.count - 1]]

\* A partly used span becomes the active one, with its counters.
Promoted(t, m, c) ==
    LET s == m.hp.partly[c] IN
    [m EXCEPT !.hp.block[c] = [list |-> m.span[s].list, auto |-> m.span[s].auto, count |-> m.span[s].count],
              !.hp.partly[c] = m.span[s].next, !.hp.active[c] = s, !.span[s].heap = t]

\* A span from the pool gives its first block.
Fresh(t, m, c, s) ==
    LET mine == [m EXCEPT !.pool = @ \ {s}, !.span[s].class = c, !.span[s].heap = t] IN
    IF BlockCount[c] > 1
    THEN [mine EXCEPT !.hp.block[c] = [list |-> 1, auto |-> 1, count |-> BlockCount[c] - 1],
                      !.hp.active[c] = s]
    ELSE [mine EXCEPT !.span[s].count = 0, !.span[s].auto = BlockCount[c]]

\* The call returns block blk; its user writes where the list's word was.
Return(t, m, blk) ==
    /\ heap' = [heap EXCEPT ![t] = m.hp]
    /\ span' = m.span /\ pool' = m.pool
    /\ word' = [m.word EXCEPT ![blk[1]][blk[2]] = Junk]
    /\ held' = held \cup {blk}

\* The heap with a block of class c at hand, if it has one: after what was
\* deferred to it, from the first of its partly used spans.
Ready(t, m, c) ==
    IF m.hp.block[c].count > 0 THEN m
    ELSE LET after == Deferred(m) IN
         IF after.hp.block[c].count > 0 \/ after.hp.partly[c] = None THEN after
         ELSE Promoted(t, after, c)

Allocate(t, c) ==
    LET m == Ready(t, Memory(t), c) IN
    \/ m.hp.block[c].count > 0 /\ Return(t, Taken(m, c), FirstFree(m, c))
    \/ m.hp.block[c].count = 0 /\ \E s \in m.pool : Return(t, Fresh(t, m, c, s), <<s, 0>>)

\* _memory_deallocate: to the own heap, or deferred, through the block's first word.
Free(t, blk) ==
    LET owner == span[blk[1]].heap IN
    /\ blk \in held /\ held' = held \ {blk}
    /\ \/ /\ owner = t
          /\ LET m == ToHeap(Memory(t), blk) IN
             heap' = [heap EXCEPT ![t] = m.hp] /\ span' = m.span /\ word' = m.word /\ pool' = m.pool
       \/ /\ owner # t
          /\ heap' = [heap EXCEPT ![owner].dealloc = <<blk>> \o @]
          /\ word' = [word EXCEPT ![blk[1]][blk[2]] = Junk]
          /\ UNCHANGED <<span, pool>>

Call == calls < MaxCalls /\ calls' = calls + 1

Next == \E t \in Threads : \/ \E c \in Classes : Call /\ Allocate(t, c)
                           \/ \E blk \in held : Call /\ Free(t, blk)

Spec == Init /\ [][Next]_vars

------------------------------------------------------------------------------
\* The free blocks of a span as its heap would hand them out.
FreeList(b, s) ==
    FoldLeft(LAMBDA f, i : [out |-> Append(f.out, f.list),
                            list |-> IF f.list >= f.auto THEN f.list + 1 ELSE word[s][f.list],
                            auto |-> IF f.list >= f.auto THEN f.auto + 1 ELSE f.auto],
             [out |-> <<>>, list |-> b.list, auto |-> b.auto], [i \in 1..b.count |-> i]).out

\* The spans of a heap's list of partly used ones, from the head on.
Partly(t, c) ==
    FoldLeft(LAMBDA l, i : IF l # <<>> /\ Last(l) # None THEN Append(l, span[Last(l)].next) ELSE l,
             <<heap[t].partly[c]>>, [i \in 1..Spans + 1 |-> i])

DeferredBlocks == UNION {{heap[t].dealloc[i] : i \in DOMAIN heap[t].dealloc} : t \in Threads}

BlocksOf(S, s) == {blk[2] : blk \in {b \in S : b[1] = s}}

\* Of span s: each block is in one place, and those that are free can be had.
SpanExact(s) ==
    LET h == heap[span[s].heap]
        c == span[s].class
        active == h.active[c] = s
        free == FreeList(IF active THEN h.block[c] ELSE span[s], s)
        places == <<ToSet(free), BlocksOf(held, s), BlocksOf(DeferredBlocks, s)>> IN
    /\ IsInjective(free)
    /\ UNION Range(places) = 0..BlockCount[c] - 1
    /\ \A i, j \in 1..3 : i # j => places[i] \cap places[j] = {}
    /\ ~active => (free # <<>> <=> Contains(Partly(span[s].heap, c), s))

(* Every block is with one user, deferred once or free once, and a heap's   *)
(* lists lead to each free one and to no other; a span is given up when all *)
(* its blocks are free and not before (tracy_rpmalloc.cpp:848-871,          *)
(* 1053-1132, 1236-1281, 1314-1350).                                        *)
BlocksExact ==
    /\ \A s \in pool : BlocksOf(held \cup DeferredBlocks, s) = {}
    /\ \A s \in 1..Spans \ pool : SpanExact(s)
    /\ \A t \in Threads, c \in Classes :
          LET l == Partly(t, c) IN
          /\ IsInjective(l) /\ Last(l) = None
          /\ \A s \in ToSet(l) \ {None} : s \notin pool /\ span[s].class = c /\ span[s].heap = t
=============================================================================
