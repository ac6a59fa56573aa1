------------------------------ MODULE SpanHeap ------------------------------
(***************************************************************************)
(* Where rpmalloc keeps spans of memory (tracy/client/tracy_rpmalloc.cpp).  *)
(* A thread's heap caches free spans by their size, a global cache takes    *)
(* what overflows, and what is mapped ahead is reserved.  A run of spans    *)
(* that was split is one mapping still: its first span, the master, counts  *)
(* the spans that remain, and only the thread of the master's heap may      *)
(* change that count, so others defer their unmapping to it.  A block that  *)
(* another thread frees is deferred to its heap as well, and the heap of a  *)
(* thread that exits waits for the next one.                                *)
(*                                                                          *)
(* Memory is counted in spans (64 KiB) at addresses that the system never   *)
(* reuses; a small block is a span of its own here (BlockHeap models the    *)
(* blocks in one).  The limits of the caches are constants: those of the    *)
(* code grow with the number of allocations.  A loop that swaps a list's    *)
(* head is one step.                                                        *)
(***************************************************************************)
EXTENDS Integers, SequencesExt, FiniteSetsExt

CONSTANTS
    Threads,
    MaxHeaps, MaxUnits, MaxCalls,  \* bounds: heaps, spans mapped in all, calls
    MapCount,             \* DEFAULT_SPAN_MAP_COUNT
    Counts,               \* LARGE_CLASS_COUNT
    CacheLimit,           \* by count: MIN_*SPAN_CACHE_RELEASE + MIN_*SPAN_CACHE_SIZE
    GlobalLimit,          \* MAX_GLOBAL_CACHE_MULTIPLIER * MIN_*SPAN_CACHE_SIZE
    ExitChunk             \* MIN_*SPAN_CACHE_RELEASE

VARIABLES
    header,     \* the flags and the heap of the span that begins at an address
    mapped,     \* the addresses of mapped memory
    fresh,      \* the next address the system maps
    heap, heaps,        \* the heaps and how many there are
    calls,      \* how many calls there were
    live,               \* those _memory_heap_lookup finds
    orphans,
    global, size,       \* the global cache and its counter, by count
    used,       \* the spans in use
    th,         \* what each thread is doing
    finalizing, \* rpmalloc_finalize has begun
    raced       \* a thread has changed the count of another's master

vars == <<header, mapped, fresh, heap, heaps, calls, live, orphans, global, size, used, th, finalizing, raced>>

NoLists == [n \in 1..Counts |-> <<>>]
NewHeap == [cache |-> NoLists, reserve |-> 0, reserved |-> 0, master |-> 0,
            dealloc |-> <<>>, unmap |-> <<>>]
\* hp: the heap of the call; got: the span found; dq, uq: the deferred blocks
\* and unmaps taken; wq: the spans to unmap, for the heap by; owe: the count
\* and the number to subtract from the global cache's size afterwards.
Idle == [at |-> "idle", hp |-> 0, want |-> 0, got |-> 0, dq |-> <<>>, uq |-> <<>>,
         wq |-> <<>>, by |-> 0, checked |-> FALSE, owe |-> <<1, 0>>]

Init ==
    /\ header = [s \in 1..MaxUnits |-> [flags |-> {}, rd |-> 1, count |-> 1, heap |-> 0]]
    /\ mapped = {} /\ fresh = 1
    /\ heap = [h \in 1..MaxHeaps |-> NewHeap] /\ heaps = 0 /\ calls = 0 /\ live = {} /\ orphans = <<>>
    /\ global = NoLists /\ size = [n \in 1..Counts |-> 0]
    /\ used = {}
    /\ th = [t \in Threads |-> Idle]
    /\ finalizing = FALSE /\ raced = FALSE

------------------------------------------------------------------------------
\* Spans and their flags.

Units(s) == s..(s + header[s].count - 1)
Master(s) == IF "sub" \in header[s].flags /\ "master" \notin header[s].flags
             THEN s - header[s].rd ELSE s

\* Mutant: a new master counts the spans that are used.
ResizedMutant(hd, h, use) ==
    IF hd.flags = {}
    THEN [flags |-> {"master"}, rd |-> use, count |-> use, heap |-> h]
    ELSE [hd EXCEPT !.count = use]

\* What becomes of a span's flags when heap h keeps only its first use spans.
Resized(hd, h, use) ==
    IF hd.flags = {}
    THEN [flags |-> {"master"}, rd |-> hd.count, count |-> use, heap |-> h]
    ELSE [hd EXCEPT !.count = use]

\* _memory_set_span_remainder_as_reserved, of the heap's side.
Reserving(hp, s, use) ==
    [hp EXCEPT !.reserve = s + use, !.reserved = header[s].count - use, !.master = Master(s)]

\* Mutant: the batch is cut from the list one span too late.
PushedMutant(hp, s, n) ==
    LET list == <<s>> \o hp.cache[n] IN
    IF Len(list) <= CacheLimit[n] THEN [kept |-> list, batch |-> <<>>]
    ELSE [kept |-> SubSeq(list, CacheLimit[n], Len(list)),
          batch |-> SubSeq(list, 1, CacheLimit[n])]

\* _memory_heap_cache_insert: the list that stays and the batch that goes on.
Pushed(hp, s, n) ==
    LET list == <<s>> \o hp.cache[n] IN
    IF Len(list) <= CacheLimit[n] THEN [kept |-> list, batch |-> <<>>]
    ELSE [kept |-> SubSeq(list, CacheLimit[n] + 1, Len(list)),
          batch |-> SubSeq(list, 1, CacheLimit[n])]

\* _memory_cache_insert of a batch of n-spans, on behalf of heap h: what the
\* global cache refuses is unmapped, and counted in its size until then.
InsertGlobal(t, batch, n, h, next) ==
    IF size[n] + Len(batch) > GlobalLimit
    THEN /\ th' = [th EXCEPT ![t] = [next EXCEPT !.wq = batch, !.by = h, !.owe = <<n, Len(batch)>>]]
         /\ size' = [size EXCEPT ![n] = @ + Len(batch)]
         /\ UNCHANGED global
    ELSE /\ th' = [th EXCEPT ![t] = next]
         /\ size' = [size EXCEPT ![n] = @ + Len(batch)]
         /\ global' = [global EXCEPT ![n] = <<batch>> \o @]

\* The same for the batch that _memory_heap_cache_insert may have.
Overflow(t, batch, n, next) ==
    IF batch = <<>> THEN th' = [th EXCEPT ![t] = next] /\ UNCHANGED <<global, size>>
    ELSE InsertGlobal(t, batch, n, th[t].hp, next)

------------------------------------------------------------------------------
\* Where a thread is: unmapping, in one of the two loops, or between them.

Unmapping(t) == th[t].wq # <<>>
InUnmaps(t) == th[t].wq = <<>> /\ th[t].uq # <<>>
InDeallocs(t) == th[t].wq = <<>> /\ th[t].uq = <<>> /\ th[t].dq # <<>>
At(t, stage) == th[t].wq = <<>> /\ th[t].uq = <<>> /\ th[t].dq = <<>> /\ th[t].at = stage

UnmapDefer(owner, s) ==
    /\ heap' = [heap EXCEPT ![owner].unmap = <<s>> \o @]
    /\ header' = [header EXCEPT ![s].heap = owner]

\* A span of the list is done; after a refused batch its size is given back.
Unmapped(t) ==
    LET last == Len(th[t].wq) = 1 IN
    /\ th' = [th EXCEPT ![t].wq = Tail(@), ![t].checked = FALSE,
                        ![t].owe = IF last THEN Idle.owe ELSE @]
    /\ size' = IF last THEN [size EXCEPT ![th[t].owe[1]] = @ - th[t].owe[2]] ELSE size

\* _memory_unmap_span up to the decision who may do it.
UnmapCheck(t) ==
    LET s == Head(th[t].wq)
        owner == header[Master(s)].heap IN
    /\ Unmapping(t) /\ ~th[t].checked
    /\ \/ /\ header[s].flags = {}
          /\ mapped' = mapped \ Units(s)
          /\ Unmapped(t) /\ UNCHANGED <<header, heap>>
       \/ /\ header[s].flags # {} /\ th[t].by # 0 /\ owner # th[t].by /\ owner \in live
          /\ UnmapDefer(owner, s) /\ Unmapped(t) /\ UNCHANGED mapped
       \/ /\ header[s].flags # {} /\ (th[t].by = 0 \/ owner = th[t].by \/ owner \notin live)
          /\ th' = [th EXCEPT ![t].checked = TRUE]
          /\ UNCHANGED <<header, mapped, heap, size>>
    /\ UNCHANGED <<fresh, heaps, calls, live, orphans, global, used, finalizing, raced>>

\* The rest of it.  The master's header stays until all its spans are gone.
UnmapApply(t) ==
    LET s == Head(th[t].wq)
        m == Master(s)
        left == header[m].rd - header[s].count IN
    /\ Unmapping(t) /\ th[t].checked
    /\ raced' = (~finalizing /\ header[m].heap # th[t].hp)
    /\ header' = [header EXCEPT ![m].flags = IF s = m THEN {"master", "sub"} ELSE @,
                                ![m].rd = IF left > 0 THEN left ELSE @]
    /\ mapped' = mapped \ ((IF s = m THEN {} ELSE Units(s)) \cup (IF left > 0 THEN {} ELSE Units(m)))
    /\ Unmapped(t)
    /\ UNCHANGED <<fresh, heap, heaps, calls, live, orphans, global, used, finalizing>>

\* One turn of _memory_unmap_deferred.
UnmapNext(t) ==
    LET s == Head(th[t].uq)
        owner == header[Master(s)].heap
        next == [th[t] EXCEPT !.uq = Tail(@)] IN
    /\ InUnmaps(t)
    /\ \/ /\ th[t].got = 0 /\ header[s].count = th[t].want
          /\ th' = [th EXCEPT ![t] = [next EXCEPT !.got = s]]
          /\ UNCHANGED <<header, heap>>
       \/ /\ ~(th[t].got = 0 /\ header[s].count = th[t].want)
          /\ header[s].heap = owner \/ owner \notin live
          /\ th' = [th EXCEPT ![t] = [next EXCEPT !.wq = <<s>>, !.by = th[t].hp]]
          /\ UNCHANGED <<header, heap>>
       \/ /\ ~(th[t].got = 0 /\ header[s].count = th[t].want)
          /\ header[s].heap # owner /\ owner \in live
          /\ UnmapDefer(owner, s)
          /\ th' = [th EXCEPT ![t] = next]
    /\ UNCHANGED <<mapped, fresh, heaps, calls, live, orphans, global, size, used, finalizing, raced>>

\* One block freed to its heap: by _memory_deallocate_deferred or its own thread.
DeallocNext(t) ==
    LET s == Head(th[t].dq)
        hp == heap[th[t].hp]
        next == [th[t] EXCEPT !.dq = Tail(@)]
        splits == hp.reserved = 0 /\ header[s].count > 1
        n == IF splits THEN 1 ELSE header[s].count
        left == IF splits THEN Reserving(hp, s, 1) ELSE hp
        push == Pushed(left, s, n) IN
    /\ InDeallocs(t)
    /\ header' = IF splits THEN [header EXCEPT ![s] = Resized(@, th[t].hp, 1)] ELSE header
    /\ heap' = [heap EXCEPT ![th[t].hp] = [left EXCEPT !.cache[n] = push.kept]]
    /\ Overflow(t, push.batch, n, next)
    /\ UNCHANGED <<mapped, fresh, heaps, calls, live, orphans, used, finalizing, raced>>

\* The heads of both loops: the whole list is swapped for an empty one.
TakeDeallocs(t, next) ==
    /\ th' = [th EXCEPT ![t] = [next EXCEPT !.dq = heap[next.hp].dealloc]]
    /\ heap' = [heap EXCEPT ![next.hp].dealloc = <<>>]

TakeUnmaps(t, next) ==
    /\ th' = [th EXCEPT ![t] = [next EXCEPT !.uq = heap[next.hp].unmap]]
    /\ heap' = [heap EXCEPT ![next.hp].unmap = <<>>]

------------------------------------------------------------------------------
Call == calls < MaxCalls /\ calls' = calls + 1

\* Allocation.

\* A small block that needs a span, or a large one: deferred blocks first.
Allocate(t, n) ==
    LET next == [th[t] EXCEPT !.at = "extract", !.want = n, !.got = 0] IN
    /\ At(t, "idle") /\ th[t].hp # 0 /\ Call
    /\ \/ (n = 1 \/ heap[th[t].hp].cache[n] = <<>>) /\ TakeDeallocs(t, next)
       \/ heap[th[t].hp].cache[n] # <<>> /\ th' = [th EXCEPT ![t] = next] /\ UNCHANGED heap
    /\ UNCHANGED <<header, mapped, fresh, heaps, live, orphans, global, size, used, finalizing, raced>>

\* The span is the caller's, and its heap's.
HandOut(t, s) ==
    /\ used' = used \cup {s}
    /\ th' = [th EXCEPT ![t].at = "idle", ![t].want = 0, ![t].got = 0]

FromCache(t) ==
    LET h == th[t].hp
        s == Head(heap[h].cache[th[t].want]) IN
    /\ At(t, "extract") /\ heap[h].cache[th[t].want] # <<>>
    /\ heap' = [heap EXCEPT ![h].cache[th[t].want] = Tail(@)]
    /\ header' = [header EXCEPT ![s].heap = h]
    /\ HandOut(t, s)
    /\ UNCHANGED <<mapped, fresh, heaps, calls, live, orphans, global, size, finalizing, raced>>

\* _memory_map_spans when enough is reserved: a subspan of what is.
FromReserve(t) ==
    LET h == th[t].hp
        hp == heap[h]
        n == th[t].want
        s == hp.reserve IN
    /\ At(t, "extract") /\ hp.cache[n] = <<>> /\ hp.reserved >= n
    /\ heap' = [heap EXCEPT ![h].reserve = s + n, ![h].reserved = @ - n]
    /\ header' = [header EXCEPT ![s] = [flags |-> {"sub"}, rd |-> s - hp.master, count |-> n, heap |-> h]]
    /\ HandOut(t, s)
    /\ UNCHANGED <<mapped, fresh, heaps, calls, live, orphans, global, size, finalizing, raced>>

LookInUnmaps(t) ==
    LET hp == heap[th[t].hp] IN
    /\ At(t, "extract") /\ hp.cache[th[t].want] = <<>> /\ hp.reserved < th[t].want
    /\ TakeUnmaps(t, [th[t] EXCEPT !.at = "found"])
    /\ UNCHANGED <<header, mapped, fresh, heaps, calls, live, orphans, global, size, used, finalizing, raced>>

\* Of the unmaps deferred to this heap one has the right count; or a larger
\* span was split.
Found(t) ==
    /\ At(t, "found") /\ th[t].got # 0
    /\ header' = [header EXCEPT ![th[t].got].heap = th[t].hp]
    /\ HandOut(t, th[t].got)
    /\ UNCHANGED <<mapped, fresh, heap, heaps, calls, live, orphans, global, size, finalizing, raced>>

Larger(t) == {n \in th[t].want + 1..Counts : heap[th[t].hp].cache[n] # <<>>}

\* Step 4 of _memory_heap_cache_extract with _memory_span_split.
FromLarger(t) ==
    LET h == th[t].hp
        use == th[t].want
        n == CHOOSE k \in Larger(t) : \A l \in Larger(t) : k <= l
        s == Head(heap[h].cache[n])
        rest == s + use
        mine == [header[s] EXCEPT !.heap = h]
        master == IF "sub" \in mine.flags THEN s - mine.rd ELSE s
        popped == [heap[h] EXCEPT !.cache[n] = Tail(@)]
        left == IF popped.reserved = 0
                THEN [popped EXCEPT !.reserve = rest, !.reserved = n - use, !.master = master]
                ELSE popped
        push == Pushed(popped, rest, n - use)
        next == [th[t] EXCEPT !.got = s] IN
    /\ At(t, "found") /\ th[t].got = 0 /\ Larger(t) # {}
    /\ header' = [header EXCEPT ![s] = Resized(mine, h, use),
                                ![rest] = [@ EXCEPT !.flags = {"sub"}, !.rd = rest - master, !.count = n - use]]
    /\ IF popped.reserved = 0
       THEN /\ heap' = [heap EXCEPT ![h] = left]
            /\ th' = [th EXCEPT ![t] = next] /\ UNCHANGED <<global, size>>
       ELSE /\ heap' = [heap EXCEPT ![h] = [popped EXCEPT !.cache[n - use] = push.kept]]
            /\ Overflow(t, push.batch, n - use, next)
    /\ UNCHANGED <<mapped, fresh, heaps, calls, live, orphans, used, finalizing, raced>>

\* _memory_cache_extract takes a whole list.
FromGlobal(t) ==
    LET h == th[t].hp
        n == th[t].want
        batch == Head(global[n]) IN
    /\ At(t, "found") /\ th[t].got = 0 /\ Larger(t) = {} /\ global[n] # <<>>
    /\ global' = [global EXCEPT ![n] = Tail(@)]
    /\ size' = [size EXCEPT ![n] = @ - Len(batch)]
    /\ heap' = [heap EXCEPT ![h].cache[n] = Tail(batch)]
    /\ header' = [header EXCEPT ![Head(batch)].heap = h]
    /\ HandOut(t, Head(batch))
    /\ UNCHANGED <<mapped, fresh, heaps, calls, live, orphans, finalizing, raced>>

\* _memory_map_spans when the system must map more: ahead, unless some is reserved.
FromSystem(t) ==
    LET h == th[t].hp
        n == th[t].want
        request == IF heap[h].reserved > 0 \/ n > MapCount THEN n ELSE MapCount
        hd == [flags |-> {}, rd |-> request, count |-> request, heap |-> h] IN
    /\ At(t, "found") /\ th[t].got = 0 /\ Larger(t) = {} /\ global[n] = <<>>
    /\ fresh + request - 1 <= MaxUnits
    /\ fresh' = fresh + request /\ mapped' = mapped \cup fresh..(fresh + request - 1)
    /\ header' = [header EXCEPT ![fresh] = IF request > n THEN Resized(hd, h, n) ELSE hd]
    /\ heap' = IF request > n
               THEN [heap EXCEPT ![h].reserve = fresh + n, ![h].reserved = request - n, ![h].master = fresh]
               ELSE heap
    /\ HandOut(t, fresh)
    /\ UNCHANGED <<heaps, calls, live, orphans, global, size, finalizing, raced>>

\* Any thread frees a span; its own heap at once, another's later.
Free(t, s) ==
    LET owner == header[s].heap IN
    /\ At(t, "idle") /\ th[t].hp # 0 /\ s \in used /\ Call
    /\ used' = used \ {s}
    /\ \/ owner = th[t].hp /\ th' = [th EXCEPT ![t].dq = <<s>>] /\ UNCHANGED heap
       \/ owner # th[t].hp /\ heap' = [heap EXCEPT ![owner].dealloc = <<s>> \o @] /\ UNCHANGED th
    /\ UNCHANGED <<header, mapped, fresh, heaps, live, orphans, global, size, finalizing, raced>>

------------------------------------------------------------------------------
\* Threads begin and exit.

\* _memory_allocate_heap: an orphan, or a new heap; then what was deferred to it.
Start(t) ==
    /\ At(t, "idle") /\ th[t].hp = 0 /\ ~finalizing /\ Call
    /\ \/ /\ orphans # <<>>
          /\ orphans' = Tail(orphans)
          /\ TakeUnmaps(t, [th[t] EXCEPT !.at = "start", !.hp = Head(orphans)])
          /\ UNCHANGED <<heaps, live>>
       \/ /\ orphans = <<>> /\ heaps < MaxHeaps
          /\ heaps' = heaps + 1 /\ live' = live \cup {heaps + 1}
          /\ TakeUnmaps(t, [th[t] EXCEPT !.at = "start", !.hp = heaps + 1])
          /\ UNCHANGED orphans
    /\ UNCHANGED <<header, mapped, fresh, global, size, used, finalizing, raced>>

Started(t) ==
    /\ At(t, "start") /\ TakeDeallocs(t, [th[t] EXCEPT !.at = "idle"])
    /\ UNCHANGED <<header, mapped, fresh, heaps, calls, live, orphans, global, size, used, finalizing, raced>>

\* rpmalloc_thread_finalize.
Exit(t) ==
    /\ At(t, "idle") /\ th[t].hp # 0 /\ Call
    /\ TakeDeallocs(t, [th[t] EXCEPT !.at = "exit"])
    /\ UNCHANGED <<header, mapped, fresh, heaps, live, orphans, global, size, used, finalizing, raced>>

ExitUnmaps(t) ==
    /\ At(t, "exit") /\ TakeUnmaps(t, [th[t] EXCEPT !.at = "flush"])
    /\ UNCHANGED <<header, mapped, fresh, heaps, calls, live, orphans, global, size, used, finalizing, raced>>

\* The caches go to the global one in chunks, on behalf of no heap.
ExitFlush(t) ==
    LET h == th[t].hp
        full == {n \in 1..Counts : heap[h].cache[n] # <<>>}
        n == CHOOSE k \in full : \A l \in full : k <= l
        list == heap[h].cache[n]
        chunk == IF ExitChunk < 2 * n THEN 2 ELSE ExitChunk \div n
        k == IF Len(list) > chunk THEN chunk ELSE Len(list) IN
    /\ At(t, "flush") /\ full # {}
    /\ heap' = [heap EXCEPT ![h].cache[n] = SubSeq(list, k + 1, Len(list))]
    /\ InsertGlobal(t, SubSeq(list, 1, k), n, 0, th[t])
    /\ UNCHANGED <<header, mapped, fresh, heaps, calls, live, orphans, used, finalizing, raced>>

Orphan(t) ==
    /\ At(t, "flush") /\ heap[th[t].hp].cache = NoLists
    /\ orphans' = <<th[t].hp>> \o orphans
    /\ th' = [th EXCEPT ![t] = Idle]
    /\ UNCHANGED <<header, mapped, fresh, heap, heaps, calls, live, global, size, used, finalizing, raced>>

------------------------------------------------------------------------------
\* rpmalloc_finalize, when every thread has exited; heap after heap.

Finalize(t) ==
    /\ ~finalizing /\ heaps > 0 /\ \A u \in Threads : At(u, "idle") /\ th[u].hp = 0
    /\ finalizing' = TRUE
    /\ TakeDeallocs(t, [th[t] EXCEPT !.at = "caches", !.hp = 1])
    /\ UNCHANGED <<header, mapped, fresh, heaps, calls, live, orphans, global, size, used, raced>>

\* The heap's lists are unmapped (and left as they are); then the next heap.
FinalizeCaches(t) ==
    LET h == th[t].hp
        next == [th[t] EXCEPT !.wq = FlattenSeq(heap[h].cache), !.by = 0] IN
    /\ At(t, "caches") /\ h <= heaps
    /\ IF h < heaps
       THEN /\ heap' = [heap EXCEPT ![h].cache = NoLists, ![h + 1].dealloc = <<>>]
            /\ th' = [th EXCEPT ![t] = [next EXCEPT !.hp = h + 1, !.dq = heap[h + 1].dealloc]]
       ELSE /\ heap' = [heap EXCEPT ![h].cache = NoLists]
            /\ th' = [th EXCEPT ![t] = [next EXCEPT !.hp = 1, !.at = "global"]]
    /\ UNCHANGED <<header, mapped, fresh, heaps, calls, live, orphans, global, size, used, finalizing, raced>>

\* _memory_cache_finalize, for every count.
FinalizeGlobal(t) ==
    /\ At(t, "global")
    /\ global' = NoLists /\ size' = [n \in 1..Counts |-> 0]
    /\ th' = [th EXCEPT ![t].wq = FlattenSeq(FlattenSeq(global)), ![t].by = 0, ![t].at = "heaps"]
    /\ UNCHANGED <<header, mapped, fresh, heap, heaps, calls, live, orphans, used, finalizing, raced>>

\* What a heap has reserved is unmapped; it cannot be found any more, and what
\* was deferred to it is unmapped.
FinalizeHeap(t) ==
    LET h == th[t].hp
        hp == heap[h]
        m == hp.master
        left == header[m].rd - hp.reserved
        next == [th[t] EXCEPT !.want = 0, !.got = 0] IN
    /\ At(t, "heaps") /\ h <= heaps
    /\ live' = live \ {h}
    /\ IF hp.reserved = 0 THEN UNCHANGED <<header, mapped>>
       ELSE /\ mapped' = mapped \ (hp.reserve..(hp.reserve + hp.reserved - 1)
                                   \cup (IF left > 0 THEN {} ELSE Units(m)))
            /\ header' = [header EXCEPT ![m].rd = IF left > 0 THEN left ELSE @]
    /\ heap' = [heap EXCEPT ![h].unmap = <<>>, ![h].reserved = 0]
    /\ th' = [th EXCEPT ![t] = [next EXCEPT !.uq = hp.unmap, !.at = "unhooked"]]
    /\ UNCHANGED <<fresh, heaps, calls, orphans, global, size, used, finalizing, raced>>

FinalizeNext(t) ==
    /\ At(t, "unhooked")
    /\ th' = [th EXCEPT ![t].at = IF th[t].hp = heaps THEN "done" ELSE "heaps", ![t].hp = @ + 1]
    /\ orphans' = <<>>
    /\ UNCHANGED <<header, mapped, fresh, heap, heaps, calls, live, global, size, used, finalizing, raced>>

------------------------------------------------------------------------------
Local(t) == UnmapCheck(t) \/ UnmapApply(t) \/ UnmapNext(t) \/ DeallocNext(t)
Taking(t) == \/ \E n \in 1..Counts : Allocate(t, n)
             \/ FromCache(t) \/ FromReserve(t) \/ LookInUnmaps(t) \/ Found(t)
             \/ FromLarger(t) \/ FromGlobal(t) \/ FromSystem(t)
Leaving(t) == \/ Start(t) \/ Started(t) \/ Exit(t) \/ ExitUnmaps(t) \/ ExitFlush(t) \/ Orphan(t)
              \/ Finalize(t) \/ FinalizeCaches(t) \/ FinalizeGlobal(t) \/ FinalizeHeap(t) \/ FinalizeNext(t)

\* After a race the headers may hold anything, so no step is described.
Next == ~raced /\ \E t \in Threads : \/ Local(t) \/ Taking(t) \/ Leaving(t)
                                     \/ \E s \in used : Free(t, s)

Spec == Init /\ [][Next]_vars

------------------------------------------------------------------------------
\* The first addresses of the spans that somebody has, with repetitions.
Pieces ==
    SetToSeq(used) \o FlattenSeq(FlattenSeq(global)) \o FlattenSeq(FlattenSeq(
        [h \in 1..heaps |-> <<heap[h].dealloc, heap[h].unmap, FlattenSeq(heap[h].cache)>>]))
    \o FoldSet(LAMBDA t, l : l \o th[t].dq \o th[t].uq \o th[t].wq
                               \o (IF th[t].got = 0 THEN <<>> ELSE <<th[t].got>>), <<>>, Threads)

Reserved(h) == heap[h].reserve..(heap[h].reserve + heap[h].reserved - 1)
\* The header of a master stays when its spans are unmapped.
Headers == UNION {Units(m) : m \in {i \in mapped : header[i].flags = {"master", "sub"}}}

(* Every mapped span is in one place: in use, in one cache, reserved,      *)
(* deferred once or being unmapped; none is handed out twice and none in   *)
(* use or kept is unmapped, but for the header of a master whose spans are *)
(* not all gone (tracy_rpmalloc.cpp:624-745, 877-1033).                    *)
SpansAccounted ==
    LET pieces == Pieces
        places == [i \in DOMAIN pieces |-> Units(pieces[i])]
        reserved == [h \in 1..heaps |-> Reserved(h)] IN
    ~raced =>
        /\ UNION (Range(places) \cup Range(reserved)) = mapped \ Headers
        /\ \A i, j \in DOMAIN places : i < j => places[i] \cap places[j] = {}
        /\ \A i, j \in 1..heaps : i < j => reserved[i] \cap reserved[j] = {}
        /\ \A i \in DOMAIN places, h \in 1..heaps : places[i] \cap reserved[h] = {}

\* How many spans belong to master m and are not unmapped yet.
Remaining(m, pieces) ==
    FoldLeft(LAMBDA n, s : IF Master(s) = m THEN n + header[s].count ELSE n, 0, pieces)
    + FoldLeft(LAMBDA n, hp : IF hp.master = m THEN n + hp.reserved ELSE n, 0, heap)

(* While nobody but its heap's thread changes it, the count in a master is *)
(* exact, so that a mapping is given back with the last of its spans, not  *)
(* before; and when everything was freed, rpmalloc_finalize gives back all *)
(* (tracy_rpmalloc.cpp:583-620, 667-714, 1631-1698).                       *)
RemainsExact ==
    LET pieces == Pieces IN
    ~raced =>
        /\ \A m \in mapped : "master" \in header[m].flags => header[m].rd = Remaining(m, pieces)
        /\ \A s \in Range(pieces) : Master(s) \in mapped
                /\ (header[s].flags = {"sub"} => "master" \in header[Master(s)].flags)
        /\ (\E t \in Threads : th[t].at = "done") /\ used = {} => mapped = {}

\* "MUST be done from the owner heap thread" (tracy_rpmalloc.cpp:578, 682).
OwnerSetsRemains == ~raced
=============================================================================
