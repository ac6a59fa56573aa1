---------------------------- MODULE SizeClasses ----------------------------
(***************************************************************************)
(* The sizes of rpmalloc's blocks (tracy/client/tracy_rpmalloc.cpp 1037-    *)
(* 1048, 1142-1150, 1353-1373, 1403-1502, 1526-1622, 1776-1851).  Small and *)
(* medium blocks have classes, merged where a span has room for equally     *)
(* many; a large block is a run of spans and an oversized one of pages.     *)
(* How large spans and pages are is fixed at the start, after the system's. *)
(* The state is that, one block that its user reallocates, and its mapping. *)
(***************************************************************************)
EXTENDS Integers, FiniteSetsExt

CONSTANTS
    SmallGranularity, SmallCount, MediumGranularity, MediumCount, LargeCount,
    Header,
    SystemPages, \* what sysconf(_SC_PAGESIZE) may say
    Sizes,       \* the sizes asked for
    Places       \* where the system puts a mapping, in its pages

VARIABLES
    memory,  \* the allocator's globals: [granularity, page, span]
    block,   \* its class and span or page count
    asked,   \* the size last asked for
    region   \* addresses of the block's mapping: [from, start, to, offset]

vars == <<memory, block, asked, region>>

CeilDiv(n, d) == (n + d - 1) \div d
AtMost(a, b) == IF a < b THEN a ELSE b

\* rpmalloc_initialize_config without a configuration.  A page is the power of
\* two from 512 to 16K that the system's page has room for, a span the first one
\* from 4K that has room for the 64K asked for and for a page.
Powers == {2^k : k \in 9..18}
Configured(systemPage) ==
    LET page == Max({p \in Powers : p = 512 \/ p <= AtMost(systemPage, 16 * 1024)})
    IN  [granularity |-> systemPage, page |-> page,
         span |-> Min({s \in Powers : s >= 4096 /\ s >= 64 * 1024 /\ s >= page})]

PageSize == memory.page
SpanSize == memory.span

SmallLimit == SmallGranularity * SmallCount
MediumLimit == AtMost(SpanSize - Header, SmallLimit + MediumGranularity * MediumCount - Header)
LargeLimit == LargeCount * SpanSize - Header

\* The table of classes before any are merged, and the number of blocks.
TableSize == [i \in 0..SmallCount + MediumCount - 1 |->
    IF i < SmallCount THEN (i + 1) * SmallGranularity
    ELSE AtMost(SmallLimit + (i - SmallCount + 1) * MediumGranularity, MediumLimit)]
TableCount == [i \in DOMAIN TableSize |-> (SpanSize - Header) \div TableSize[i]]

\* _memory_adjust_size_class has copied each class over those before it that
\* have as many blocks.
Merged == [i \in DOMAIN TableSize |->
    Max({k \in DOMAIN TableSize : k >= i /\ \A j \in i..k : TableCount[j] = TableCount[i]})]

\* Mutant: sizes are rounded down to their class.
BaseIdxMutant(size) ==
    IF size <= SmallLimit THEN size \div SmallGranularity
    ELSE SmallCount + (size - SmallLimit) \div MediumGranularity
BaseIdx(size) ==
    IF size <= SmallLimit THEN CeilDiv(size, SmallGranularity)
    ELSE SmallCount + CeilDiv(size - SmallLimit, MediumGranularity)
ClassOf(size) == Merged[IF BaseIdx(size) = 0 THEN 0 ELSE BaseIdx(size) - 1]

\* _memory_allocate.
Allocated(size) ==
    IF size <= MediumLimit THEN [kind |-> "class", n |-> ClassOf(size)]
    ELSE IF size <= LargeLimit THEN [kind |-> "large", n |-> CeilDiv(size + Header, SpanSize)]
    ELSE [kind |-> "oversized", n |-> CeilDiv(size + Header, PageSize)]

\* _memory_usable_size.
UsableSize(b) ==
    CASE b.kind = "class" -> TableSize[b.n]
      [] b.kind = "large" -> b.n * SpanSize - Header
      [] b.kind = "oversized" -> b.n * PageSize - Header

\* The spans _memory_reallocate counts: its mask leaves out one bit, so it adds
\* one for every size but that of a single span.
NeededSpans(size) == (size + Header) \div SpanSize + (IF size + Header = SpanSize THEN 0 ELSE 1)

StaysIn(b, size) ==
    LET needed == IF b.kind = "large" THEN NeededSpans(size) ELSE CeilDiv(size + Header, PageSize) IN
    IF b.kind = "class" THEN TableSize[b.n] >= size
    ELSE b.n >= needed /\ needed >= b.n \div 2

\* What is allocated instead: a third more than before if little is needed.
NewSize(b, size) ==
    LET old == UsableSize(b)
        lower == old + old \div 4 + old \div 8 IN
    IF size > lower THEN size ELSE IF size > old THEN lower ELSE size

Reallocated(b, size) == IF StaysIn(b, size) THEN b ELSE Allocated(NewSize(b, size))

------------------------------------------------------------------------------
\* The bytes a block needs mapped.
Mapping(b) == CASE b.kind = "class" -> SpanSize
                [] b.kind = "large" -> b.n * SpanSize
                [] b.kind = "oversized" -> b.n * PageSize

\* _memory_map_os, when the system maps at place: what is too much in front is
\* remembered and what is too much behind given back.
MapOs(size, place) ==
    LET padding == IF size >= SpanSize /\ SpanSize > memory.granularity THEN SpanSize ELSE 0
        before == IF padding = 0 THEN 0 ELSE padding - (place % SpanSize) IN
    [from |-> place, start |-> place + before, to |-> place + before + size, offset |-> before \div 8]

\* _memory_unmap_os of the whole: the addresses from and up to which it unmaps.
UnmapOs(start, size, offset) == <<start - offset * 8, start - offset * 8 + size + offset * 8>>

------------------------------------------------------------------------------
Init ==
    /\ \E systemPage \in SystemPages : memory = Configured(systemPage)
    /\ asked \in Sizes
    /\ block = Allocated(asked)
    /\ \E p \in Places : region = MapOs(Mapping(block), p * memory.granularity)

Reallocate ==
    \E size \in Sizes, p \in Places :
        /\ asked' = size
        /\ block' = Reallocated(block, size)
        /\ region' = IF StaysIn(block, size) THEN region ELSE MapOs(Mapping(block'), p * memory.granularity)
        /\ UNCHANGED memory

Next == Reallocate

(* A block holds what was last asked for, blocks and header fit their span, *)
(* blocks of a class are of one size whichever size is looked up, and the   *)
(* system gets back exactly what it mapped (tracy_rpmalloc.cpp:1040-1044,   *)
(* 1405-1450, 1485-1500, 1780-1851).                                        *)
RoomForAsked ==
    /\ UsableSize(block) >= asked
    /\ block.kind = "class" => /\ Header + TableCount[block.n] * TableSize[block.n] <= SpanSize
                               /\ Merged[block.n] = block.n /\ TableCount[block.n] >= 1
    /\ block.kind = "large" => block.n \in 1..LargeCount
    /\ (Mapping(block) >= SpanSize => region.start % SpanSize = 0) /\ region.offset < 65536
    /\ UnmapOs(region.start, Mapping(block), region.offset) = <<region.from, region.to>>
=============================================================================
