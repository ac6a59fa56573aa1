------------------------------ MODULE MCMemory ------------------------------
(* rpmalloc, in three parts on their own: spans between heaps, blocks in    *)
(* spans, and sizes.  Spans start empty, or as two threads leave them that  *)
(* have exchanged spans: t1 has freed the three of its mapping, which sent  *)
(* two to the global cache, and t2, whose own are in use, has taken these.  *)
(* Blocks come in three classes, or in one with room for lists of spans.    *)
EXTENDS SpanHeap

CONSTANTS t1, t2, SystemPages, Sizes, Places

VARIABLES part, span, word, bheap, pool, held, bcalls, memory, block, asked, region

Blocks == INSTANCE BlockHeap WITH heap <- bheap, calls <- bcalls,
              Spans <- 2, BlockCount <- <<3, 2, 1>>, Junk <- 99, MaxCalls <- 9
Lists == INSTANCE BlockHeap WITH heap <- bheap, calls <- bcalls,
              Spans <- 3, BlockCount <- <<2>>, Junk <- 99, MaxCalls <- 10
Size == INSTANCE SizeClasses WITH
              SmallGranularity <- 32, SmallCount <- 63, MediumGranularity <- 512, MediumCount <- 60,
              LargeCount <- 32, Header <- 32

blockVars == <<span, word, bheap, pool, held, bcalls>>
sizeVars == <<memory, block, asked, region>>
all == <<part, vars, blockVars, sizeVars>>

Limits == <<2, 2, 2>>
SomeSizes == {0, 1, 33, 2016, 2017, 3040, 9000, 16368, 21825, 32704, 32705, 65504, 65505,
              131040, 200000, 2097120, 2097121, 2100000, 6000000}

Master3(h) == [flags |-> {"master"}, rd |-> 3, count |-> 1, heap |-> h]
Sub(d, h) == [flags |-> {"sub"}, rd |-> d, count |-> 1, heap |-> h]

Crossed ==
    /\ header = <<Master3(1), Sub(1, 1), Sub(2, 2), Master3(2), Sub(1, 2), Sub(2, 2)>>
    /\ mapped = 1..6 /\ fresh = 7
    /\ heap = <<[NewHeap EXCEPT !.cache[1] = <<1>>, !.reserve = 4, !.master = 1],
                [NewHeap EXCEPT !.cache[1] = <<2>>, !.reserve = 7, !.master = 4]>>
    /\ heaps = 2 /\ calls = 0 /\ live = {1, 2} /\ orphans = <<>>
    /\ global = NoLists /\ size = [n \in 1..Counts |-> 0]
    /\ used = {3, 4, 5, 6}
    /\ th = [t \in Threads |-> [Idle EXCEPT !.hp = IF t = t1 THEN 1 ELSE 2]]
    /\ finalizing = FALSE /\ raced = FALSE

MCInit ==
    /\ part \in {"spans", "blocks", "lists", "sizes"}
    /\ IF part = "spans" THEN Init \/ Crossed ELSE Init
    /\ IF part = "lists" THEN Lists!Init ELSE Blocks!Init
    /\ IF part = "sizes" THEN Size!Init
       ELSE /\ memory = Size!Configured(4096)
            /\ block = [kind |-> "class", n |-> 0] /\ asked = 0 /\ region = Size!MapOs(65536, 65536)

SpanStep == part = "spans" /\ Next /\ UNCHANGED <<part, blockVars, sizeVars>>
BlockStep == part = "blocks" /\ Blocks!Next /\ UNCHANGED <<part, vars, sizeVars>>
ListStep == part = "lists" /\ Lists!Next /\ UNCHANGED <<part, vars, sizeVars>>
SizeStep == part = "sizes" /\ Size!Next /\ UNCHANGED <<part, vars, blockVars>>

MCNext == SpanStep \/ BlockStep \/ ListStep \/ SizeStep
MCSpec == MCInit /\ [][MCNext]_all

(* Every block is in one place and can be had if it is free, and has room  *)
(* for what was asked for (tracy_rpmalloc.cpp:848-871, 1040-1139,          *)
(* 1236-1281, 1314-1450).                                                  *)
BlocksSound ==
    CASE part = "blocks" -> Blocks!BlocksExact
      [] part = "lists" -> Lists!BlocksExact
      [] part = "sizes" -> Size!RoomForAsked
      [] part = "spans" -> TRUE
=============================================================================
