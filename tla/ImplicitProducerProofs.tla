----------------------- MODULE ImplicitProducerProofs -----------------------
(****************************************************************************)
(* That ImplicitProducer implements ItemQueue and loses no block, for every *)
(* size of block and index, any bulks, refused or not, and any number of    *)
(* consumers.                                                               *)
(*                                                                          *)
(* The counters are those of QueueProofs.  The blocks are numbered by their *)
(* items here too, and the number x has its entry in slot                   *)
(* (x + Q[h]) % capacity of the h-th index; an entry keeps its slots when   *)
(* the index is doubled.  Up to some number low all items are over.  From   *)
(* it on numbers have entries of their own, which show their keys and the   *)
(* blocks put behind them; each block is free, behind one entry, or held by *)
(* the consumer that emptied its entry; consumers have their items apart,   *)
(* find the entries of these from any tail that they may have read, and     *)
(* the one that counts the last item of a block is alone to empty its       *)
(* entry.                                                                   *)
(****************************************************************************)
EXTENDS QueueProofs

-----------------------------------------------------------------------------
\* The implicit producer.  What it shares with the explicit one is the same for both.

LEMMA SharedBase ==
    /\ \A i : Implicit!Base(i) = Base(i)
    /\ Implicit!Offsets = Offsets /\ Implicit!NoLocal = NoLocal
    /\ \A c : Implicit!End(c) = End(c) /\ Implicit!InBlock(c) = InBlock(c)
    /\ \A c : Implicit!Gone(c) <=> Gone(c)
    /\ Implicit!counters = counters /\ Implicit!reading = reading
BY DEF Implicit!Base, Base, Implicit!Offsets, Offsets, Implicit!End, End, Implicit!InBlock, InBlock,
       Implicit!NoLocal, NoLocal, Implicit!Gone, Gone, Implicit!counters, counters, Implicit!reading, reading

LEMMA SharedFilled ==
    ASSUME NEW bl, NEW place, NEW first, NEW last
    PROVE  Implicit!Filled(bl, place, first, last) = Filled(bl, place, first, last)
BY SharedBase DEF Implicit!Filled, Filled

LEMMA SharedCard == \A S : Implicit!Cardinality(S) = Cardinality(S)
BY DEF Implicit!Cardinality, Cardinality

LEMMA SharedCounts == ASSUME NEW c, Implicit!CountItems(c) PROVE CountItems(c)
BY DEF Implicit!CountItems, CountItems, Implicit!Reserve, Reserve, Implicit!Claim, Claim,
       Implicit!Look, Look, Implicit!At, At, Implicit!Gone, Gone, Implicit!Actual, Actual,
       Implicit!NoLocal, NoLocal, Implicit!counters, counters

-----------------------------------------------------------------------------
\* Its blocks are numbered like the explicit producer's.  Number x has its
\* entry in slot (x + Q[h]) % capacity of the h-th index.

\* The newest number that has a block, that has a key, and that the tail of
\* the index shows.
TopNo == Ord(tail - 1) + Len(op.chain)
KeyedNo == IF producer \in {"tail", "block"} THEN TopNo + 1 ELSE TopNo
ShownNo == IF producer = "block" THEN TopNo + 1 ELSE TopNo

Cap(h) == indexes[h].capacity
SlotOf(Q, h, x) == (x + Q[h]) % Cap(h)
EntryOf(Q, h, x) == indexes[h].index[SlotOf(Q, h, x)]
EntryNow(Q, x) == EntryOf(Q, Len(indexes), x)
KeyOf(e) == entries[e].key
ValueOf(e) == entries[e].value
ValueNow(Q, x) == ValueOf(EntryNow(Q, x))

\* The consumers with items claimed, and from which of these on they have still
\* to count them, to copy them, and to find them through their entries.
Taking == { c \in Consumers : consumer[c] \in {"index", "tail", "key", "copy", "count",
                                               "clear", "free", "advance"} }
CountsFrom(c) == IF consumer[c] \in {"clear", "free", "advance"} THEN End(c) ELSE local[c].next
CopiesFrom(c) == IF consumer[c] \in {"count", "clear", "free", "advance"} THEN End(c) ELSE local[c].next
NeedsFrom(c) == IF consumer[c] \in {"free", "advance"} THEN End(c) ELSE local[c].next

\* What two consumers have claimed is apart, and behind the head.
ClaimsApart ==
    /\ \A c \in Taking : 0 <= local[c].next /\ local[c].next < local[c].stop /\ local[c].stop <= head
    /\ \A c, d \in Taking : c # d => local[c].stop <= local[d].next \/ local[d].stop <= local[c].next

\* No item copied is one that a consumer has still to copy.
CopiedOnce ==
    \A t \in taken : /\ t[1] \in Nat /\ t[1] < head
                     /\ \A c \in Taking : t[1] < CopiesFrom(c) \/ local[c].stop <= t[1]

\* The item at i has been counted in its block, so nobody looks for it any more.
CountedOut(i) == i < head /\ \A c \in Taking : i < CountsFrom(c) \/ local[c].stop <= i
ItemsOf(x) == First(x) .. (First(x) + BlockSize - 1)
CountedOf(x) == { i \in ItemsOf(x) : CountedOut(i) }
Over(x) == \A i \in ItemsOf(x) : CountedOut(i)

\* One consumer at most is to empty the entry of a number.
ClearsOnce ==
    \A c, d \in Taking : /\ consumer[c] = "clear" /\ consumer[d] = "clear"
                         /\ Ord(local[c].next) = Ord(local[d].next)
                         => c = d

\* What concerns the consumers and the counters alone.
Claims == CountInv /\ ClaimsApart /\ CopiedOnce /\ ClearsOnce

\* The types of blocks, entries and indexes.
PoolBlocks == [done : Nat, cells : [Offsets -> Int]]
IndexEntries == [key : Int, value : Nat]
IndexHeaders == { h \in [capacity : Nat \ {0}, tail : Nat,
                         index : UNION { [0..(n - 1) -> Nat] : n \in Nat }] :
                    h.tail < h.capacity /\ h.index \in [0..(h.capacity - 1) -> Nat] }
Operations == [kind : {"none", "one", "bulk"}, n : Nat, need : Nat, chain : Seq(Nat), entry : Nat]

PoolTypes ==
    /\ blocks \in Seq(PoolBlocks) /\ free \subseteq 1..Len(blocks)
    /\ entries \in Seq(IndexEntries)
    /\ indexes \in Seq(IndexHeaders) /\ indexes # <<>>
    /\ \A h \in 1..Len(indexes) : \A s \in 0..(Cap(h) - 1) : indexes[h].index[s] \in 1..Len(entries)

\* Where the producer is: what it has of the blocks it needs.
OpSound ==
    /\ op \in Operations
    /\ producer \in {"idle", "entry", "tail", "block", "publish"}
    /\ producer = "idle" => op = Implicit!NoOp
    /\ producer # "idle" => op.n >= 1 /\ Ord(tail + op.n - 1) = TopNo + op.need
    /\ producer \in {"entry", "tail", "block"} => op.need >= 1
    /\ producer = "publish" => op.need = 0

\* Each block is on the free list, behind one entry, or held by the consumer
\* that has emptied its entry.
Holding == { c \in Consumers : consumer[c] = "free" }
BlocksOwned ==
    /\ \A e \in 1..Len(entries) : ValueOf(e) \in 0..Len(blocks) /\ ValueOf(e) \notin free
    /\ \A e, f \in 1..Len(entries) : ValueOf(e) = ValueOf(f) /\ ValueOf(e) # 0 => e = f
    /\ \A c \in Holding : /\ local[c].block \in 1..Len(blocks) /\ local[c].block \notin free
                          /\ \A e \in 1..Len(entries) : ValueOf(e) # local[c].block
    /\ \A c, d \in Holding : local[c].block = local[d].block => c = d
    /\ \A b \in 1..Len(blocks) : \/ b \in free
                                 \/ \E e \in 1..Len(entries) : ValueOf(e) = b
                                 \/ \E c \in Holding : local[c].block = b

\* An entry has the slots of its numbers in every index that has it, its key
\* is that of one of its numbers, and the tails have keys to start from.
SlotsRight(Q) ==
    \A h \in 1..Len(indexes) : \A s \in 0..(Cap(h) - 1), x \in Int :
        indexes[h].index[s] = EntryNow(Q, x) => s = SlotOf(Q, h, x)
KeysRight(Q) ==
    \A e \in 1..Len(entries) : KeyOf(e) # -1 => \E x \in Int : KeyOf(e) = First(x) /\ e = EntryNow(Q, x)
TailsRight(Q) ==
    /\ indexes[Len(indexes)].tail = SlotOf(Q, Len(indexes), ShownNo)
    /\ \A h \in 1..(Len(indexes) - 1) : KeyOf(indexes[h].index[indexes[h].tail]) # -1

\* All numbers below low are over, and those from it on have entries of their own.
Window(low) == low <= Ord(tail - 1) + 1 /\ KeyedNo - low < Cap(Len(indexes))
OverBelow(low) == \A i \in Nat : i < First(low) => CountedOut(i)
KeysShown(Q, low) == \A x \in low..KeyedNo : KeyOf(EntryNow(Q, x)) = First(x)
ValuesShown(Q, low) ==
    \A e \in 1..Len(entries) : ValueOf(e) # 0 => \E x \in low..KeyedNo : e = EntryNow(Q, x)

IndexSound(Q, low) ==
    /\ Q \in [Nat -> Int] /\ low \in Nat
    /\ SlotsRight(Q) /\ KeysRight(Q) /\ TailsRight(Q)
    /\ Window(low) /\ OverBelow(low) /\ KeysShown(Q, low) /\ ValuesShown(Q, low)

\* A block has counted the items of its number that are over, has those that
\* were enqueued, and is taken from its entry when all of them are over.
EmptyOver(Q, low) == \A x \in low..TopNo : ValueNow(Q, x) = 0 => Over(x)
DoneRight(Q, low) == \A x \in low..TopNo : ValueNow(Q, x) # 0 =>
    blocks[ValueNow(Q, x)].done = Cardinality(CountedOf(x))
CellsRight(Q, low) == \A x \in low..TopNo : ValueNow(Q, x) # 0 =>
    \A o \in Offsets : First(x) + o < tail => blocks[ValueNow(Q, x)].cells[o] = First(x) + o + 1
ChainRight(Q) ==
    /\ \A k \in 1..Len(op.chain) : ValueNow(Q, Ord(tail - 1) + k) = op.chain[k] /\ op.chain[k] # 0
    /\ producer \in {"tail", "block"} => op.entry = EntryNow(Q, KeyedNo) /\ ValueNow(Q, KeyedNo) = 0
TailRight(Q, low) ==
    low <= Ord(tail - 1) /\ ValueNow(Q, Ord(tail - 1)) # 0 => tailBlock = ValueNow(Q, Ord(tail - 1))

BlocksSound(Q, low) == /\ EmptyOver(Q, low) /\ DoneRight(Q, low) /\ CellsRight(Q, low)
                       /\ ChainRight(Q) /\ TailRight(Q, low)

\* A consumer that has read an index, the current or an older one, finds in it
\* the entries of the items it has still to find; it starts from a tail that
\* has a key, and comes to the slot of its next item.
ReaderSound(Q, low, c) ==
    /\ local[c].header \in 1..Len(indexes)
    /\ \A i \in NeedsFrom(c)..(local[c].stop - 1) : EntryOf(Q, local[c].header, Ord(i)) = EntryNow(Q, Ord(i))
    /\ consumer[c] = "key" =>
         /\ local[c].slot \in 0..(Cap(local[c].header) - 1)
         /\ KeyOf(indexes[local[c].header].index[local[c].slot]) # -1
    /\ consumer[c] \in {"copy", "count", "clear", "free", "advance"} =>
         local[c].slot = SlotOf(Q, local[c].header, Ord(local[c].next))
    /\ consumer[c] \in {"count", "clear"} =>
         ValueNow(Q, Ord(local[c].next)) = local[c].block /\ local[c].block # 0
    /\ consumer[c] = "clear" => low <= Ord(local[c].next) /\ Over(Ord(local[c].next))
ReadersSound(Q, low) == \A c \in Taking : consumer[c] # "index" => ReaderSound(Q, low, c)

\* All of it, for some numbering.
Numbered(Q, low) == IndexSound(Q, low) /\ BlocksSound(Q, low) /\ ReadersSound(Q, low)
ImplicitInv == Claims /\ PoolTypes /\ OpSound /\ BlocksOwned /\ \E Q, low : Numbered(Q, low)

\* An index of the implicit producer.
LEMMA IndexIs ==
    ASSUME PoolTypes, NEW h \in 1..Len(indexes)
    PROVE  /\ indexes[h] \in IndexHeaders
           /\ Cap(h) \in Nat /\ Cap(h) >= 1
           /\ indexes[h].tail \in 0..(Cap(h) - 1)
           /\ indexes[h].index \in [0..(Cap(h) - 1) -> Nat]
           /\ \A s \in 0..(Cap(h) - 1) : indexes[h].index[s] \in 1..Len(entries)
<1>1. PICK r \in IndexHeaders : r = indexes[h]
  BY DEF PoolTypes
<1>2. r.capacity \in Nat \ {0} /\ r.tail \in Nat /\ r.tail < r.capacity /\ r.index \in [0..(r.capacity - 1) -> Nat]
  BY DEF IndexHeaders
<1> QED BY <1>1, <1>2 DEF PoolTypes, Cap

\* There is always one, and the entries are records.
LEMMA LastIs ==
    ASSUME PoolTypes
    PROVE  /\ Len(indexes) \in Nat /\ Len(indexes) \in 1..Len(indexes)
           /\ Len(entries) \in Nat /\ Len(blocks) \in Nat
           /\ \A e \in 1..Len(entries) : /\ entries[e] \in IndexEntries
                                         /\ KeyOf(e) \in Int /\ ValueOf(e) \in Nat
           /\ \A b \in 1..Len(blocks) : blocks[b] \in PoolBlocks
<1>1. Len(indexes) \in Nat /\ Len(entries) \in Nat /\ Len(blocks) \in Nat /\ Len(indexes) # 0
  BY EmptySeq, LenProperties DEF PoolTypes
<1>2. \A e \in 1..Len(entries) : entries[e] \in IndexEntries
  BY DEF PoolTypes
<1>3. \A e \in 1..Len(entries) : KeyOf(e) \in Int /\ ValueOf(e) \in Nat
  BY <1>2 DEF KeyOf, ValueOf, IndexEntries
<1>4. \A b \in 1..Len(blocks) : blocks[b] \in PoolBlocks
  BY DEF PoolTypes
<1> QED BY <1>1, <1>2, <1>3, <1>4

\* Each number has an entry in each index.
LEMMA EntryIs ==
    ASSUME PoolTypes, NEW Q \in [Nat -> Int], NEW h \in 1..Len(indexes), NEW x \in Int
    PROVE  SlotOf(Q, h, x) \in 0..(Cap(h) - 1) /\ EntryOf(Q, h, x) \in 1..Len(entries)
<1>1. PICK n \in Nat : n = Cap(h) /\ n >= 1
  BY IndexIs
<1>2. h \in Nat
  BY LastIs
<1>3. PICK z \in Int : z = x + Q[h]
  BY <1>2
<1>4. z % n \in 0..(n - 1)
  BY <1>1
<1>5. SlotOf(Q, h, x) \in 0..(Cap(h) - 1)
  BY <1>1, <1>3, <1>4 DEF SlotOf
<1> QED BY <1>5, IndexIs DEF EntryOf

LEMMA EntryNowIs ==
    ASSUME PoolTypes, NEW Q \in [Nat -> Int], NEW x \in Int
    PROVE  EntryNow(Q, x) \in 1..Len(entries) /\ ValueNow(Q, x) \in Nat
<1>1. EntryNow(Q, x) \in 1..Len(entries)
  BY LastIs, EntryIs DEF EntryNow
<1> QED BY <1>1, LastIs DEF ValueNow

\* Less than a round apart, two numbers have different entries.
LEMMA EntriesApart ==
    ASSUME PoolTypes, NEW Q \in [Nat -> Int], SlotsRight(Q), NEW x \in Int, NEW y \in Int,
           x < y, y < x + Cap(Len(indexes))
    PROVE  EntryNow(Q, x) # EntryNow(Q, y)
<1> SUFFICES ASSUME EntryNow(Q, x) = EntryNow(Q, y) PROVE FALSE
  OBVIOUS
<1>1. PICK m \in Nat, n \in Nat : m = Len(indexes) /\ n = Cap(m) /\ n >= 1 /\ m \in 1..Len(indexes)
  BY LastIs, IndexIs
<1>2. SlotOf(Q, m, x) \in 0..(Cap(m) - 1) /\ SlotOf(Q, m, y) \in 0..(Cap(m) - 1)
  BY <1>1, EntryIs
<1>3. indexes[m].index[SlotOf(Q, m, x)] = EntryNow(Q, y)
  BY <1>1 DEF EntryNow, EntryOf
<1>4. SlotOf(Q, m, x) = SlotOf(Q, m, y)
  BY <1>1, <1>2, <1>3 DEF SlotsRight
<1>5. PICK a \in Int, b \in Int : a = x + Q[m] /\ b = y + Q[m] /\ a < b /\ b < a + n
  <2>1. y < x + n
    BY <1>1
  <2>2. PICK k \in Int : k = Q[m]
    BY <1>1
  <2>3. x + k \in Int /\ y + k \in Int /\ x + k < y + k /\ y + k < (x + k) + n
    BY <2>1, <1>1
  <2> QED BY <2>2, <2>3
<1>6. a % n # b % n
  BY <1>1, <1>5, SlotApart
<1> QED BY <1>1, <1>4, <1>5, <1>6 DEF SlotOf

\* How the numbers lie.
LEMMA NumbersAre ==
    ASSUME CountInv, OpSound
    PROVE  /\ tail \in Nat /\ Ord(tail - 1) \in Int /\ Ord(tail - 1) >= -1
           /\ Len(op.chain) \in Nat /\ op.chain \in Seq(Nat)
           /\ op.n \in Nat /\ op.need \in Nat /\ op.entry \in Nat
           /\ TopNo \in Int /\ TopNo = Ord(tail - 1) + Len(op.chain)
           /\ KeyedNo \in Int /\ ShownNo \in Int
           /\ Ord(tail - 1) <= TopNo /\ TopNo <= KeyedNo /\ KeyedNo <= TopNo + 1
<1>1. tail \in Nat
  BY DEF CountInv, CountTypes
<1>2. op.chain \in Seq(Nat) /\ op.n \in Nat /\ op.need \in Nat /\ op.entry \in Nat
  BY DEF OpSound, Operations
<1>3. Len(op.chain) \in Nat
  BY <1>2, LenProperties
<1>4. Ord(tail - 1) \in Int /\ Ord(tail - 1) >= -1
  <2>1. tail - 1 \in Int
    BY <1>1
  <2>2. First(-1) <= tail - 1 <=> -1 <= Ord(tail - 1)
    <3>1. PICK j \in Int : j = tail - 1
      BY <2>1
    <3>2. -1 \in Int
      OBVIOUS
    <3>3. First(-1) <= j <=> -1 <= Ord(j)
      BY <3>1, <3>2, OrdAt
    <3> QED BY <3>1, <3>3
  <2>3. First(0 - 1) = First(0) - BlockSize /\ First(0) = 0
    BY FirstIs
  <2>4. 0 - 1 = -1
    OBVIOUS
  <2>5. First(-1) = 0 - BlockSize
    BY <2>3, <2>4
  <2>6. First(-1) <= tail - 1
    BY <2>5, <1>1, SizeIs
  <2>7. Ord(tail - 1) \in Int
    BY <2>1, OrdAt
  <2> QED BY <2>2, <2>6, <2>7
<1>5. PICK t \in Int, k \in Nat : t = Ord(tail - 1) /\ k = Len(op.chain)
  BY <1>3, <1>4
<1>6. TopNo = t + k
  BY <1>5 DEF TopNo
<1> QED BY <1>1, <1>2, <1>3, <1>4, <1>5, <1>6 DEF KeyedNo, ShownNo

\* A consumer's items and where they end in the block of the next one.
LEMMA TakingIs ==
    ASSUME CountInv, ClaimsApart, NEW c \in Taking
    PROVE  \E a \in Nat, b \in Nat, e \in Nat, h \in Nat, t \in Nat :
             /\ a = local[c].next /\ b = local[c].stop /\ e = End(c) /\ h = head /\ t = tail
             /\ a < e /\ e <= b /\ b <= h /\ h <= t /\ InBlock(c) = a..(e - 1)
             /\ Base(a) = First(Ord(a)) /\ \A i \in a..(e - 1) : Ord(i) = Ord(a)
             /\ e < b => e = First(Ord(a) + 1)
<1>1. PICK a \in Nat, b \in Nat, h \in Nat, t \in Nat :
         a = local[c].next /\ b = local[c].stop /\ h = head /\ t = tail /\ a < b /\ b <= h /\ h <= t
  <2>1. local[c].next \in Int /\ local[c].stop \in Int
    BY DEF Taking, CountInv, CountTypes, Locals
  <2>2. 0 <= local[c].next /\ local[c].next < local[c].stop /\ local[c].stop <= head
    BY DEF ClaimsApart
  <2>3. head <= tail /\ head \in Nat /\ tail \in Nat
    BY CountHeads
  <2>4. local[c].next \in Nat /\ local[c].stop \in Nat
    BY <2>1, <2>2, <2>3
  <2> QED BY <2>2, <2>3, <2>4
<1>2. PICK x \in Int, o \in Offsets : x = Ord(a) /\ a = First(x) + o /\ Base(a) = First(x)
  <2>1. a \in Int
    OBVIOUS
  <2> QED BY <2>1, OrdIs
<1>3. PICK f \in Int, k \in Nat : f = First(x) /\ k = BlockSize /\ k >= 2 /\ a < f + k /\ f <= a
  <2>1. First(x) \in Int
    BY FirstIs
  <2>2. o \in Int /\ o >= 0 /\ o < BlockSize
    BY SizeIs
  <2> QED BY <2>1, <2>2, <1>2, SizeIs
<1>4. PICK e \in Nat : e = End(c) /\ e = IF f + k < b THEN f + k ELSE b
  <2>1. End(c) = IF f + k < b THEN f + k ELSE b
    BY <1>1, <1>2, <1>3 DEF End
  <2>2. (IF f + k < b THEN f + k ELSE b) \in Nat
    BY <1>3
  <2> QED BY <2>1, <2>2
<1>5. a < e /\ e <= b /\ e <= f + k
  BY <1>1, <1>3, <1>4
<1>6. First(x + 1) = f + k
  BY <1>3, FirstIs
<1>7. ASSUME NEW i \in a..(e - 1) PROVE Ord(i) = x
  <2>1. i \in Int /\ a <= i /\ i < f + k
    BY <1>3, <1>5
  <2>2. x <= Ord(i) /\ Ord(i) \in Int
    BY <2>1, <1>2, OrdMono
  <2>3. First(x + 1) <= i <=> x + 1 <= Ord(i)
    BY <2>1, OrdAt
  <2> QED BY <2>1, <2>2, <2>3, <1>3, <1>6
<1>8. InBlock(c) = a..(e - 1)
  BY <1>1, <1>4 DEF InBlock
<1>9. e < b => e = First(x + 1)
  BY <1>4, <1>6
<1> QED BY <1>1, <1>2, <1>4, <1>5, <1>7, <1>8, <1>9

\* The same of its locals themselves.
LEMMA TakenBounds ==
    ASSUME CountInv, ClaimsApart, NEW c \in Taking
    PROVE  /\ local[c].next \in Nat /\ local[c].stop \in Nat /\ End(c) \in Nat /\ head \in Nat /\ tail \in Nat
           /\ local[c].next < End(c) /\ End(c) <= local[c].stop /\ local[c].stop <= head /\ head <= tail
           /\ InBlock(c) = local[c].next..(End(c) - 1)
           /\ \A i \in local[c].next..(End(c) - 1) : Ord(i) = Ord(local[c].next)
<1>1. PICK a \in Nat, b \in Nat, e \in Nat, h \in Nat, t \in Nat :
             /\ a = local[c].next /\ b = local[c].stop /\ e = End(c) /\ h = head /\ t = tail
             /\ a < e /\ e <= b /\ b <= h /\ h <= t
             /\ \A i \in a..(e - 1) : Ord(i) = Ord(a)
  BY TakingIs
<1> QED BY <1>1 DEF InBlock

\* The items of a number.
LEMMA ItemsIs ==
    ASSUME NEW x \in Int
    PROVE  /\ \A i \in Int : i \in ItemsOf(x) <=> Ord(i) = x
           /\ \A i \in ItemsOf(x) : i \in Int /\ \E o \in Offsets : i = First(x) + o /\ i % BlockSize = o
           /\ \A o \in Offsets : First(x) + o \in ItemsOf(x)
           /\ IsFiniteSet(ItemsOf(x)) /\ Cardinality(ItemsOf(x)) = BlockSize
<1>1. PICK f \in Int, k \in Nat : f = First(x) /\ k = BlockSize /\ k >= 2
  BY FirstIs, SizeIs
<1>2. ItemsOf(x) = f..(f + k - 1)
  BY <1>1 DEF ItemsOf
<1>3. First(x + 1) = f + k
  BY <1>1, FirstIs
<1>4. ASSUME NEW i \in Int PROVE i \in ItemsOf(x) <=> Ord(i) = x
  <2>1. Ord(i) \in Int /\ (First(x) <= i <=> x <= Ord(i)) /\ (First(x + 1) <= i <=> x + 1 <= Ord(i))
    BY OrdAt
  <2> QED BY <2>1, <1>1, <1>2, <1>3
<1>5. ASSUME NEW i \in ItemsOf(x)
      PROVE  i \in Int /\ \E o \in Offsets : i = First(x) + o /\ i % BlockSize = o
  <2>1. i \in Int /\ i - f \in 0..(k - 1)
    BY <1>1, <1>2
  <2>2. PICK o \in Offsets : o = i - f
    BY <2>1, <1>1, SizeIs
  <2>3. i = First(x) + o
    BY <2>1, <2>2, <1>1
  <2>4. (First(x) + o) % BlockSize = o
    BY OrdOf
  <2> QED BY <2>1, <2>3, <2>4
<1>6. \A o \in Offsets : First(x) + o \in ItemsOf(x)
  BY <1>1, <1>2, SizeIs
<1>7. IsFiniteSet(ItemsOf(x)) /\ Cardinality(ItemsOf(x)) = BlockSize
  <2>1. PICK z \in Int : z = f + k - 1
    OBVIOUS
  <2>2. IsFiniteSet(f..z) /\ Cardinality(f..z) = IF f > z THEN 0 ELSE z - f + 1
    BY FS_Interval
  <2>3. ~ f > z /\ z - f + 1 = k
    BY <2>1, <1>1
  <2> QED BY <2>1, <2>2, <2>3, <1>1, <1>2
<1> QED BY <1>4, <1>5, <1>6, <1>7

\* Who has not counted an item has its number at or after low.
LEMMA WaitedFor ==
    ASSUME NEW low \in Nat, OverBelow(low), NEW i \in Nat, ~ CountedOut(i)
    PROVE  low <= Ord(i) /\ Ord(i) \in Nat
<1>1. ~ i < First(low) /\ First(low) \in Int
  BY FirstIs DEF OverBelow
<1>2. First(low) <= i <=> low <= Ord(i)
  BY OrdAt
<1>3. Ord(i) \in Int
  BY OrdAt
<1> QED BY <1>1, <1>2, <1>3

\* A consumer that has to count its next item: it lies between low and the tail's block.
LEMMA NextAhead ==
    ASSUME CountInv, ClaimsApart, OpSound, NEW low \in Nat, OverBelow(low), NEW c \in Taking,
           NEW i \in Nat, CountsFrom(c) <= i, i < local[c].stop
    PROVE  /\ ~ CountedOut(i)
           /\ Ord(i) \in low..Ord(tail - 1) /\ Ord(i) \in Nat
<1>1. PICK a \in Nat, b \in Nat, e \in Nat, h \in Nat, t \in Nat :
             /\ a = local[c].next /\ b = local[c].stop /\ e = End(c) /\ h = head /\ t = tail
             /\ a < e /\ e <= b /\ b <= h /\ h <= t
  BY TakenBounds
<1>2. CountsFrom(c) \in Nat /\ i < b
  BY <1>1 DEF CountsFrom
<1>3. ~ CountedOut(i)
  BY <1>1, <1>2 DEF CountedOut
<1>4. low <= Ord(i) /\ Ord(i) \in Nat
  BY <1>3, WaitedFor
<1>5. i <= t - 1 /\ t - 1 \in Int /\ i \in Int
  BY <1>1, <1>2
<1>6. Ord(i) <= Ord(t - 1) /\ Ord(t - 1) \in Int
  BY <1>5, OrdMono
<1> QED BY <1>1, <1>3, <1>4, <1>6

-----------------------------------------------------------------------------
\* The producer's steps.  They leave the consumers and what these have counted alone.

Steady == Still /\ UNCHANGED <<optimistic, overcommit, taken>>

LEMMA SteadyKeeps ==
    ASSUME Still
    PROVE  /\ head' = head /\ consumer' = consumer /\ local' = local
           /\ Taking' = Taking /\ Holding' = Holding
           /\ \A c : /\ CountsFrom(c)' = CountsFrom(c) /\ CopiesFrom(c)' = CopiesFrom(c)
                     /\ NeedsFrom(c)' = NeedsFrom(c)
           /\ \A i : CountedOut(i)' <=> CountedOut(i)
           /\ \A x : CountedOf(x)' = CountedOf(x) /\ (Over(x)' <=> Over(x))
<1>1. head' = head /\ consumer' = consumer /\ local' = local
  BY DEF Still
<1>2. Taking' = Taking /\ Holding' = Holding
  BY <1>1 DEF Taking, Holding
<1>3. \A c : End(c)' = End(c)
  BY <1>1 DEF End
<1>4. \A c : /\ CountsFrom(c)' = CountsFrom(c) /\ CopiesFrom(c)' = CopiesFrom(c)
             /\ NeedsFrom(c)' = NeedsFrom(c)
  BY <1>1, <1>3 DEF CountsFrom, CopiesFrom, NeedsFrom
<1>5. \A i : CountedOut(i)' <=> CountedOut(i)
  BY <1>1, <1>2, <1>4 DEF CountedOut
<1>6. \A x : CountedOf(x)' = CountedOf(x)
  BY <1>5 DEF CountedOf
<1>7. \A x : Over(x)' <=> Over(x)
  BY <1>5 DEF Over
<1> QED BY <1>1, <1>2, <1>4, <1>5, <1>6, <1>7

LEMMA ClaimsSteady ==
    ASSUME Claims, Steady, tail' \in Nat, tail <= tail'
    PROVE  Claims'
<1>1. Still /\ UNCHANGED <<optimistic, overcommit, taken>> /\ CountInv /\ ClaimsApart /\ CopiedOnce /\ ClearsOnce
  BY DEF Claims, Steady
<1>2. /\ head' = head /\ consumer' = consumer /\ local' = local /\ Taking' = Taking
      /\ \A c : CopiesFrom(c)' = CopiesFrom(c)
  BY <1>1, SteadyKeeps
<1>3. Elsewhere
  BY <1>1, <1>2 DEF Elsewhere, CountInv, CountTypes
<1>4. CountInv'
  BY <1>1, <1>3, CountElsewhere
<1>5. ClaimsApart'
  BY <1>1, <1>2 DEF ClaimsApart
<1>6. CopiedOnce'
  BY <1>1, <1>2 DEF CopiedOnce
<1>7. ClearsOnce'
  BY <1>1, <1>2 DEF ClearsOnce
<1> QED BY <1>4, <1>5, <1>6, <1>7 DEF Claims

\* As long as no index is added, numbers keep their slots and entries.
SameSlots ==
    /\ Len(indexes') = Len(indexes)
    /\ \A h \in 1..Len(indexes) : /\ indexes'[h].capacity = indexes[h].capacity
                                  /\ indexes'[h].index = indexes[h].index

LEMMA SlotsKept ==
    ASSUME PoolTypes, SameSlots, NEW Q \in [Nat -> Int]
    PROVE  /\ \A h \in 1..Len(indexes) : Cap(h)' = Cap(h)
           /\ \A h \in 1..Len(indexes), x \in Int :
                SlotOf(Q, h, x)' = SlotOf(Q, h, x) /\ EntryOf(Q, h, x)' = EntryOf(Q, h, x)
           /\ \A x \in Int : EntryNow(Q, x)' = EntryNow(Q, x)
           /\ SlotsRight(Q) => SlotsRight(Q)'
<1>1. Len(indexes') = Len(indexes) /\ \A h \in 1..Len(indexes) :
         indexes'[h].capacity = indexes[h].capacity /\ indexes'[h].index = indexes[h].index
  BY DEF SameSlots
<1>2. \A h \in 1..Len(indexes) : Cap(h)' = Cap(h)
  BY <1>1 DEF Cap
<1>3. \A h \in 1..Len(indexes), x \in Int : SlotOf(Q, h, x)' = SlotOf(Q, h, x)
  BY <1>2 DEF SlotOf
<1>4. \A h \in 1..Len(indexes), x \in Int : EntryOf(Q, h, x)' = EntryOf(Q, h, x)
  BY <1>1, <1>3 DEF EntryOf
<1>5. \A x \in Int : EntryNow(Q, x)' = EntryNow(Q, x)
  BY <1>1, <1>4, LastIs DEF EntryNow
<1>6. SlotsRight(Q) => SlotsRight(Q)'
  BY <1>1, <1>2, <1>3, <1>5 DEF SlotsRight
<1> QED BY <1>2, <1>3, <1>4, <1>5, <1>6

\* Then consumers find what they found, if no key is taken back and no block
\* from an entry they know.
LEMMA ReadersKept ==
    ASSUME Claims, PoolTypes, OpSound, SameSlots, Still,
           NEW Q, NEW low, NEW new \in Nat, Numbered(Q, low),
           \A e \in 1..Len(entries) : KeyOf(e) # -1 => KeyOf(e)' # -1,
           \A x \in low..Ord(tail - 1) : ValueNow(Q, x) # 0 =>
                ValueNow(Q, x)' = ValueNow(Q, x) /\ new <= x
    PROVE  ReadersSound(Q, new)'
<1>1. /\ Q \in [Nat -> Int] /\ low \in Nat /\ OverBelow(low) /\ ReadersSound(Q, low)
      /\ CountInv /\ ClaimsApart
  BY DEF Numbered, IndexSound, Claims
<1>2. /\ consumer' = consumer /\ local' = local /\ Taking' = Taking
      /\ \A c : NeedsFrom(c)' = NeedsFrom(c)
      /\ \A x : Over(x)' <=> Over(x)
  BY SteadyKeeps
<1>3. /\ \A h \in 1..Len(indexes) : Cap(h)' = Cap(h)
      /\ \A h \in 1..Len(indexes), x \in Int :
           SlotOf(Q, h, x)' = SlotOf(Q, h, x) /\ EntryOf(Q, h, x)' = EntryOf(Q, h, x)
      /\ \A x \in Int : EntryNow(Q, x)' = EntryNow(Q, x)
  BY <1>1, SlotsKept
<1> SUFFICES ASSUME NEW c \in Taking, consumer[c] # "index"
             PROVE  ReaderSound(Q, new, c)'
  BY <1>2 DEF ReadersSound
<1>4. ReaderSound(Q, low, c)
  BY <1>1 DEF ReadersSound
<1>5. PICK a \in Nat, b \in Nat, e \in Nat, h \in Nat, t \in Nat :
             /\ a = local[c].next /\ b = local[c].stop /\ e = End(c) /\ h = head /\ t = tail
             /\ a < e /\ e <= b /\ b <= h /\ h <= t
  BY <1>1, TakenBounds
<1>6. PICK hd \in 1..Len(indexes) : hd = local[c].header
  BY <1>4 DEF ReaderSound
<1>17. PICK s, v : s = local[c].slot /\ v = local[c].block
  OBVIOUS
<1>18. PICK n \in Nat : n = NeedsFrom(c)
  BY <1>5 DEF NeedsFrom
<1>7. s = local[c].slot /\ v = local[c].block /\ n = NeedsFrom(c)
  BY <1>17, <1>18
<1>8. ASSUME NEW i \in n..(b - 1) PROVE EntryOf(Q, hd, Ord(i))' = EntryNow(Q, Ord(i))'
  <2>1. i \in Int
    BY <1>5, <1>7
  <2>2. PICK x \in Int : x = Ord(i)
    BY <2>1, OrdAt
  <2>3. EntryOf(Q, hd, x) = EntryNow(Q, x)
    BY <2>2, <1>4, <1>5, <1>6, <1>7 DEF ReaderSound
  <2>4. EntryOf(Q, hd, x)' = EntryNow(Q, x)'
    BY <2>3, <1>3, <1>6
  <2> QED BY <2>2, <2>4
<1>9. consumer[c] = "key" => s \in 0..(Cap(hd)' - 1) /\ KeyOf(indexes[hd].index[s])' # -1
  <2> SUFFICES ASSUME consumer[c] = "key"
               PROVE  s \in 0..(Cap(hd)' - 1) /\ KeyOf(indexes[hd].index[s])' # -1
    OBVIOUS
  <2>1. s \in 0..(Cap(hd) - 1) /\ KeyOf(indexes[hd].index[s]) # -1
    BY <1>4, <1>6, <1>7 DEF ReaderSound
  <2>2. PICK f \in 1..Len(entries) : f = indexes[hd].index[s]
    BY <2>1, <1>6, IndexIs
  <2>3. indexes'[hd].index[s] = f
    BY <2>2, <1>6 DEF SameSlots
  <2>4. KeyOf(f)' # -1
    BY <2>1, <2>2
  <2>5. KeyOf(indexes[hd].index[s])' = KeyOf(f)'
    BY <2>3 DEF KeyOf
  <2> QED BY <2>1, <2>4, <2>5, <1>3, <1>6
<1>10. PICK x \in Int : x = Ord(a)
  <2>1. a \in Int
    OBVIOUS
  <2> QED BY <2>1, OrdAt
<1>11. consumer[c] \in {"count", "clear"} => ValueNow(Q, x)' = v /\ v # 0 /\ new <= x
  <2> SUFFICES ASSUME consumer[c] \in {"count", "clear"}
               PROVE  ValueNow(Q, x)' = v /\ v # 0 /\ new <= x
    OBVIOUS
  <2>1. ValueNow(Q, x) = v /\ v # 0
    BY <1>4, <1>5, <1>7, <1>10 DEF ReaderSound
  <2>2. x \in low..Ord(tail - 1)
    <3>1. CASE consumer[c] = "count"
      <4>1. CountsFrom(c) = a
        BY <3>1, <1>5 DEF CountsFrom
      <4>2. CountsFrom(c) <= a /\ a < local[c].stop
        BY <4>1, <1>5
      <4>3. Ord(a) \in low..Ord(tail - 1)
        BY <4>2, <1>1, NextAhead
      <4> QED BY <4>3, <1>10
    <3>2. CASE consumer[c] = "clear"
      <4>1. low <= x
        BY <3>2, <1>4, <1>5, <1>10 DEF ReaderSound
      <4>2. a <= t - 1 /\ t - 1 \in Int /\ a \in Int
        BY <1>5
      <4>3. Ord(a) <= Ord(t - 1) /\ Ord(t - 1) \in Int
        BY <4>2, OrdMono
      <4> QED BY <4>1, <4>3, <1>1, <1>5, <1>10
    <3> QED BY <3>1, <3>2
  <2> QED BY <2>1, <2>2
<1>12. consumer[c] = "clear" => Over(x)
  BY <1>4, <1>5, <1>10 DEF ReaderSound
<1>13. consumer[c] \in {"copy", "count", "clear", "free", "advance"} => s = SlotOf(Q, hd, x)'
  BY <1>3, <1>4, <1>5, <1>6, <1>7, <1>10 DEF ReaderSound
<1>14. hd \in 1..Len(indexes')
  BY <1>6 DEF SameSlots
<1>15. /\ local'[c].header = hd /\ local'[c].slot = s /\ local'[c].block = v /\ local'[c].next = a
       /\ local'[c].stop = b /\ NeedsFrom(c)' = n /\ consumer'[c] = consumer[c]
  BY <1>2, <1>5, <1>6, <1>7
<1>16. Over(x)' <=> Over(x)
  BY <1>2
<1> QED BY <1>8, <1>9, <1>10, <1>11, <1>12, <1>13, <1>14, <1>15, <1>16 DEF ReaderSound

\* Setting the key, or the value, of an entry.
KeyedAs(e, k) == [entries EXCEPT ![e].key = k]
ValuedAs(e, b) == [entries EXCEPT ![e].value = b]

LEMMA KeySet ==
    ASSUME PoolTypes, NEW e \in 1..Len(entries), NEW k \in Int, entries' = KeyedAs(e, k)
    PROVE  /\ entries' \in Seq(IndexEntries) /\ Len(entries') = Len(entries)
           /\ \A f \in 1..Len(entries) : ValueOf(f)' = ValueOf(f)
           /\ \A f \in 1..Len(entries) : KeyOf(f)' = IF f = e THEN k ELSE KeyOf(f)
<1>1. PICK n \in Nat : n = Len(entries) /\ entries \in [1..n -> IndexEntries]
  BY LenProperties DEF PoolTypes
<1>2. PICK r \in IndexEntries : r = entries[e]
  BY <1>1
<1>3. PICK w : w = [r EXCEPT !.key = k]
  OBVIOUS
<1>4. w \in IndexEntries /\ w.key = k /\ w.value = r.value
  BY <1>3 DEF IndexEntries
<1>5. entries' = [entries EXCEPT ![e] = w]
  BY <1>2, <1>3 DEF KeyedAs
<1>6. entries' \in [1..n -> IndexEntries] /\ \A f \in 1..n : entries'[f] = IF f = e THEN w ELSE entries[f]
  BY <1>1, <1>4, <1>5
<1>7. entries' \in Seq(IndexEntries) /\ Len(entries') = n
  BY <1>6
<1>8. \A f \in 1..n : ValueOf(f)' = ValueOf(f) /\ KeyOf(f)' = IF f = e THEN k ELSE KeyOf(f)
  BY <1>2, <1>4, <1>6 DEF ValueOf, KeyOf
<1> QED BY <1>1, <1>7, <1>8

LEMMA ValueSet ==
    ASSUME PoolTypes, NEW e \in 1..Len(entries), NEW b \in Nat, entries' = ValuedAs(e, b)
    PROVE  /\ entries' \in Seq(IndexEntries) /\ Len(entries') = Len(entries)
           /\ \A f \in 1..Len(entries) : KeyOf(f)' = KeyOf(f)
           /\ \A f \in 1..Len(entries) : ValueOf(f)' = IF f = e THEN b ELSE ValueOf(f)
<1>1. PICK n \in Nat : n = Len(entries) /\ entries \in [1..n -> IndexEntries]
  BY LenProperties DEF PoolTypes
<1>2. PICK r \in IndexEntries : r = entries[e]
  BY <1>1
<1>3. PICK w : w = [r EXCEPT !.value = b]
  OBVIOUS
<1>4. w \in IndexEntries /\ w.value = b /\ w.key = r.key
  BY <1>3 DEF IndexEntries
<1>5. entries' = [entries EXCEPT ![e] = w]
  BY <1>2, <1>3 DEF ValuedAs
<1>6. entries' \in [1..n -> IndexEntries] /\ \A f \in 1..n : entries'[f] = IF f = e THEN w ELSE entries[f]
  BY <1>1, <1>4, <1>5
<1>7. entries' \in Seq(IndexEntries) /\ Len(entries') = n
  BY <1>6
<1>8. \A f \in 1..n : KeyOf(f)' = KeyOf(f) /\ ValueOf(f)' = IF f = e THEN b ELSE ValueOf(f)
  BY <1>2, <1>4, <1>6 DEF ValueOf, KeyOf
<1> QED BY <1>1, <1>7, <1>8

\* Keys, or values, that all entries keep.
KeysStay == Len(entries') = Len(entries) /\ \A e \in 1..Len(entries) : KeyOf(e)' = KeyOf(e)
ValuesStay == Len(entries') = Len(entries) /\ \A e \in 1..Len(entries) : ValueOf(e)' = ValueOf(e)

LEMMA TypesKept ==
    ASSUME PoolTypes, SameSlots, indexes' \in Seq(IndexHeaders),
           entries' \in Seq(IndexEntries), Len(entries') = Len(entries),
           blocks' \in Seq(PoolBlocks), free' \subseteq 1..Len(blocks')
    PROVE  PoolTypes'
<1>1. Len(indexes) \in Nat /\ Len(indexes) # 0
  BY LastIs
<1>2. indexes' # <<>>
  BY <1>1, EmptySeq DEF SameSlots
<1>3. ASSUME NEW h \in 1..Len(indexes'), NEW s \in 0..(Cap(h)' - 1)
      PROVE  indexes'[h].index[s] \in 1..Len(entries')
  <2>1. h \in 1..Len(indexes) /\ s \in 0..(Cap(h) - 1) /\ indexes'[h].index = indexes[h].index
    BY <1>3 DEF SameSlots, Cap
  <2> QED BY <2>1, IndexIs
<1> QED BY <1>2, <1>3 DEF PoolTypes

LEMMA OwnedKept ==
    ASSUME BlocksOwned, ValuesStay, Still, free' = free, Len(blocks') = Len(blocks)
    PROVE  BlocksOwned'
<1>1. Holding' = Holding /\ local' = local
  BY SteadyKeeps
<1> QED BY <1>1 DEF BlocksOwned, ValuesStay

\* What the entry of a number comes to hold.
LEMMA NowKept ==
    ASSUME PoolTypes, SameSlots, NEW Q \in [Nat -> Int], NEW x \in Int, NEW e, e = EntryNow(Q, x)
    PROVE  /\ EntryNow(Q, x)' = e /\ e \in 1..Len(entries)
           /\ KeyOf(EntryNow(Q, x))' = KeyOf(e)' /\ ValueNow(Q, x)' = ValueOf(e)'
<1>1. EntryNow(Q, x)' = e /\ e \in 1..Len(entries)
  BY SlotsKept, EntryNowIs
<1>2. KeyOf(EntryNow(Q, x))' = KeyOf(e)' /\ ValueNow(Q, x)' = ValueOf(e)'
  BY <1>1 DEF KeyOf, ValueOf, ValueNow
<1> QED BY <1>1, <1>2

\* The blocks stay sound as long as values, items and the chain are the same.
LEMMA BlocksKept ==
    ASSUME CountInv, PoolTypes, OpSound, SameSlots, Still, ValuesStay,
           UNCHANGED <<blocks, tail, tailBlock>>,
           NEW Q, NEW low, NEW new \in Nat, low <= new, Numbered(Q, low),
           TopNo' = TopNo, op'.chain = op.chain,
           producer' \in {"tail", "block"} =>
             \E x \in Int : x = KeyedNo' /\ op'.entry = EntryNow(Q, x) /\ ValueNow(Q, x) = 0
    PROVE  BlocksSound(Q, new)'
<1>1. /\ Q \in [Nat -> Int] /\ low \in Nat
      /\ EmptyOver(Q, low) /\ DoneRight(Q, low) /\ CellsRight(Q, low) /\ ChainRight(Q) /\ TailRight(Q, low)
  BY DEF Numbered, IndexSound, BlocksSound
<1>2. /\ \A x : CountedOf(x)' = CountedOf(x)
      /\ \A x : Over(x)' <=> Over(x)
  BY SteadyKeeps
<1>3. \A x \in Int : EntryNow(Q, x)' = EntryNow(Q, x) /\ EntryNow(Q, x) \in 1..Len(entries)
  BY <1>1, SlotsKept, EntryNowIs
<1>4. \A x \in Int : ValueNow(Q, x)' = ValueNow(Q, x)
  BY <1>3 DEF ValueNow, ValuesStay, ValueOf
<1>5. PICK t \in Int, p \in Int, k \in Nat : t = Ord(tail - 1) /\ p = TopNo /\ k = Len(op.chain)
  BY NumbersAre
<1>6. EmptyOver(Q, new)'
  BY <1>1, <1>2, <1>4, <1>5 DEF EmptyOver
<1>7. DoneRight(Q, new)'
  <2> SUFFICES ASSUME NEW x \in new..p, ValueNow(Q, x)' # 0
               PROVE  blocks[ValueNow(Q, x)'].done = Cardinality(CountedOf(x)')
    BY <1>5 DEF DoneRight
  <2>1. x \in low..TopNo /\ ValueNow(Q, x)' = ValueNow(Q, x)
    BY <1>1, <1>4, <1>5
  <2> QED BY <2>1, <1>1, <1>2 DEF DoneRight
<1>8. CellsRight(Q, new)'
  <2> SUFFICES ASSUME NEW x \in new..p, ValueNow(Q, x)' # 0, NEW o \in Offsets, First(x) + o < tail
               PROVE  blocks[ValueNow(Q, x)'].cells[o] = First(x) + o + 1
    BY <1>5 DEF CellsRight
  <2>1. x \in low..TopNo /\ ValueNow(Q, x)' = ValueNow(Q, x)
    BY <1>1, <1>4, <1>5
  <2> QED BY <2>1, <1>1 DEF CellsRight
<1>9. ChainRight(Q)'
  <2>1. ASSUME NEW j \in 1..k PROVE ValueNow(Q, t + j)' = op.chain[j] /\ op.chain[j] # 0
    <3>1. t + j \in Int
      OBVIOUS
    <3>2. ValueNow(Q, t + j) = op.chain[j] /\ op.chain[j] # 0
      BY <1>1, <1>5 DEF ChainRight
    <3> QED BY <3>1, <3>2, <1>4
  <2>2. ASSUME producer' \in {"tail", "block"}
        PROVE  op'.entry = EntryNow(Q, KeyedNo)' /\ ValueNow(Q, KeyedNo)' = 0
    <3>1. PICK x \in Int : x = KeyedNo' /\ op'.entry = EntryNow(Q, x) /\ ValueNow(Q, x) = 0
      BY <2>2
    <3>2. op'.entry = EntryNow(Q, x)' /\ ValueNow(Q, x)' = 0
      BY <3>1, <1>3, <1>4
    <3>3. EntryNow(Q, KeyedNo)' = EntryNow(Q, x)' /\ ValueNow(Q, KeyedNo)' = ValueNow(Q, x)'
      BY <3>1 DEF EntryNow, EntryOf, SlotOf, ValueNow
    <3> QED BY <3>2, <3>3
  <2> QED BY <2>1, <2>2, <1>5 DEF ChainRight
<1>10. TailRight(Q, new)'
  <2>1. ValueNow(Q, Ord(tail - 1))' = ValueNow(Q, t)'
    BY <1>5 DEF EntryNow, EntryOf, SlotOf, ValueNow
  <2>2. ValueNow(Q, t)' = ValueNow(Q, t)
    BY <1>4
  <2> QED BY <2>1, <2>2, <1>1, <1>5 DEF TailRight
<1> QED BY <1>6, <1>7, <1>8, <1>9, <1>10 DEF BlocksSound

\* Where the next entry is.
LEMMA CandidateIs ==
    ASSUME CountInv, PoolTypes, OpSound, NEW Q \in [Nat -> Int], TailsRight(Q),
           producer \in {"entry", "tail"}
    PROVE  \E t \in Int : /\ t = TopNo /\ ShownNo = t
                          /\ Implicit!NewTail = SlotOf(Q, Len(indexes), t + 1)
                          /\ Implicit!Candidate = EntryNow(Q, t + 1)
<1>1. PICK t \in Int : t = TopNo /\ ShownNo = t
  BY NumbersAre DEF ShownNo
<1>2. PICK m \in 1..Len(indexes) : m = Len(indexes)
  BY LastIs
<1>3. PICK n \in Nat : n = Cap(m) /\ n >= 1 /\ n = indexes[m].capacity
  BY IndexIs DEF Cap
<1>4. PICK z \in Int : z = t + Q[m]
  <2>1. m \in Nat
    BY LastIs
  <2> QED BY <2>1
<1>5. indexes[m].tail = z % n
  BY <1>1, <1>2, <1>3, <1>4 DEF TailsRight, SlotOf
<1>6. ((z % n) + 1) % n = (z + 1) % n
  <2>1. PICK d \in Int : d = 1
    OBVIOUS
  <2>2. ((z % n) + d) % n = (z + d) % n
    BY <1>3, SlotAdd
  <2> QED BY <2>1, <2>2
<1>7. z + 1 = (t + 1) + Q[m]
  <2>1. PICK k \in Int : k = Q[m]
    BY LastIs
  <2> QED BY <2>1, <1>4
<1>8. Implicit!NewTail = SlotOf(Q, m, t + 1)
  BY <1>2, <1>3, <1>5, <1>6, <1>7 DEF Implicit!NewTail, Implicit!Current, SlotOf
<1> QED BY <1>1, <1>2, <1>8 DEF Implicit!Candidate, Implicit!Current, EntryNow, EntryOf

\* No item has the key of an entry that was never used.
LEMMA FirstKey == ASSUME NEW x \in Int PROVE First(x) \in Int /\ First(x) # -1
<1> SUFFICES ASSUME First(x) = -1 PROVE FALSE
  BY FirstIs
<1>1. BlockSize \in Nat /\ BlockSize >= 2 /\ 0 \in Offsets /\ BlockSize - 1 \in Offsets
  BY SizeIs
<1>2. (First(x) + 0) % BlockSize = 0
  BY <1>1, OrdOf
<1>3. First(-1) + (BlockSize - 1) = -1
  <2>1. First(0 - 1) = First(0) - BlockSize /\ First(0) = 0
    BY FirstIs
  <2>2. 0 - 1 = -1
    OBVIOUS
  <2> QED BY <2>1, <2>2, <1>1
<1>4. (First(-1) + (BlockSize - 1)) % BlockSize = BlockSize - 1
  BY <1>1, OrdOf
<1>5. First(x) + 0 = -1
  BY FirstIs
<1> QED BY <1>1, <1>2, <1>3, <1>4, <1>5

\* An entry without a key has no block.
LEMMA KeyedFirst ==
    ASSUME PoolTypes, NEW Q, NEW low, IndexSound(Q, low), NEW e \in 1..Len(entries), KeyOf(e) = -1
    PROVE  ValueOf(e) = 0
<1> SUFFICES ASSUME ValueOf(e) # 0 PROVE FALSE
  OBVIOUS
<1>1. PICK x \in low..KeyedNo : e = EntryNow(Q, x)
  BY DEF IndexSound, ValuesShown
<1>2. KeyOf(e) = First(x) /\ x \in Int
  BY <1>1 DEF IndexSound, KeysShown
<1> QED BY <1>2, FirstKey

LEMMA SlotFreeIs ==
    ASSUME PoolTypes, NEW Q, NEW low, IndexSound(Q, low), Implicit!SlotFree,
           NEW e \in 1..Len(entries), e = Implicit!Candidate
    PROVE  ValueOf(e) = 0
<1>1. entries[e].key = -1 \/ entries[e].value = 0
  BY DEF Implicit!SlotFree, Implicit!Invalid, Implicit!NoBlock
<1> QED BY <1>1, KeyedFirst DEF KeyOf, ValueOf

\* Once round an index is the same slot.
LEMMA OnceRound ==
    ASSUME NEW n \in Nat, n >= 1, NEW a \in Int
    PROVE  (a + n) % n = a % n
<1>1. PICK q \in Int, r \in 0..(n - 1) : q = a \div n /\ r = a % n
  OBVIOUS
<1>2. a = n * q + r
  BY <1>1
<1>3. PICK z \in Int : z = q + 1
  OBVIOUS
<1>4. n * z = n * q + n
  BY <1>3
<1>5. a + n = n * z + r
  BY <1>2, <1>4
<1>6. (n * z + r) % n = r
  OBVIOUS
<1> QED BY <1>1, <1>5, <1>6

LEMMA EntryRound ==
    ASSUME PoolTypes, NEW Q \in [Nat -> Int], NEW x \in Int, NEW y \in Int, y = x + Cap(Len(indexes))
    PROVE  EntryNow(Q, y) = EntryNow(Q, x)
<1>1. PICK m \in 1..Len(indexes) : m = Len(indexes)
  BY LastIs
<1>2. PICK n \in Nat : n = Cap(m) /\ n >= 1
  BY IndexIs
<1>3. PICK k \in Int : k = Q[m]
  BY LastIs
<1>4. PICK a \in Int : a = x + k
  OBVIOUS
<1>5. (a + n) % n = a % n
  BY <1>2, OnceRound
<1>6. y + k = a + n
  BY <1>1, <1>2, <1>4
<1>7. SlotOf(Q, m, y) = SlotOf(Q, m, x)
  BY <1>2, <1>3, <1>4, <1>5, <1>6 DEF SlotOf
<1> QED BY <1>1, <1>7 DEF EntryNow, EntryOf

\* The number of the next block starts where the code says.
LEMMA NewBaseIs ==
    ASSUME CountInv, OpSound
    PROVE  Implicit!NewBase = First(TopNo + 1)
<1>1. PICK t \in Int, k \in Nat : t = Ord(tail - 1) /\ k = Len(op.chain) /\ TopNo = t + k /\ tail - 1 \in Int
  BY NumbersAre
<1>2. Base(tail - 1) = First(t)
  BY <1>1, OrdIs
<1>3. BlockSize * (k + 1) = First(k + 1)
  BY DEF First
<1>4. First(t + (k + 1)) = First(t) + First(k + 1)
  BY FirstAdd
<1>5. TopNo + 1 = t + (k + 1)
  BY <1>1
<1> QED BY <1>1, <1>2, <1>3, <1>4, <1>5, SharedBase DEF Implicit!NewBase

\* The operation remembers its entry.
EntryAs(o, e) == [o EXCEPT !.entry = e]

LEMMA EntryAsIs ==
    ASSUME NEW o \in Operations, NEW e \in Nat
    PROVE  /\ EntryAs(o, e) \in Operations /\ EntryAs(o, e).entry = e
           /\ EntryAs(o, e).n = o.n /\ EntryAs(o, e).need = o.need /\ EntryAs(o, e).chain = o.chain
BY DEF Operations, EntryAs

\* The candidate's key is set: it may be the entry of the oldest number, which
\* is over.
LEMMA SetKeyKept ==
    ASSUME Claims, PoolTypes, OpSound, BlocksOwned, NEW Q \in [Nat -> Int], NEW low \in Nat,
           Numbered(Q, low), Implicit!SetKey
    PROVE  ImplicitInv' /\ UNCHANGED <<head, taken, tail>>
<1>1. /\ CountInv /\ ClaimsApart /\ IndexSound(Q, low) /\ BlocksSound(Q, low) /\ ReadersSound(Q, low)
      /\ Q \in [Nat -> Int] /\ low \in Nat /\ SlotsRight(Q) /\ KeysRight(Q) /\ TailsRight(Q)
      /\ Window(low) /\ OverBelow(low) /\ KeysShown(Q, low) /\ ValuesShown(Q, low)
      /\ EmptyOver(Q, low) /\ ChainRight(Q)
  BY DEF Claims, Numbered, IndexSound, BlocksSound
<1>2. /\ producer = "entry" /\ producer' = "tail" /\ Implicit!SlotFree
      /\ UNCHANGED <<tail, head, optimistic, overcommit, consumer, local, taken, blocks, free, indexes, tailBlock>>
  BY DEF Implicit!SetKey, Implicit!counters, Implicit!pool, Implicit!reading
<1>3. Still /\ Steady /\ SameSlots /\ tail' = tail
  BY <1>2 DEF Still, Steady, SameSlots
<1>4. PICK p \in Int : /\ p = TopNo /\ ShownNo = p /\ Implicit!NewTail = SlotOf(Q, Len(indexes), p + 1)
                       /\ Implicit!Candidate = EntryNow(Q, p + 1)
  BY <1>1, <1>2, CandidateIs
<1>5. PICK t \in Int, k \in Nat : t = Ord(tail - 1) /\ k = Len(op.chain) /\ p = t + k /\ t >= -1
  BY <1>1, <1>4, NumbersAre
<1>6. KeyedNo = p
  BY <1>2, <1>4 DEF KeyedNo
<1>7. PICK m \in 1..Len(indexes), n \in Nat : m = Len(indexes) /\ n = Cap(m) /\ n >= 1
  BY LastIs, IndexIs
<1>8. low <= t + 1 /\ p - low < n
  BY <1>1, <1>5, <1>6, <1>7 DEF Window
<1>40. /\ low \in Nat /\ p \in Int /\ t \in Int /\ k \in Nat /\ n \in Nat /\ n >= 1
       /\ p = t + k /\ low <= t + 1 /\ p - low < n /\ t >= -1
  BY <1>1, <1>4, <1>5, <1>7, <1>8
<1>9. PICK c \in 1..Len(entries) : c = EntryNow(Q, p + 1)
  <2>1. p + 1 \in Int
    BY <1>4
  <2> QED BY <2>1, <1>1, EntryNowIs
<1>10. ValueOf(c) = 0
  BY <1>1, <1>2, <1>4, <1>9, SlotFreeIs
<1>11. PICK f \in Int : f = First(p + 1) /\ f # -1
  <2>1. PICK y \in Int : y = p + 1
    BY <1>4
  <2>2. First(y) \in Int /\ First(y) # -1
    BY FirstKey
  <2> QED BY <2>1, <2>2
<1>12. entries' = KeyedAs(c, f)
  BY <1>1, <1>4, <1>9, <1>11, NewBaseIs DEF Implicit!SetKey, KeyedAs
<1>13. /\ entries' \in Seq(IndexEntries) /\ Len(entries') = Len(entries)
       /\ \A e \in 1..Len(entries) : ValueOf(e)' = ValueOf(e)
       /\ \A e \in 1..Len(entries) : KeyOf(e)' = IF e = c THEN f ELSE KeyOf(e)
  BY <1>12, KeySet
<1>14. PICK o \in Operations : o = op /\ op' = EntryAs(o, c)
  <2>1. op' = [op EXCEPT !.entry = Implicit!Candidate] /\ op \in Operations
    BY DEF Implicit!SetKey, OpSound
  <2> QED BY <2>1, <1>4, <1>9 DEF EntryAs
<1>15. op' \in Operations /\ op'.entry = c /\ op'.n = op.n /\ op'.need = op.need /\ op'.chain = op.chain
  <2>1. c \in Nat
    BY <1>9, LastIs
  <2> QED BY <2>1, <1>14, EntryAsIs
<1>16. TopNo' = p /\ KeyedNo' = p + 1 /\ ShownNo' = p
  BY <1>2, <1>4, <1>15 DEF TopNo, KeyedNo, ShownNo
<1>17. ASSUME n <= p + 1 - low
       PROVE  /\ c = EntryNow(Q, low) /\ ValueNow(Q, low) = 0 /\ low <= t
              /\ \A i \in Nat : i < First(low + 1) => CountedOut(i)
  <2>1. p + 1 = low + n /\ p + 1 \in Int /\ low \in Int
    BY <1>40, <1>17
  <2>2. c = EntryNow(Q, low)
    BY <2>1, <1>1, <1>7, <1>9, EntryRound
  <2>3. ValueNow(Q, low) = 0
    BY <2>2, <1>10 DEF ValueNow
  <2>4. low \in low..TopNo
    BY <2>1, <1>4, <1>40
  <2>5. Over(low)
    BY <2>3, <2>4, <1>1 DEF EmptyOver
  <2>6. low <= t
    <3> SUFFICES ASSUME low = t + 1 PROVE FALSE
      BY <1>40
    <3>4. low <= p
      BY <2>4, <1>4, <1>40
    <3>5. k >= 1
      BY <3>4, <1>40
    <3>1. 1 \in 1..Len(op.chain)
      BY <3>5, <1>5
    <3>2. ValueNow(Q, t + 1) # 0
      BY <3>1, <1>1, <1>5 DEF ChainRight
    <3> QED BY <3>2, <2>3
  <2>7. ASSUME NEW i \in Nat, i < First(low + 1) PROVE CountedOut(i)
    <3>1. CASE i < First(low)
      BY <3>1, <1>1 DEF OverBelow
    <3>2. CASE ~ i < First(low)
      <4>4. low \in Int
        BY <1>40
      <4>5. First(low) \in Int /\ First(low + 1) = First(low) + BlockSize
        BY <4>4, FirstIs
      <4>6. BlockSize \in Nat /\ i < First(low) + BlockSize /\ First(low) <= i
        BY <4>5, <3>2, <2>7, SizeIs
      <4>7. First(low) \in Int
        BY <4>5
      <4>2. i \in ItemsOf(low)
        BY <4>6, <4>7 DEF ItemsOf
      <4> QED BY <4>2, <2>5 DEF Over
    <3> QED BY <3>1, <3>2
  <2> QED BY <2>2, <2>3, <2>6, <2>7
<1>18. PICK new \in Nat : new = IF n <= p + 1 - low THEN low + 1 ELSE low
  BY <1>1, <1>4, <1>7
<1>19. low <= new /\ new <= low + 1 /\ new <= t + 1 /\ p + 1 - new < n
  <2>1. n <= p + 1 - low => low <= t
    BY <1>17
  <2> QED BY <2>1, <1>18, <1>40
<1>20. \A x \in Int : EntryNow(Q, x)' = EntryNow(Q, x)
  BY <1>1, <1>3, SlotsKept
<1>21. ASSUME NEW x \in low..p, ValueNow(Q, x) # 0 PROVE new <= x
  <2>1. n <= p + 1 - low => ValueNow(Q, low) = 0
    BY <1>17
  <2>2. n <= p + 1 - low => x # low
    BY <2>1, <1>21
  <2> QED BY <2>2, <1>18, <1>21, <1>40
<1>22. SlotsRight(Q)'
  BY <1>1, <1>3, SlotsKept
<1>23. KeysRight(Q)'
  <2> SUFFICES ASSUME NEW e \in 1..Len(entries), KeyOf(e)' # -1
               PROVE  \E x \in Int : KeyOf(e)' = First(x) /\ e = EntryNow(Q, x)'
    BY <1>13 DEF KeysRight
  <2>1. CASE e = c
    <3>1. p + 1 \in Int
      OBVIOUS
    <3> QED BY <3>1, <2>1, <1>9, <1>11, <1>13, <1>20
  <2>2. CASE e # c
    <3>1. KeyOf(e)' = KeyOf(e)
      BY <2>2, <1>13
    <3>2. PICK x \in Int : KeyOf(e) = First(x) /\ e = EntryNow(Q, x)
      BY <3>1, <1>1 DEF KeysRight
    <3> QED BY <3>1, <3>2, <1>20
  <2> QED BY <2>1, <2>2
<1>24. \A e \in 1..Len(entries) : KeyOf(e) # -1 => KeyOf(e)' # -1
  BY <1>11, <1>13
<1>25. TailsRight(Q)'
  <2>1. indexes'[Len(indexes')].tail = SlotOf(Q, Len(indexes), ShownNo)'
    <3>1. SlotOf(Q, m, p)' = SlotOf(Q, m, p)
      BY <1>1, <1>3, SlotsKept
    <3>2. indexes[m].tail = SlotOf(Q, m, p)
      BY <1>1, <1>4, <1>7 DEF TailsRight
    <3>3. indexes' = indexes /\ Len(indexes) = m /\ ShownNo' = p
      BY <1>2, <1>7, <1>16
    <3>4. SlotOf(Q, Len(indexes), ShownNo)' = SlotOf(Q, m, p)'
      BY <3>3 DEF SlotOf, Cap
    <3> QED BY <3>1, <3>2, <3>3, <3>4
  <2>2. ASSUME NEW h \in 1..(Len(indexes) - 1) PROVE KeyOf(indexes[h].index[indexes[h].tail])' # -1
    <3>1. h \in 1..Len(indexes)
      BY <1>7
    <3>2. PICK e \in 1..Len(entries) : e = indexes[h].index[indexes[h].tail]
      BY <3>1, IndexIs
    <3>3. KeyOf(e)' # -1
      BY <3>2, <1>1, <1>24 DEF TailsRight
    <3> QED BY <3>2, <3>3, <1>2 DEF KeyOf
  <2> QED BY <2>1, <2>2, <1>2 DEF TailsRight
<1>26. Window(new)'
  <2>1. Cap(m)' = n /\ Len(indexes') = m
    BY <1>1, <1>2, <1>3, <1>7, SlotsKept
  <2>2. Ord(tail - 1)' = t /\ Cap(Len(indexes))' = n /\ KeyedNo' = p + 1
    BY <2>1, <1>2, <1>5, <1>7, <1>16 DEF Cap
  <2>3. new <= t + 1 /\ p + 1 - new < n
    BY <1>19
  <2> QED BY <2>2, <2>3 DEF Window
<1>27. OverBelow(new)'
  <2>1. \A i : CountedOut(i)' <=> CountedOut(i)
    BY <1>3, SteadyKeeps
  <2>2. \A i \in Nat : i < First(new) => CountedOut(i)
    BY <1>1, <1>17, <1>18 DEF OverBelow
  <2> QED BY <2>1, <2>2 DEF OverBelow
<1>28. KeysShown(Q, new)'
  <2> SUFFICES ASSUME NEW x \in new..(p + 1) PROVE KeyOf(EntryNow(Q, x))' = First(x)
    BY <1>16 DEF KeysShown
  <2>1. x \in Int
    BY <1>18
  <2>2. PICK e \in 1..Len(entries) : e = EntryNow(Q, x) /\ KeyOf(EntryNow(Q, x))' = KeyOf(e)'
    BY <2>1, <1>1, <1>3, NowKept
  <2>3. CASE x = p + 1
    BY <2>2, <2>3, <1>9, <1>11, <1>13
  <2>4. CASE x # p + 1
    <3>1. x < p + 1 /\ p + 1 < x + n
      BY <2>1, <2>4, <1>18, <1>19
    <3>2. e # c
      <4>1. p + 1 \in Int
        OBVIOUS
      <4>2. EntryNow(Q, x) # EntryNow(Q, p + 1)
        BY <4>1, <3>1, <2>1, <1>1, <1>7, EntriesApart
      <4> QED BY <4>2, <2>2, <1>9
    <3>3. KeyOf(e)' = KeyOf(e)
      BY <3>2, <1>13
    <3>4. x \in low..KeyedNo
      BY <3>1, <1>1, <1>6, <1>18, <1>19
    <3> QED BY <3>3, <3>4, <2>2, <1>1 DEF KeysShown
  <2> QED BY <2>3, <2>4
<1>29. ValuesShown(Q, new)'
  <2> SUFFICES ASSUME NEW e \in 1..Len(entries), ValueOf(e) # 0
               PROVE  \E x \in new..(p + 1) : e = EntryNow(Q, x)'
    BY <1>13, <1>16 DEF ValuesShown
  <2>1. PICK x \in low..p : e = EntryNow(Q, x)
    BY <1>1, <1>6 DEF ValuesShown
  <2>2. new <= x
    BY <2>1, <1>21 DEF ValueNow
  <2>3. x \in new..(p + 1) /\ x \in Int
    BY <2>1, <2>2, <1>1, <1>18
  <2> QED BY <2>1, <2>3, <1>20
<1>30. IndexSound(Q, new)'
  BY <1>1, <1>22, <1>23, <1>25, <1>26, <1>27, <1>28, <1>29 DEF IndexSound
<1>31. ValuesStay
  BY <1>13 DEF ValuesStay
<1>32. BlocksSound(Q, new)'
  <2>1. p + 1 \in Int /\ p + 1 = KeyedNo' /\ op'.entry = EntryNow(Q, p + 1) /\ ValueNow(Q, p + 1) = 0
    BY <1>9, <1>10, <1>15, <1>16 DEF ValueNow
  <2>2. UNCHANGED <<blocks, tail, tailBlock>> /\ TopNo' = TopNo /\ op'.chain = op.chain
    BY <1>2, <1>4, <1>15, <1>16
  <2> QED BY <2>1, <2>2, <1>1, <1>3, <1>19, <1>31, BlocksKept
<1>33. ReadersSound(Q, new)'
  <2>1. ASSUME NEW x \in low..t, ValueNow(Q, x) # 0
        PROVE  ValueNow(Q, x)' = ValueNow(Q, x) /\ new <= x
    <3>1. x \in low..p /\ x \in Int
      BY <2>1, <1>40
    <3>2. new <= x
      BY <3>1, <2>1, <1>21
    <3>3. PICK e \in 1..Len(entries) : e = EntryNow(Q, x) /\ ValueNow(Q, x)' = ValueOf(e)'
      BY <3>1, <1>1, <1>3, NowKept
    <3> QED BY <3>2, <3>3, <1>13 DEF ValueNow
  <2>2. Ord(tail - 1) = t
    BY <1>5
  <2> QED BY <2>1, <2>2, <1>1, <1>3, <1>24, ReadersKept
<1>34. OpSound'
  <2>1. op.n >= 1 /\ Ord(tail + op.n - 1) = TopNo + op.need /\ op.need >= 1
    BY <1>2 DEF OpSound
  <2> QED BY <2>1, <1>2, <1>4, <1>15, <1>16 DEF OpSound
<1>35. BlocksOwned'
  BY <1>2, <1>3, <1>31, OwnedKept
<1>36. PoolTypes'
  BY <1>2, <1>3, <1>13, TypesKept DEF PoolTypes
<1>37. Claims'
  <2>1. tail' \in Nat /\ tail <= tail'
    BY <1>1, <1>2, NumbersAre
  <2> QED BY <2>1, <1>3, ClaimsSteady
<1>38. ImplicitInv'
  BY <1>30, <1>32, <1>33, <1>34, <1>35, <1>36, <1>37 DEF ImplicitInv, Numbered
<1> QED BY <1>2, <1>38

\* The tail of the current index is set.
TailAs(s) == [indexes EXCEPT ![Len(indexes)].tail = s]

LEMMA TailSet ==
    ASSUME PoolTypes, NEW s \in 0..(Cap(Len(indexes)) - 1), indexes' = TailAs(s)
    PROVE  /\ SameSlots /\ indexes' \in Seq(IndexHeaders) /\ indexes'[Len(indexes)].tail = s
           /\ \A h \in 1..(Len(indexes) - 1) : indexes'[h].tail = indexes[h].tail
<1>13. PICK m \in Nat : m = Len(indexes) /\ m \in 1..m
  BY LastIs
<1>1. m = Len(indexes) /\ m \in 1..m /\ indexes \in [1..m -> IndexHeaders]
  BY <1>13, LenProperties DEF PoolTypes
<1>2. PICK r \in IndexHeaders : r = indexes[m]
  BY <1>1
<1>3. PICK w : w = [r EXCEPT !.tail = s]
  OBVIOUS
<1>4. r.capacity = Cap(Len(indexes))
  BY <1>1, <1>2 DEF Cap
<1>5. s \in Nat /\ s < r.capacity
  BY <1>2, <1>4 DEF IndexHeaders
<1>6. w \in IndexHeaders /\ w.tail = s /\ w.capacity = r.capacity /\ w.index = r.index
  BY <1>3, <1>5 DEF IndexHeaders
<1>7. indexes' = [indexes EXCEPT ![m] = w]
  BY <1>1, <1>2, <1>3 DEF TailAs
<1>8. indexes' \in [1..m -> IndexHeaders] /\ \A h \in 1..m : indexes'[h] = IF h = m THEN w ELSE indexes[h]
  BY <1>1, <1>6, <1>7
<1>9. indexes' \in Seq(IndexHeaders) /\ Len(indexes') = m
  BY <1>8
<1>10. SameSlots
  <2>1. ASSUME NEW h \in 1..m
        PROVE  indexes'[h].capacity = indexes[h].capacity /\ indexes'[h].index = indexes[h].index
    <3>1. CASE h = m
      BY <3>1, <1>2, <1>6, <1>8
    <3>2. CASE h # m
      BY <3>2, <1>8
    <3> QED BY <3>1, <3>2
  <2> QED BY <2>1, <1>1, <1>9 DEF SameSlots
<1>11. \A h \in 1..(m - 1) : indexes'[h] = indexes[h]
  <2>1. \A h \in 1..(m - 1) : h \in 1..m /\ h # m
    BY <1>13
  <2> QED BY <2>1, <1>8
<1>12. indexes'[m].tail = s
  <2>1. indexes'[m] = w
    BY <1>1, <1>8
  <2> QED BY <2>1, <1>6
<1> QED BY <1>1, <1>9, <1>10, <1>11, <1>12

\* The index stays sound when keys and slots are the same, and only numbers
\* without a value lose their keys' place.
IndexAlike(Q, low) ==
    /\ OverBelow(low)'
    /\ Len(entries') = Len(entries)
    /\ \A e \in 1..Len(entries) : KeyOf(e)' = KeyOf(e)
    /\ \A e \in 1..Len(entries) :
          ValueOf(e)' # 0 => ValueOf(e) # 0 \/ \E x \in low..KeyedNo' : e = EntryNow(Q, x)
    /\ \E k \in Int : /\ k = KeyedNo' /\ k <= KeyedNo
                      /\ \A x \in low..KeyedNo : k < x => ValueNow(Q, x)' = 0
    /\ \E t \in Int : t = Ord(tail - 1)' /\ low <= t + 1
    /\ \A h \in 1..(Len(indexes) - 1) : indexes'[h].tail = indexes[h].tail
    /\ \E s \in Int : s = ShownNo' /\ indexes'[Len(indexes)].tail = SlotOf(Q, Len(indexes), s)

LEMMA HeadersKept ==
    ASSUME CountInv, OpSound, PoolTypes, SameSlots, NEW Q, NEW low, IndexSound(Q, low),
           IndexAlike(Q, low)
    PROVE  IndexSound(Q, low)'
<1>1. /\ Q \in [Nat -> Int] /\ low \in Nat /\ SlotsRight(Q) /\ KeysRight(Q) /\ TailsRight(Q)
      /\ Window(low) /\ KeysShown(Q, low) /\ ValuesShown(Q, low)
  BY DEF IndexSound
<1>2. PICK k \in Int, top \in Int : /\ k = KeyedNo' /\ k <= top /\ top = KeyedNo
                                    /\ \A x \in low..top : k < x => ValueNow(Q, x)' = 0
  BY NumbersAre DEF IndexAlike
<1>3. /\ \A e \in 1..Len(entries) : KeyOf(e)' = KeyOf(e)
      /\ \A e \in 1..Len(entries) :
            ValueOf(e)' # 0 => ValueOf(e) # 0 \/ \E x \in low..k : e = EntryNow(Q, x)
  BY <1>2 DEF IndexAlike
<1>4. PICK m \in 1..Len(indexes), n \in Nat : m = Len(indexes) /\ n = Cap(m)
  BY LastIs, IndexIs
<1>5. /\ Len(indexes') = Len(indexes) /\ \A h \in 1..Len(indexes) : Cap(h)' = Cap(h)
      /\ \A h \in 1..Len(indexes), x \in Int : SlotOf(Q, h, x)' = SlotOf(Q, h, x)
      /\ \A x \in Int : EntryNow(Q, x)' = EntryNow(Q, x)
      /\ SlotsRight(Q)' /\ Len(entries') = Len(entries)
  BY <1>1, SlotsKept DEF SameSlots, IndexAlike
<1>6. KeysRight(Q)'
  <2> SUFFICES ASSUME NEW e \in 1..Len(entries), KeyOf(e) # -1
               PROVE  \E x \in Int : KeyOf(e) = First(x) /\ e = EntryNow(Q, x)'
    BY <1>3, <1>5 DEF KeysRight
  <2>1. PICK x \in Int : KeyOf(e) = First(x) /\ e = EntryNow(Q, x)
    BY <1>1 DEF KeysRight
  <2> QED BY <2>1, <1>5
<1>7. TailsRight(Q)'
  <2>1. PICK s \in Int : s = ShownNo' /\ indexes'[Len(indexes)].tail = SlotOf(Q, Len(indexes), s)
    BY DEF IndexAlike
  <2>2. indexes'[m].tail = SlotOf(Q, m, s)'
    BY <2>1, <1>4, <1>5
  <2>3. SlotOf(Q, Len(indexes), ShownNo)' = SlotOf(Q, m, s)'
    BY <2>1, <1>4, <1>5 DEF SlotOf, Cap
  <2>4. ASSUME NEW h \in 1..(Len(indexes) - 1) PROVE KeyOf(indexes[h].index[indexes[h].tail])' # -1
    <3>1. h \in 1..Len(indexes)
      BY <1>4
    <3>2. PICK e \in 1..Len(entries) : e = indexes[h].index[indexes[h].tail]
      BY <3>1, IndexIs
    <3>3. KeyOf(e)' # -1
      BY <3>2, <1>1, <1>3 DEF TailsRight
    <3>4. indexes'[h].index[indexes'[h].tail] = e
      BY <3>1, <3>2 DEF IndexAlike, SameSlots
    <3> QED BY <3>3, <3>4 DEF KeyOf
  <2> QED BY <2>2, <2>3, <2>4, <1>4, <1>5 DEF TailsRight
<1>8. Window(low)'
  <2>1. PICK t \in Int : t = Ord(tail - 1)' /\ low <= t + 1
    BY DEF IndexAlike
  <2>2. top - low < n
    BY <1>1, <1>2, <1>4 DEF Window
  <2>3. k - low < n
    BY <2>2, <1>1, <1>2, <1>4
  <2>4. Cap(Len(indexes))' = n
    BY <1>4, <1>5 DEF Cap
  <2> QED BY <2>1, <2>3, <2>4, <1>2 DEF Window
<1>9. KeysShown(Q, low)'
  <2> SUFFICES ASSUME NEW x \in low..k PROVE KeyOf(EntryNow(Q, x))' = First(x)
    BY <1>2 DEF KeysShown
  <2>1. x \in low..top /\ x \in Int
    BY <1>1, <1>2
  <2>2. PICK e \in 1..Len(entries) : e = EntryNow(Q, x) /\ KeyOf(EntryNow(Q, x))' = KeyOf(e)'
    BY <2>1, <1>1, NowKept
  <2> QED BY <2>1, <2>2, <1>1, <1>2, <1>3 DEF KeysShown
<1>10. ValuesShown(Q, low)'
  <2> SUFFICES ASSUME NEW e \in 1..Len(entries), ValueOf(e)' # 0
               PROVE  \E x \in low..k : e = EntryNow(Q, x)'
    BY <1>2, <1>5 DEF ValuesShown
  <2>1. PICK x \in low..top : e = EntryNow(Q, x)
    <3>1. CASE ValueOf(e) # 0
      BY <3>1, <1>1, <1>2 DEF ValuesShown
    <3>2. CASE ValueOf(e) = 0
      <4>1. PICK x \in low..k : e = EntryNow(Q, x)
        BY <3>2, <1>3
      <4>2. x \in low..top
        BY <4>1, <1>1, <1>2
      <4> QED BY <4>1, <4>2
    <3> QED BY <3>1, <3>2
  <2>2. x \in Int
    BY <2>1, <1>1, <1>2
  <2>3. ValueNow(Q, x)' # 0
    BY <2>1, <2>2, <1>1, NowKept
  <2>4. x \in low..k
    BY <2>1, <2>2, <2>3, <1>1, <1>2
  <2> QED BY <2>1, <2>2, <2>4, <1>5
<1>11. OverBelow(low)' /\ SlotsRight(Q)' /\ Q \in [Nat -> Int] /\ low \in Nat
  BY <1>1, <1>5 DEF IndexAlike
<1> QED BY <1>6, <1>7, <1>8, <1>9, <1>10, <1>11 DEF IndexSound

\* The producer's steps between its blocks: only the tail of the index moves.
Settled(Q, low) ==
    /\ Steady /\ SameSlots /\ indexes' \in Seq(IndexHeaders)
    /\ UNCHANGED <<tail, entries, blocks, free, tailBlock>>
    /\ IndexAlike(Q, low) /\ OpSound'
    /\ TopNo' = TopNo /\ op'.chain = op.chain
    /\ producer' \in {"tail", "block"} =>
         \E x \in Int : x = KeyedNo' /\ op'.entry = EntryNow(Q, x) /\ ValueNow(Q, x) = 0

LEMMA SettledKept ==
    ASSUME Claims, PoolTypes, OpSound, BlocksOwned, NEW Q, NEW low, Numbered(Q, low), Settled(Q, low)
    PROVE  ImplicitInv'
<1>1. /\ CountInv /\ ClaimsApart /\ IndexSound(Q, low) /\ Q \in [Nat -> Int] /\ low \in Nat
      /\ low <= low
  BY DEF Claims, Numbered, IndexSound
<1>2. /\ Steady /\ SameSlots /\ indexes' \in Seq(IndexHeaders)
      /\ tail' = tail /\ entries' = entries /\ blocks' = blocks /\ free' = free /\ tailBlock' = tailBlock
      /\ IndexAlike(Q, low) /\ OpSound' /\ TopNo' = TopNo /\ op'.chain = op.chain
      /\ Still
  BY DEF Settled, Steady
<1>3. ValuesStay /\ \A e \in 1..Len(entries) : KeyOf(e)' = KeyOf(e) /\ ValueOf(e)' = ValueOf(e)
  BY <1>2 DEF ValuesStay, KeyOf, ValueOf
<1>4. IndexSound(Q, low)'
  BY <1>1, <1>2, HeadersKept
<1>5. BlocksSound(Q, low)'
  <2>1. producer' \in {"tail", "block"} =>
          \E x \in Int : x = KeyedNo' /\ op'.entry = EntryNow(Q, x) /\ ValueNow(Q, x) = 0
    BY DEF Settled
  <2> QED BY <2>1, <1>1, <1>2, <1>3, BlocksKept
<1>6. ReadersSound(Q, low)'
  <2>1. PICK t \in Int : t = Ord(tail - 1)
    BY <1>1, NumbersAre
  <2>2. ASSUME NEW x \in low..t, ValueNow(Q, x) # 0
        PROVE  ValueNow(Q, x)' = ValueNow(Q, x) /\ low <= x
    <3>1. x \in Int /\ low <= x
      BY <1>1, <2>1, <2>2
    <3>2. PICK e \in 1..Len(entries) : e = EntryNow(Q, x) /\ ValueNow(Q, x)' = ValueOf(e)'
      BY <3>1, <1>1, <1>2, NowKept
    <3> QED BY <3>1, <3>2, <1>3 DEF ValueNow
  <2> QED BY <2>1, <2>2, <1>1, <1>2, <1>3, ReadersKept
<1>7. BlocksOwned'
  BY <1>2, <1>3, OwnedKept
<1>8. PoolTypes'
  BY <1>2, TypesKept DEF PoolTypes
<1>9. Claims'
  <2>1. tail' \in Nat /\ tail <= tail'
    BY <1>1, <1>2, NumbersAre
  <2> QED BY <2>1, <1>2, ClaimsSteady
<1> QED BY <1>2, <1>4, <1>5, <1>6, <1>7, <1>8, <1>9 DEF ImplicitInv, Numbered

\* The new tail shows the key that was set.
LEMMA SetTailKept ==
    ASSUME Claims, PoolTypes, OpSound, BlocksOwned, NEW Q, NEW low, Numbered(Q, low), Implicit!SetTail
    PROVE  ImplicitInv' /\ UNCHANGED <<head, taken, tail>>
<1>1. /\ CountInv /\ ClaimsApart /\ IndexSound(Q, low) /\ Q \in [Nat -> Int] /\ low \in Nat
      /\ TailsRight(Q) /\ OverBelow(low) /\ Window(low) /\ ChainRight(Q)
  BY DEF Claims, Numbered, IndexSound, BlocksSound
<1>2. /\ producer = "tail" /\ producer' = "block" /\ indexes' = [indexes EXCEPT ![Implicit!Current].tail = Implicit!NewTail]
      /\ UNCHANGED <<tail, head, optimistic, overcommit, consumer, local, taken, blocks, free, entries, tailBlock, op>>
  BY DEF Implicit!SetTail, Implicit!counters, Implicit!pool, Implicit!reading
<1>3. Still /\ Steady
  BY <1>2 DEF Still, Steady
<1>4. PICK p \in Int : /\ p = TopNo /\ ShownNo = p /\ Implicit!NewTail = SlotOf(Q, Len(indexes), p + 1)
  BY <1>1, <1>2, CandidateIs
<1>5. PICK u \in Int, m \in 1..Len(indexes) : u = p + 1 /\ m = Len(indexes)
  BY <1>4, LastIs
<1>6. PICK s \in 0..(Cap(Len(indexes)) - 1) : s = SlotOf(Q, m, u)
  BY <1>1, <1>5, EntryIs
<1>7. indexes' = TailAs(s)
  BY <1>2, <1>4, <1>5, <1>6 DEF TailAs, Implicit!Current
<1>8. /\ SameSlots /\ indexes' \in Seq(IndexHeaders) /\ indexes'[Len(indexes)].tail = s
      /\ \A h \in 1..(Len(indexes) - 1) : indexes'[h].tail = indexes[h].tail
  BY <1>7, TailSet
<1>9. TopNo' = p /\ KeyedNo' = u /\ ShownNo' = u /\ KeyedNo = u
  BY <1>2, <1>4, <1>5 DEF TopNo, KeyedNo, ShownNo
<1>10. IndexAlike(Q, low)
  <2>1. OverBelow(low)'
    BY <1>1, <1>3, SteadyKeeps DEF OverBelow
  <2>2. \A e \in 1..Len(entries) : KeyOf(e)' = KeyOf(e) /\ ValueOf(e)' = ValueOf(e)
    BY <1>2 DEF KeyOf, ValueOf
  <2>3. PICK t \in Int : t = Ord(tail - 1)' /\ low <= t + 1
    BY <1>1, <1>2, NumbersAre DEF Window
  <2>4. \E k \in Int : /\ k = KeyedNo' /\ k <= KeyedNo
                       /\ \A x \in low..KeyedNo : k < x => ValueNow(Q, x)' = 0
    BY <1>1, <1>5, <1>9
  <2>5. \E x \in Int : x = ShownNo' /\ indexes'[Len(indexes)].tail = SlotOf(Q, Len(indexes), x)
    BY <1>5, <1>6, <1>8, <1>9
  <2> QED BY <2>1, <2>2, <2>3, <2>4, <2>5, <1>2, <1>8 DEF IndexAlike
<1>11. OpSound'
  <2>1. op \in Operations /\ op.n >= 1 /\ Ord(tail + op.n - 1) = TopNo + op.need /\ op.need >= 1
    BY <1>2 DEF OpSound
  <2> QED BY <2>1, <1>2, <1>4, <1>9 DEF OpSound
<1>12. \E x \in Int : x = KeyedNo' /\ op'.entry = EntryNow(Q, x) /\ ValueNow(Q, x) = 0
  BY <1>1, <1>2, <1>5, <1>9 DEF ChainRight
<1>13. Settled(Q, low)
  BY <1>2, <1>3, <1>4, <1>8, <1>9, <1>10, <1>11, <1>12 DEF Settled
<1> QED BY <1>2, <1>13, SettledKept

\* An operation starts with what it needs, and has none of it yet.
StartedWith(kind, n, need) == LET none == Implicit!NoOp IN [none EXCEPT !.kind = kind, !.n = n, !.need = need]

LEMMA StartedIs ==
    ASSUME NEW kind \in {"one", "bulk"}, NEW n \in Nat, NEW need \in Nat
    PROVE  /\ StartedWith(kind, n, need) \in Operations
           /\ StartedWith(kind, n, need).n = n /\ StartedWith(kind, n, need).need = need
           /\ StartedWith(kind, n, need).chain = <<>>
<1>1. PICK none : none = Implicit!NoOp
  OBVIOUS
<1>2. none \in Operations /\ none.chain = <<>>
  BY <1>1, EmptySeq DEF Implicit!NoOp, Operations
<1>3. StartedWith(kind, n, need) = [none EXCEPT !.kind = kind, !.n = n, !.need = need]
  BY <1>1 DEF StartedWith
<1> QED BY <1>2, <1>3 DEF Operations

LEMMA OpensKept ==
    ASSUME Claims, PoolTypes, OpSound, BlocksOwned, NEW Q, NEW low, Numbered(Q, low),
           NEW kind \in {"one", "bulk"}, NEW n \in Nat, n >= 1, Implicit!Begin(kind, n)
    PROVE  ImplicitInv' /\ UNCHANGED <<head, taken, tail>>
<1>1. /\ CountInv /\ ClaimsApart /\ IndexSound(Q, low) /\ Q \in [Nat -> Int] /\ low \in Nat
      /\ TailsRight(Q) /\ OverBelow(low) /\ Window(low)
  BY DEF Claims, Numbered, IndexSound
<1>2. PICK need \in Nat : need = Ord(tail + n - 1) - Ord(tail - 1)
                       /\ need = (Base(tail + n - 1) - Base(tail - 1)) \div BlockSize
  BY <1>1, NeedIs
<1>3. /\ producer = "idle" /\ producer' = (IF need = 0 THEN "publish" ELSE "entry")
      /\ op' = StartedWith(kind, n, need)
      /\ UNCHANGED <<tail, head, optimistic, overcommit, consumer, local, taken, blocks, free, entries, indexes, tailBlock>>
  BY <1>2, SharedBase DEF Implicit!Begin, Implicit!counters, Implicit!pool, Implicit!reading, Implicit!index, StartedWith
<1>4. Still /\ Steady /\ SameSlots
  BY <1>3 DEF Still, Steady, SameSlots
<1>5. PICK t \in Int, p \in Int : t = Ord(tail - 1) /\ p = TopNo
  BY <1>1, NumbersAre
<1>6. op.chain = <<>> /\ op'.chain = <<>> /\ op' \in Operations /\ op'.n = n /\ op'.need = need
  BY <1>3, StartedIs DEF OpSound, Implicit!NoOp
<1>7. p = t /\ TopNo' = p /\ KeyedNo' = p /\ ShownNo' = p /\ KeyedNo = p /\ ShownNo = p
  <2>1. TopNo' = TopNo
    BY <1>3, <1>6 DEF TopNo
  <2>2. producer' \in {"publish", "entry"}
    BY <1>3
  <2>3. KeyedNo' = p /\ ShownNo' = p /\ KeyedNo = p /\ ShownNo = p
    BY <2>1, <2>2, <1>3, <1>5 DEF KeyedNo, ShownNo
  <2>4. p = t
    BY <1>5, <1>6, EmptySeq DEF TopNo
  <2> QED BY <2>1, <2>3, <2>4, <1>5
<1>8. IndexAlike(Q, low)
  <2>1. OverBelow(low)'
    BY <1>1, <1>4, SteadyKeeps DEF OverBelow
  <2>2. \A e \in 1..Len(entries) : KeyOf(e)' = KeyOf(e) /\ ValueOf(e)' = ValueOf(e)
    BY <1>3 DEF KeyOf, ValueOf
  <2>3. t = Ord(tail - 1)' /\ low <= t + 1
    BY <1>1, <1>3, <1>5 DEF Window
  <2>4. \E k \in Int : /\ k = KeyedNo' /\ k <= KeyedNo
                       /\ \A x \in low..KeyedNo : k < x => ValueNow(Q, x)' = 0
    BY <1>1, <1>5, <1>7
  <2>5. \E x \in Int : x = ShownNo' /\ indexes'[Len(indexes)].tail = SlotOf(Q, Len(indexes), x)
    BY <1>1, <1>3, <1>5, <1>7 DEF TailsRight
  <2> QED BY <2>1, <2>2, <2>3, <2>4, <2>5, <1>3, <1>5 DEF IndexAlike
<1>9. OpSound'
  <2>1. (Ord(tail + n - 1))' = Ord(tail + n - 1) /\ Ord(tail + n - 1) \in Int
    <3>1. tail + n - 1 \in Int /\ tail' = tail
      BY <1>1, <1>3, NumbersAre
    <3> QED BY <3>1, OrdAt
  <2>2. Ord(tail + n - 1) = p + need
    BY <2>1, <1>2, <1>5, <1>7
  <2> QED BY <2>1, <2>2, <1>2, <1>3, <1>6, <1>7 DEF OpSound
<1>10. Settled(Q, low)
  <2>1. producer' \notin {"tail", "block"} /\ indexes' \in Seq(IndexHeaders)
    BY <1>3 DEF PoolTypes
  <2> QED BY <2>1, <1>3, <1>4, <1>5, <1>6, <1>7, <1>8, <1>9 DEF Settled
<1> QED BY <1>3, <1>10, SettledKept

\* A block is reset, or made.
EmptyCells == [o \in Offsets |-> 0]
FreshBlock == [done |-> 0, cells |-> EmptyCells]
ResetAs(b) == [blocks EXCEPT ![b].done = 0]
MadeAs == Append(blocks, FreshBlock)

LEMMA ResetIs ==
    ASSUME PoolTypes, NEW b \in Nat \ {0},
           \/ b \in 1..Len(blocks) /\ blocks' = ResetAs(b)
           \/ b = Len(blocks) + 1 /\ blocks' = MadeAs
    PROVE  /\ blocks' \in Seq(PoolBlocks) /\ Len(blocks) <= Len(blocks')
           /\ 1..Len(blocks') = 1..Len(blocks) \cup {b} /\ blocks'[b].done = 0
           /\ \A v \in 1..Len(blocks) : v # b => blocks'[v] = blocks[v]
<1>1. PICK n \in Nat : n = Len(blocks)
  BY LastIs
<1>2. blocks \in [1..n -> PoolBlocks] /\ blocks \in Seq(PoolBlocks)
  BY <1>1, LenProperties DEF PoolTypes
<1>3. CASE b \in 1..Len(blocks) /\ blocks' = ResetAs(b)
  <2>1. PICK r \in PoolBlocks : r = blocks[b]
    BY <1>1, <1>2, <1>3
  <2>2. PICK w : w = [r EXCEPT !.done = 0]
    OBVIOUS
  <2>3. w \in PoolBlocks /\ w.done = 0
    BY <2>2 DEF PoolBlocks
  <2>4. blocks' = [blocks EXCEPT ![b] = w]
    BY <2>1, <2>2, <1>3 DEF ResetAs
  <2>5. blocks' \in [1..n -> PoolBlocks] /\ \A v \in 1..n : blocks'[v] = IF v = b THEN w ELSE blocks[v]
    BY <2>3, <2>4, <1>2
  <2>6. blocks' \in Seq(PoolBlocks) /\ Len(blocks') = n
    BY <2>5
  <2>7. blocks'[b] = w /\ 1..n = 1..n \cup {b}
    BY <2>5, <1>1, <1>3
  <2> QED BY <2>3, <2>5, <2>6, <2>7, <1>1
<1>4. CASE b = Len(blocks) + 1 /\ blocks' = MadeAs
  <2>1. PICK w \in PoolBlocks : w = FreshBlock /\ w.done = 0
    <3>1. EmptyCells \in [Offsets -> Int]
      BY DEF EmptyCells
    <3>2. FreshBlock \in PoolBlocks /\ FreshBlock.done = 0
      BY <3>1 DEF FreshBlock, PoolBlocks
    <3> QED BY <3>2
  <2>2. /\ blocks' \in Seq(PoolBlocks) /\ Len(blocks') = n + 1
        /\ blocks'[n + 1] = w /\ \A v \in 1..n : blocks'[v] = blocks[v]
    BY <2>1, <1>1, <1>2, <1>4, AppendIs DEF MadeAs
  <2>3. 1..(n + 1) = 1..n \cup {n + 1}
    BY <1>1
  <2> QED BY <2>1, <2>2, <2>3, <1>1, <1>4
<1> QED BY <1>3, <1>4

\* The operation has one more block, and needs one less.
ChainedAs(o, b) == [o EXCEPT !.chain = Append(@, b), !.need = @ - 1]

LEMMA ChainedIs ==
    ASSUME NEW o \in Operations, NEW b \in Nat, o.need >= 1
    PROVE  /\ ChainedAs(o, b) \in Operations
           /\ ChainedAs(o, b).chain = Append(o.chain, b) /\ ChainedAs(o, b).need = o.need - 1
           /\ ChainedAs(o, b).n = o.n
<1>1. PICK w : w = Append(o.chain, b)
  OBVIOUS
<1>2. w \in Seq(Nat)
  BY <1>1, AppendIs DEF Operations
<1>3. o.need - 1 \in Nat
  BY DEF Operations
<1>4. ChainedAs(o, b) = [o EXCEPT !.chain = w, !.need = o.need - 1]
  BY <1>1 DEF ChainedAs, Operations
<1> QED BY <1>1, <1>2, <1>3, <1>4 DEF Operations

LEMMA TakeIs ==
    ASSUME Claims, PoolTypes, OpSound, NEW Q, NEW low, Numbered(Q, low), Implicit!TakeBlock
    PROVE  \E b \in Nat \ {0}, c \in 1..Len(entries), p \in Int :
             /\ p = TopNo /\ c = EntryNow(Q, p + 1) /\ ValueOf(c) = 0
             /\ KeyedNo = p + 1 /\ ShownNo = p + 1
             /\ b \in free \/ b = Len(blocks) + 1
             /\ blocks' \in Seq(PoolBlocks) /\ Len(blocks) <= Len(blocks')
             /\ 1..Len(blocks') = 1..Len(blocks) \cup {b} /\ blocks'[b].done = 0
             /\ \A v \in 1..Len(blocks) : v # b => blocks'[v] = blocks[v]
             /\ free' = free \ {b} /\ entries' = ValuedAs(c, b)
             /\ op \in Operations /\ op.need >= 1 /\ op' = ChainedAs(op, b)
             /\ producer = "block" /\ producer' = (IF op.need = 1 THEN "publish" ELSE "entry")
             /\ UNCHANGED <<tail, head, optimistic, overcommit, consumer, local, taken, indexes, tailBlock>>
<1>1. /\ CountInv /\ Q \in [Nat -> Int] /\ ChainRight(Q)
  BY DEF Claims, Numbered, IndexSound, BlocksSound
<1>2. /\ producer = "block" /\ producer' = (IF op.need = 1 THEN "publish" ELSE "entry")
      /\ UNCHANGED <<tail, head, optimistic, overcommit, consumer, local, taken, indexes, tailBlock>>
      /\ op \in Operations /\ op.need >= 1
  BY DEF Implicit!TakeBlock, Implicit!counters, Implicit!reading, OpSound
<1>3. PICK p \in Int : p = TopNo
  BY <1>1, NumbersAre
<1>4. PICK u \in Int : u = p + 1 /\ KeyedNo = u /\ ShownNo = u
  BY <1>2, <1>3 DEF KeyedNo, ShownNo
<1>5. PICK c \in 1..Len(entries) : c = EntryNow(Q, u)
  BY <1>1, EntryNowIs
<1>6. op.entry = c /\ ValueOf(c) = 0
  BY <1>1, <1>2, <1>4, <1>5 DEF ChainRight, ValueNow
<1>7. PICK b \in (IF free = {} THEN {Len(blocks) + 1} ELSE free) :
         /\ blocks' = (IF b > Len(blocks) THEN MadeAs ELSE ResetAs(b))
         /\ free' = free \ {b}
         /\ entries' = ValuedAs(c, b)
         /\ op' = ChainedAs(op, b)
  BY <1>6, SharedBase DEF Implicit!TakeBlock, MadeAs, ResetAs, ValuedAs, ChainedAs, FreshBlock, EmptyCells
<1>8. PICK n \in Nat : n = Len(blocks) /\ free \subseteq 1..n
  BY LastIs DEF PoolTypes
<1>9. b \in Nat \ {0} /\ (b \in free \/ b = Len(blocks) + 1)
  BY <1>7, <1>8
<1>10. \/ b \in 1..Len(blocks) /\ blocks' = ResetAs(b)
       \/ b = Len(blocks) + 1 /\ blocks' = MadeAs
  BY <1>7, <1>8, <1>9
<1>11. /\ blocks' \in Seq(PoolBlocks) /\ Len(blocks) <= Len(blocks')
       /\ 1..Len(blocks') = 1..Len(blocks) \cup {b} /\ blocks'[b].done = 0
       /\ \A v \in 1..Len(blocks) : v # b => blocks'[v] = blocks[v]
  BY <1>9, <1>10, ResetIs
<1> QED BY <1>2, <1>3, <1>4, <1>5, <1>6, <1>7, <1>9, <1>11

\* The values of all entries but one are the same.
OthersValued(c) == \A e \in 1..Len(entries) : e # c => ValueOf(e)' = ValueOf(e)

\* What is counted lies at or below the block of the tail.
LEMMA NoneCounted ==
    ASSUME CountInv, NEW x \in Int, Ord(tail - 1) < x
    PROVE  CountedOf(x) = {}
<1> SUFFICES ASSUME NEW i \in CountedOf(x) PROVE FALSE
  OBVIOUS
<1>1. i \in Int /\ Ord(i) = x /\ i < head
  BY ItemsIs DEF CountedOf, CountedOut
<1>2. PICK u \in Nat, h \in Nat : u = tail /\ h = head /\ h <= u
  BY CountHeads
<1>3. i <= u - 1 /\ u - 1 \in Int
  BY <1>1, <1>2
<1>4. Ord(i) <= Ord(u - 1) /\ Ord(u - 1) \in Int
  BY <1>1, <1>3, OrdMono
<1> QED BY <1>1, <1>2, <1>4

LEMMA NoneEnqueued ==
    ASSUME CountInv, NEW x \in Int, Ord(tail - 1) < x, NEW o \in Offsets
    PROVE  ~ First(x) + o < tail
<1> SUFFICES ASSUME First(x) + o < tail PROVE FALSE
  OBVIOUS
<1>1. PICK u \in Nat : u = tail
  BY CountHeads
<1>2. PICK i \in Int : i = First(x) + o /\ Ord(i) = x
  BY OrdOf
<1>3. i <= u - 1 /\ u - 1 \in Int
  BY <1>1, <1>2
<1>4. Ord(i) <= Ord(u - 1) /\ Ord(u - 1) \in Int
  BY <1>2, <1>3, OrdMono
<1> QED BY <1>1, <1>2, <1>4

\* A block is put behind the entry of the next number.
LEMMA TakeBlockOwned ==
    ASSUME PoolTypes, BlocksOwned, Still, NEW b \in Nat \ {0}, NEW c \in 1..Len(entries),
           b \in free \/ b = Len(blocks) + 1,
           Len(blocks) <= Len(blocks'), 1..Len(blocks') = 1..Len(blocks) \cup {b},
           Len(entries') = Len(entries), ValueOf(c) = 0, ValueOf(c)' = b, OthersValued(c),
           free' = free \ {b}
    PROVE  BlocksOwned'
<1>1. Holding' = Holding /\ local' = local
  BY SteadyKeeps
<1>2. PICK n \in Nat : n = Len(blocks) /\ free \subseteq 1..n
  BY LastIs DEF PoolTypes
<1>3. \A e \in 1..Len(entries) : ValueOf(e) # b
  BY <1>2 DEF BlocksOwned
<1>4. \A d \in Holding : local[d].block # b
  BY <1>2 DEF BlocksOwned
<1>5. ASSUME NEW e \in 1..Len(entries) PROVE ValueOf(e)' \in 0..Len(blocks') /\ ValueOf(e)' \notin free'
  <2>1. PICK k \in Nat : k = Len(blocks') /\ n <= k /\ b <= k
    <3>1. b \in 1..Len(blocks')
      OBVIOUS
    <3>2. Len(blocks') \in Nat
      BY <3>1, <1>2
    <3> QED BY <3>1, <3>2, <1>2
  <2>2. CASE e = c
    BY <2>1, <2>2
  <2>3. CASE e # c
    <3>1. ValueOf(e)' = ValueOf(e) /\ ValueOf(e) \in 0..n /\ ValueOf(e) \notin free
      BY <2>3, <1>2 DEF OthersValued, BlocksOwned
    <3> QED BY <3>1, <2>1, <1>2
  <2> QED BY <2>2, <2>3
<1>6. ASSUME NEW e \in 1..Len(entries), NEW f \in 1..Len(entries), ValueOf(e)' = ValueOf(f)', ValueOf(e)' # 0
      PROVE  e = f
  BY <1>3, <1>6 DEF BlocksOwned, OthersValued
<1>7. ASSUME NEW d \in Holding
      PROVE  /\ local[d].block \in 1..Len(blocks') /\ local[d].block \notin free'
             /\ \A e \in 1..Len(entries) : ValueOf(e)' # local[d].block
  <2>1. /\ local[d].block \in 1..Len(blocks) /\ local[d].block \notin free
        /\ \A e \in 1..Len(entries) : ValueOf(e) # local[d].block
    BY DEF BlocksOwned
  <2> QED BY <2>1, <1>4 DEF OthersValued
<1>8. ASSUME NEW a \in 1..Len(blocks')
      PROVE  \/ a \in free' \/ \E e \in 1..Len(entries) : ValueOf(e)' = a
             \/ \E d \in Holding : local[d].block = a
  <2>1. CASE a = b
    BY <2>1
  <2>2. CASE a # b /\ \E e \in 1..Len(entries) : ValueOf(e) = a
    <3>1. PICK e \in 1..Len(entries) : ValueOf(e) = a
      BY <2>2
    <3>2. a # 0
      BY <1>2
    <3>3. ValueOf(e)' = a
      BY <3>1, <3>2 DEF OthersValued
    <3> QED BY <3>3
  <2>3. CASE a # b /\ ~ \E e \in 1..Len(entries) : ValueOf(e) = a
    <3>1. a \in 1..Len(blocks)
      BY <2>3
    <3>2. a \in free \/ \E d \in Holding : local[d].block = a
      BY <3>1, <2>3 DEF BlocksOwned
    <3> QED BY <3>2, <2>3
  <2> QED BY <2>1, <2>2, <2>3
<1>9. \A d, g \in Holding : local[d].block = local[g].block => d = g
  BY DEF BlocksOwned
<1> QED BY <1>1, <1>5, <1>6, <1>7, <1>8, <1>9 DEF BlocksOwned

LEMMA TakeBlockKept ==
    ASSUME Claims, PoolTypes, OpSound, BlocksOwned, NEW Q, NEW low, Numbered(Q, low), Implicit!TakeBlock
    PROVE  ImplicitInv' /\ UNCHANGED <<head, taken, tail>>
<1>1. /\ CountInv /\ ClaimsApart /\ IndexSound(Q, low) /\ Q \in [Nat -> Int] /\ low \in Nat
      /\ SlotsRight(Q) /\ TailsRight(Q) /\ Window(low) /\ OverBelow(low)
      /\ EmptyOver(Q, low) /\ DoneRight(Q, low) /\ CellsRight(Q, low) /\ ChainRight(Q) /\ TailRight(Q, low)
  BY DEF Claims, Numbered, IndexSound, BlocksSound
<1>2. PICK b \in Nat \ {0}, c \in 1..Len(entries), p \in Int :
             /\ p = TopNo /\ c = EntryNow(Q, p + 1) /\ ValueOf(c) = 0
             /\ KeyedNo = p + 1 /\ ShownNo = p + 1
             /\ b \in free \/ b = Len(blocks) + 1
             /\ blocks' \in Seq(PoolBlocks) /\ Len(blocks) <= Len(blocks')
             /\ 1..Len(blocks') = 1..Len(blocks) \cup {b} /\ blocks'[b].done = 0
             /\ \A v \in 1..Len(blocks) : v # b => blocks'[v] = blocks[v]
             /\ free' = free \ {b} /\ entries' = ValuedAs(c, b)
             /\ op \in Operations /\ op.need >= 1 /\ op' = ChainedAs(op, b)
             /\ producer = "block" /\ producer' = (IF op.need = 1 THEN "publish" ELSE "entry")
             /\ UNCHANGED <<tail, head, optimistic, overcommit, consumer, local, taken, indexes, tailBlock>>
  BY TakeIs
<1>3. Still /\ Steady /\ SameSlots /\ tail' = tail /\ b \in Nat /\ b # 0
  BY <1>2 DEF Still, Steady, SameSlots
<1>4. PICK t \in Int, k \in Nat : t = Ord(tail - 1) /\ k = Len(op.chain) /\ p = t + k /\ t >= -1
  BY <1>1, <1>2, NumbersAre
<1>5. PICK m \in 1..Len(indexes), n \in Nat : m = Len(indexes) /\ n = Cap(m) /\ n >= 1
  BY LastIs, IndexIs
<1>6. low <= t + 1 /\ p + 1 - low < n
  BY <1>1, <1>2, <1>4, <1>5 DEF Window
<1>7. PICK u \in Int : u = p + 1
  BY <1>2
<1>8. /\ low \in Nat /\ p \in Int /\ t \in Int /\ k \in Nat /\ n \in Nat /\ n >= 1 /\ u \in Int
      /\ p = t + k /\ low <= t + 1 /\ p + 1 - low < n /\ u = p + 1 /\ u - low < n /\ t < u
  <2>1. low \in Nat /\ p \in Int
    BY <1>1, <1>2
  <2>2. t \in Int /\ k \in Nat /\ p = t + k
    BY <1>4
  <2>3. n \in Nat /\ n >= 1
    BY <1>5
  <2>4. u \in Int /\ u = p + 1
    BY <1>7
  <2> QED BY <2>1, <2>2, <2>3, <2>4, <1>6
<1>9. c = EntryNow(Q, u) /\ ValueOf(c) = 0
  BY <1>2, <1>7
<1>10. /\ entries' \in Seq(IndexEntries) /\ Len(entries') = Len(entries)
       /\ \A e \in 1..Len(entries) : KeyOf(e)' = KeyOf(e)
       /\ \A e \in 1..Len(entries) : ValueOf(e)' = IF e = c THEN b ELSE ValueOf(e)
  BY <1>2, <1>3, ValueSet
<1>11. /\ op' \in Operations /\ op'.chain = Append(op.chain, b) /\ op'.need = op.need - 1 /\ op'.n = op.n
  <2>1. PICK o \in Operations : o = op /\ o.need >= 1
    BY <1>2
  <2>2. op' = ChainedAs(o, b) /\ b \in Nat
    BY <2>1, <1>2, <1>3
  <2> QED BY <2>1, <2>2, ChainedIs
<1>12. Len(op'.chain) = k + 1 /\ op'.chain[k + 1] = b /\ \A i \in 1..k : op'.chain[i] = op.chain[i]
  <2>1. op.chain \in Seq(Nat)
    BY <1>2 DEF Operations
  <2> QED BY <2>1, <1>3, <1>4, <1>11, AppendIs
<1>13. TopNo' = u /\ KeyedNo' = u /\ ShownNo' = u /\ KeyedNo = u
  <2>1. TopNo' = u
    <3>1. Ord(tail - 1)' = t
      BY <1>3, <1>4
    <3>2. TopNo' = t + (k + 1)
      BY <3>1, <1>12 DEF TopNo
    <3> QED BY <3>2, <1>8
  <2>2. producer' \in {"publish", "entry"}
    BY <1>2
  <2> QED BY <2>1, <2>2, <1>2, <1>7 DEF KeyedNo, ShownNo
<1>14. ASSUME NEW x \in low..p
       PROVE  EntryNow(Q, x)' = EntryNow(Q, x) /\ ValueNow(Q, x)' = ValueNow(Q, x) /\ x \in Int /\ EntryNow(Q, x) # c
  <2>1. x \in Int /\ x < u /\ u < x + n
    BY <1>8, <1>14
  <2>2. EntryNow(Q, x) # EntryNow(Q, u)
    BY <2>1, <1>1, <1>5, <1>7, EntriesApart
  <2>3. PICK e \in 1..Len(entries) : e = EntryNow(Q, x) /\ EntryNow(Q, x)' = e /\ ValueNow(Q, x)' = ValueOf(e)'
    BY <2>1, <1>1, <1>3, NowKept
  <2>4. ValueOf(e)' = ValueOf(e)
    BY <2>2, <2>3, <1>9, <1>10
  <2> QED BY <2>1, <2>2, <2>3, <2>4, <1>9 DEF ValueNow
<1>15. ValueNow(Q, u)' = b
  <2>1. PICK e \in 1..Len(entries) : e = EntryNow(Q, u) /\ EntryNow(Q, u)' = e /\ ValueNow(Q, u)' = ValueOf(e)'
    BY <1>1, <1>3, <1>7, NowKept
  <2> QED BY <2>1, <1>9, <1>10
<1>16. IndexSound(Q, low)'
  <2>1. OverBelow(low)'
    BY <1>1, <1>3, SteadyKeeps DEF OverBelow
  <2>2. u \in low..KeyedNo' /\ c = EntryNow(Q, u)
    BY <1>8, <1>9, <1>13
  <2>3. \A e \in 1..Len(entries) :
          ValueOf(e)' # 0 => ValueOf(e) # 0 \/ \E x \in low..KeyedNo' : e = EntryNow(Q, x)
    BY <2>2, <1>10
  <2>4. t = Ord(tail - 1)' /\ low <= t + 1
    BY <1>3, <1>4, <1>8
  <2>5. \E j \in Int : /\ j = KeyedNo' /\ j <= KeyedNo
                       /\ \A x \in low..KeyedNo : j < x => ValueNow(Q, x)' = 0
    BY <1>8, <1>13
  <2>6. \E x \in Int : x = ShownNo' /\ indexes'[Len(indexes)].tail = SlotOf(Q, Len(indexes), x)
    <3>1. indexes[Len(indexes)].tail = SlotOf(Q, Len(indexes), u)
      BY <1>1, <1>2, <1>7 DEF TailsRight
    <3> QED BY <3>1, <1>2, <1>8, <1>13
  <2>7. IndexAlike(Q, low)
    BY <2>1, <2>3, <2>4, <2>5, <2>6, <1>2, <1>4, <1>10 DEF IndexAlike
  <2> QED BY <2>7, <1>1, <1>3, HeadersKept
<1>17. ASSUME NEW x \in low..p, ValueNow(Q, x) # 0
       PROVE  blocks'[ValueNow(Q, x)] = blocks[ValueNow(Q, x)]
  <2>1. PICK e \in 1..Len(entries) : e = EntryNow(Q, x)
    BY <1>1, <1>14, EntryNowIs
  <2>2. ValueOf(e) \in 0..Len(blocks) /\ ValueOf(e) \notin free /\ ValueOf(e) # 0
    BY <2>1, <1>17 DEF BlocksOwned, ValueNow
  <2>3. Len(blocks) \in Nat
    BY LastIs
  <2>4. ValueOf(e) \in 1..Len(blocks) /\ ValueOf(e) # b
    BY <2>2, <2>3, <1>2
  <2> QED BY <2>1, <2>4, <1>2 DEF ValueNow
<1>18. EmptyOver(Q, low)'
  <2> SUFFICES ASSUME NEW x \in low..u, ValueNow(Q, x)' = 0 PROVE Over(x)'
    BY <1>13 DEF EmptyOver
  <2>1. x # u
    BY <1>15, <1>3
  <2>2. x \in low..p
    BY <2>1, <1>8
  <2>3. Over(x)
    BY <2>2, <1>1, <1>2, <1>14 DEF EmptyOver
  <2> QED BY <2>3, <1>3, SteadyKeeps
<1>19. DoneRight(Q, low)'
  <2> SUFFICES ASSUME NEW x \in low..u, ValueNow(Q, x)' # 0
               PROVE  blocks'[ValueNow(Q, x)'].done = Cardinality(CountedOf(x)')
    BY <1>13 DEF DoneRight
  <2>1. CASE x = u
    <3>1. CountedOf(u) = {}
      BY <1>1, <1>4, <1>8, NoneCounted
    <3>2. CountedOf(u)' = {}
      BY <3>1, <1>3, SteadyKeeps
    <3> QED BY <3>2, <2>1, <1>2, <1>15, FS_EmptySet
  <2>2. CASE x # u
    <3>1. x \in low..p
      BY <2>2, <1>8
    <3>2. ValueNow(Q, x)' = ValueNow(Q, x) /\ ValueNow(Q, x) # 0
      BY <3>1, <1>14
    <3>3. blocks[ValueNow(Q, x)].done = Cardinality(CountedOf(x))
      BY <3>1, <3>2, <1>1, <1>2 DEF DoneRight
    <3>4. CountedOf(x)' = CountedOf(x)
      BY <1>3, SteadyKeeps
    <3> QED BY <3>1, <3>2, <3>3, <3>4, <1>17
  <2> QED BY <2>1, <2>2
<1>20. CellsRight(Q, low)'
  <2> SUFFICES ASSUME NEW x \in low..u, ValueNow(Q, x)' # 0, NEW o \in Offsets, First(x) + o < tail
               PROVE  blocks'[ValueNow(Q, x)'].cells[o] = First(x) + o + 1
    BY <1>3, <1>13 DEF CellsRight
  <2>1. CASE x = u
    BY <2>1, <1>1, <1>4, <1>8, NoneEnqueued
  <2>2. CASE x # u
    <3>1. x \in low..p
      BY <2>2, <1>8
    <3>2. ValueNow(Q, x)' = ValueNow(Q, x) /\ ValueNow(Q, x) # 0
      BY <3>1, <1>14
    <3>3. blocks[ValueNow(Q, x)].cells[o] = First(x) + o + 1
      BY <3>1, <3>2, <1>1, <1>2 DEF CellsRight
    <3> QED BY <3>1, <3>2, <3>3, <1>17
  <2> QED BY <2>1, <2>2
<1>21. ChainRight(Q)'
  <2>1. ASSUME NEW i \in 1..(k + 1)
        PROVE  ValueNow(Q, t + i)' = op'.chain[i] /\ op'.chain[i] # 0
    <3>1. CASE i = k + 1
      <4>1. t + i = u
        BY <3>1, <1>8
      <4> QED BY <3>1, <4>1, <1>3, <1>12, <1>15
    <3>2. CASE i # k + 1
      <4>1. i \in 1..k /\ t + i \in low..p
        BY <3>2, <1>8
      <4>2. ValueNow(Q, t + i) = op.chain[i] /\ op.chain[i] # 0
        BY <4>1, <1>1, <1>4 DEF ChainRight
      <4> QED BY <4>1, <4>2, <1>12, <1>14
    <3> QED BY <3>1, <3>2
  <2>2. Ord(tail - 1)' = t /\ Len(op'.chain) = k + 1 /\ producer' \notin {"tail", "block"}
    BY <1>2, <1>4, <1>12
  <2>3. ASSUME NEW i \in 1..Len(op'.chain)
        PROVE  ValueNow(Q, Ord(tail - 1) + i)' = op'.chain[i] /\ op'.chain[i] # 0
    <3>1. i \in 1..(k + 1)
      BY <2>2
    <3>2. ValueNow(Q, Ord(tail - 1) + i)' = ValueNow(Q, t + i)'
      BY <2>2 DEF ValueNow, ValueOf, EntryNow, EntryOf, SlotOf
    <3> QED BY <2>1, <3>1, <3>2
  <2> QED BY <2>2, <2>3 DEF ChainRight
<1>22. TailRight(Q, low)'
  <2>1. Ord(tail - 1)' = t
    BY <1>3, <1>4
  <2>2. ValueNow(Q, Ord(tail - 1))' = ValueNow(Q, t)'
    BY <2>1 DEF ValueNow, ValueOf, EntryNow, EntryOf, SlotOf
  <2>3. ASSUME low <= t, ValueNow(Q, t)' # 0 PROVE tailBlock' = ValueNow(Q, t)'
    <3>1. t \in low..p
      BY <2>3, <1>8
    <3>2. ValueNow(Q, t)' = ValueNow(Q, t)
      BY <3>1, <1>14
    <3> QED BY <2>3, <3>2, <1>1, <1>2, <1>4 DEF TailRight
  <2> QED BY <2>1, <2>2, <2>3 DEF TailRight
<1>23. ReadersSound(Q, low)'
  <2>1. ASSUME NEW x \in low..t, ValueNow(Q, x) # 0
        PROVE  ValueNow(Q, x)' = ValueNow(Q, x) /\ low <= x
    <3>1. x \in low..p /\ low <= x
      BY <2>1, <1>8
    <3> QED BY <3>1, <1>14
  <2>2. Ord(tail - 1) = t
    BY <1>4
  <2> QED BY <2>1, <2>2, <1>1, <1>3, <1>10, ReadersKept
<1>24. OpSound'
  <2>1. op.n >= 1 /\ Ord(tail + op.n - 1) = TopNo + op.need /\ op.need \in Nat
    BY <1>2 DEF OpSound, Operations
  <2>2. PICK need \in Nat : need = op.need /\ need >= 1
    BY <2>1, <1>2
  <2>3. Ord(tail + op.n - 1)' = p + need
    BY <2>1, <2>2, <1>2, <1>3, <1>11
  <2>7. op'.need = need - 1 /\ TopNo' = u /\ u = p + 1
    BY <2>2, <1>8, <1>11, <1>13
  <2>4. p + need = TopNo' + op'.need
    BY <2>2, <2>7
  <2>5. producer' = "publish" => op'.need = 0
    BY <2>2, <1>2, <1>11
  <2>6. producer' = "entry" => op'.need >= 1
    BY <2>2, <1>2, <1>11
  <2> QED BY <2>1, <2>3, <2>4, <2>5, <2>6, <1>2, <1>11 DEF OpSound
<1>25. BlocksOwned'
  <2>1. OthersValued(c) /\ ValueOf(c)' = b /\ c \in 1..Len(entries) /\ b \in Nat \ {0}
    BY <1>3, <1>9, <1>10 DEF OthersValued
  <2> QED BY <2>1, <1>2, <1>3, <1>9, <1>10, TakeBlockOwned
<1>26. PoolTypes'
  <2>1. free' \subseteq 1..Len(blocks')
    BY <1>2 DEF PoolTypes
  <2>2. indexes' \in Seq(IndexHeaders)
    BY <1>2 DEF PoolTypes
  <2> QED BY <2>1, <2>2, <1>2, <1>3, <1>10, TypesKept
<1>27. Claims'
  <2>1. tail' \in Nat /\ tail <= tail'
    BY <1>1, <1>2, NumbersAre
  <2> QED BY <2>1, <1>3, ClaimsSteady
<1>28. BlocksSound(Q, low)'
  BY <1>18, <1>19, <1>20, <1>21, <1>22 DEF BlocksSound
<1> QED BY <1>2, <1>16, <1>23, <1>24, <1>25, <1>26, <1>27, <1>28 DEF ImplicitInv, Numbered

\* Any number of times round is the same.
LEMMA RoundsMod ==
    ASSUME NEW n \in Nat, n >= 1, NEW a \in Int, NEW j \in Int
    PROVE  (a + n * j) % n = a % n
<1>1. PICK q \in Int, r \in 0..(n - 1) : q = a \div n /\ r = a % n
  OBVIOUS
<1>2. a = n * q + r
  BY <1>1
<1>3. PICK z \in Int : z = q + j
  OBVIOUS
<1>4. n * z = n * q + n * j
  BY <1>3
<1>5. n * q \in Int /\ n * j \in Int /\ n * z \in Int
  OBVIOUS
<1>6. a + n * j = n * z + r
  BY <1>2, <1>4, <1>5
<1>7. (n * z + r) % n = r
  OBVIOUS
<1> QED BY <1>1, <1>6, <1>7

\* A distance that is a number of rounds is one however often it is gone.
LEMMA DistanceMod ==
    ASSUME NEW n \in Nat, n >= 1, NEW a \in Int, NEW d \in Int, NEW j \in Int,
           a % n = (a + d) % n
    PROVE  (a + d * j) % n = a % n
<1>1. PICK q \in Int, r \in 0..(n - 1) : q = a \div n /\ r = a % n
  OBVIOUS
<1>2. a = n * q + r
  BY <1>1
<1>3. PICK b \in Int : b = a + d
  OBVIOUS
<1>4. PICK p \in Int : p = b \div n /\ r = b % n
  BY <1>1, <1>3
<1>5. b = n * p + r
  BY <1>4
<1>6. PICK k \in Int : k = p - q
  OBVIOUS
<1>7. n * k = n * p - n * q
  BY <1>6
<1>8. n * p \in Int /\ n * q \in Int
  OBVIOUS
<1>9. d = n * k
  BY <1>2, <1>3, <1>5, <1>7, <1>8
<1>10. PICK z \in Int : z = k * j
  OBVIOUS
<1>11. d * j = n * z
  BY <1>9, <1>10
<1>12. (a + n * z) % n = a % n
  BY RoundsMod
<1> QED BY <1>11, <1>12

\* Each number is some rounds from one of any n in a row.
LEMMA SomeRound ==
    ASSUME NEW n \in Nat, n >= 1, NEW x \in Int, NEW a \in Int
    PROVE  \E y \in Int, j \in Int : a <= y /\ y <= a + n - 1 /\ x = y + n * j /\ y - a = (x - a) % n
<1>1. PICK b \in Int : b = x - a
  OBVIOUS
<1>2. PICK q \in Int, r \in 0..(n - 1) : q = b \div n /\ r = b % n
  OBVIOUS
<1>3. b = n * q + r
  BY <1>2
<1>7. r \in Int /\ a \in Int
  OBVIOUS
<1>4. PICK y \in Int : y = a + r
  BY <1>7
<1>5. n * q \in Int
  OBVIOUS
<1>6. x = y + n * q /\ a <= y /\ y <= a + n - 1 /\ y - a = r
  BY <1>1, <1>2, <1>3, <1>4, <1>5
<1> QED BY <1>1, <1>2, <1>4, <1>6

LEMMA EntryRounds ==
    ASSUME PoolTypes, NEW Q \in [Nat -> Int], NEW x \in Int, NEW y \in Int, NEW j \in Int,
           NEW n \in Nat, n = Cap(Len(indexes)), x = y + n * j
    PROVE  EntryNow(Q, x) = EntryNow(Q, y)
<1>1. PICK m \in 1..Len(indexes) : m = Len(indexes)
  BY LastIs
<1>2. n = Cap(m) /\ n >= 1
  BY <1>1, IndexIs
<1>3. PICK k \in Int : k = Q[m]
  BY LastIs
<1>4. PICK a \in Int : a = y + k
  OBVIOUS
<1>5. (a + n * j) % n = a % n
  BY <1>2, RoundsMod
<1>6. n * j \in Int
  OBVIOUS
<1>7. x + k = a + n * j
  BY <1>4, <1>6
<1>8. SlotOf(Q, m, x) = SlotOf(Q, m, y)
  BY <1>2, <1>3, <1>4, <1>5, <1>7 DEF SlotOf
<1> QED BY <1>1, <1>8 DEF EntryNow, EntryOf

-----------------------------------------------------------------------------
\* The index is doubled: the entries of the last round in order, and new ones.
DoubledSlots(old, size) ==
    [s \in 0..(2 * old.capacity - 1) |->
        IF s < old.capacity THEN old.index[(old.tail + 1 + s) % old.capacity]
                            ELSE size + 1 + s - old.capacity]

LEMMA DoubledIs ==
    ASSUME CountInv, PoolTypes, OpSound, NEW Q \in [Nat -> Int], TailsRight(Q),
           producer = "entry"
    PROVE  \E p \in Int, n \in Nat :
             /\ p = TopNo /\ n = Cap(Len(indexes)) /\ n >= 1
             /\ Implicit!Doubled \in [capacity : {2 * n}, tail : {n - 1}, index : [0..(2 * n - 1) -> Nat]]
             /\ \A s \in 0..(n - 1) : Implicit!Doubled.index[s] = EntryNow(Q, p + 1 - n + s)
             /\ \A s \in n..(2 * n - 1) : Implicit!Doubled.index[s] = Len(entries) + 1 + s - n
<1>14. PICK p \in Int : p = TopNo
  BY NumbersAre
<1>1. PICK m \in 1..Len(indexes) : m = Len(indexes)
  BY LastIs
<1>2. PICK old \in IndexHeaders : old = indexes[m]
  BY IndexIs
<1>15. PICK n \in Nat : n = Cap(Len(indexes)) /\ n >= 1
  BY LastIs, IndexIs
<1>3. old.capacity = n /\ n >= 1 /\ old.index \in [0..(n - 1) -> Nat]
  BY <1>1, <1>2, <1>15, IndexIs DEF Cap
<1>13. p \in Int /\ n \in Nat /\ n >= 1
  BY <1>14, <1>15
<1>4. PICK k \in Int : k = Q[m]
  BY LastIs
<1>5. old.tail = (p + k) % n
  <2>1. ShownNo = p
    BY <1>14 DEF ShownNo
  <2> QED BY <2>1, <1>1, <1>2, <1>3, <1>4, <1>15 DEF TailsRight, SlotOf, Cap
<1>6. PICK z \in Nat : z = Len(entries)
  BY LastIs
<1>7. PICK f : f = DoubledSlots(old, z)
  OBVIOUS
<1>8. Implicit!Doubled = [capacity |-> 2 * n, tail |-> n - 1, index |-> f]
  BY <1>1, <1>2, <1>3, <1>6, <1>7, <1>15 DEF Implicit!Doubled, Implicit!Current, DoubledSlots
<1>9. /\ DOMAIN f = 0..(2 * n - 1)
      /\ f = [s \in 0..(2 * n - 1) |-> IF s < n THEN old.index[(old.tail + 1 + s) % n] ELSE z + 1 + s - n]
  BY <1>3, <1>7 DEF DoubledSlots
<1>10. ASSUME NEW s \in 0..(n - 1) PROVE f[s] = EntryNow(Q, p + 1 - n + s) /\ f[s] \in Nat
  <2>13. s \in Int /\ 0 <= s /\ s < n /\ p \in Int /\ n \in Nat /\ k \in Int
    BY <1>4, <1>13
  <2>1. s \in 0..(2 * n - 1) /\ s < n
    BY <2>13
  <2>2. f[s] = old.index[(old.tail + 1 + s) % n]
    BY <2>1, <1>9
  <2>3. PICK a \in Int, d \in Int : a = p + k /\ d = 1 + s
    BY <2>13
  <2>4. ((a % n) + d) % n = (a + d) % n /\ a % n \in Int
    <3>1. n >= 1 /\ n \in Nat /\ a \in Int /\ d \in Int
      BY <1>13, <2>3
    <3>2. ((a % n) + d) % n = (a + d) % n /\ a % n \in 0..(n - 1)
      BY <3>1, SlotAdd
    <3> QED BY <3>1, <3>2
  <2>5. (old.tail + 1 + s) % n = (a + d) % n
    <3>1. old.tail + 1 + s = (a % n) + d
      BY <1>5, <2>13, <2>3, <2>4
    <3> QED BY <3>1, <2>4
  <2>14. PICK y \in Int : y = p + 1 + s
    BY <2>13
  <2>15. PICK x \in Int : x = y - n
    BY <2>13, <2>14
  <2>16. x \in Int /\ y \in Int /\ n \in Int
    BY <2>13, <2>14, <2>15
  <2>6. y = p + 1 + s /\ x = p + 1 - n + s
    BY <2>13, <2>14, <2>15
  <2>7. EntryNow(Q, y) = old.index[(y + k) % n]
    BY <1>1, <1>2, <1>3, <1>4, <1>15 DEF EntryNow, EntryOf, SlotOf, Cap
  <2>8. y + k = a + d
    BY <2>13, <2>3, <2>6
  <2>9. y = x + n
    BY <2>15, <2>16
  <2>10. EntryNow(Q, y) = EntryNow(Q, x)
    BY <2>9, <2>16, <1>15, EntryRound
  <2>11. f[s] = EntryNow(Q, x)
    BY <2>2, <2>5, <2>7, <2>8, <2>10
  <2>12. EntryNow(Q, x) \in Nat
    <3>1. EntryNow(Q, x) \in 1..Len(entries)
      BY <2>16, EntryNowIs
    <3> QED BY <3>1, LastIs
  <2> QED BY <2>6, <2>11, <2>12
<1>11. ASSUME NEW s \in n..(2 * n - 1) PROVE f[s] = z + 1 + s - n /\ f[s] \in Nat
  <2>4. s \in Int /\ n <= s /\ n \in Nat /\ z \in Nat
    BY <1>6, <1>13
  <2>1. s \in 0..(2 * n - 1) /\ ~ s < n
    BY <2>4
  <2>2. f[s] = z + 1 + s - n
    BY <2>1, <1>9
  <2>5. PICK g \in Nat : g = s - n
    BY <2>4
  <2>3. z + 1 + s - n \in Nat
    <3>1. z + 1 + s - n = z + 1 + g
      BY <2>4, <2>5
    <3>2. z + 1 + g \in Nat
      BY <2>4, <2>5
    <3> QED BY <3>1, <3>2
  <2> QED BY <2>2, <2>3
<1>12. f \in [0..(2 * n - 1) -> Nat]
  <2>1. \A s \in 0..(2 * n - 1) : s \in 0..(n - 1) \/ s \in n..(2 * n - 1)
    BY <1>3
  <2>2. \A s \in 0..(2 * n - 1) : f[s] \in Nat
    BY <2>1, <1>10, <1>11
  <2> QED BY <2>2, <1>9
<1> QED BY <1>3, <1>6, <1>8, <1>10, <1>11, <1>12, <1>14, <1>15

\* What growing makes of the index, for the newest number p, a capacity of n,
\* the index with number l and e entries: Q becomes P.
GrownHeaders(Q, P, p, n, l) ==
    /\ Len(indexes) = l /\ l >= 1 /\ Cap(l) = n /\ n >= 1
    /\ Len(indexes') = l + 1 /\ indexes' \in Seq(IndexHeaders)
    /\ \A h \in 1..l : indexes'[h] = indexes[h] /\ P[h] = Q[h]
    /\ indexes'[l + 1].capacity = 2 * n /\ indexes'[l + 1].tail = n - 1
    /\ P[l + 1] = n - 1 - p
GrownSlots(Q, p, n, l, e) ==
    /\ \A s \in 0..(n - 1) : indexes'[l + 1].index[s] = EntryNow(Q, p + 1 - n + s)
    /\ \A s \in n..(2 * n - 1) : indexes'[l + 1].index[s] = e + 1 + s - n
GrownEntries(n, e) ==
    /\ Len(entries) = e /\ Len(entries') = e + n /\ entries' \in Seq(IndexEntries)
    /\ \A i \in 1..e : KeyOf(i)' = KeyOf(i) /\ ValueOf(i)' = ValueOf(i)
    /\ \A i \in (e + 1)..(e + n) : KeyOf(i)' = -1 /\ ValueOf(i)' = 0

LEMMA FreshIs ==
    ASSUME PoolTypes, NEW n \in Nat, entries' = entries \o Implicit!FreshEntries(n)
    PROVE  \E e \in Nat : GrownEntries(n, e)
<1>1. PICK e \in Nat : e = Len(entries)
  BY LastIs
<1>2. PICK w : w = Implicit!FreshEntries(n)
  OBVIOUS
<1>3. PICK fresh : fresh = [key |-> -1, value |-> 0]
  OBVIOUS
<1>4. fresh \in IndexEntries /\ fresh.key = -1 /\ fresh.value = 0
  BY <1>3 DEF IndexEntries
<1>5. w = [i \in 1..n |-> fresh]
  BY <1>2, <1>3 DEF Implicit!FreshEntries, Implicit!Invalid, Implicit!NoBlock
<1>6. w \in Seq(IndexEntries) /\ Len(w) = n /\ \A i \in 1..n : w[i] = fresh
  BY <1>4, <1>5
<1>7. entries \in Seq(IndexEntries)
  BY DEF PoolTypes
<1>8. /\ entries' \in Seq(IndexEntries) /\ Len(entries') = e + n
      /\ \A i \in 1..(e + n) : entries'[i] = IF i <= e THEN entries[i] ELSE w[i - e]
  <2>1. PICK u : u = entries
    OBVIOUS
  <2>2. PICK v : v = u \o w
    OBVIOUS
  <2>3. entries' = v
    BY <2>1, <2>2, <1>2
  <2>4. u \in Seq(IndexEntries) /\ Len(u) = e
    BY <2>1, <1>1, <1>7
  <2>5. v \in Seq(IndexEntries) /\ Len(v) = e + n /\ \A i \in 1..(e + n) : v[i] = IF i <= e THEN u[i] ELSE w[i - e]
    BY <2>2, <2>4, <1>6, ConcatProperties
  <2> QED BY <2>1, <2>3, <2>5
<1>9. ASSUME NEW i \in 1..e PROVE KeyOf(i)' = KeyOf(i) /\ ValueOf(i)' = ValueOf(i)
  <2>1. entries'[i] = entries[i]
    BY <1>8
  <2> QED BY <2>1 DEF KeyOf, ValueOf
<1>10. ASSUME NEW i \in (e + 1)..(e + n) PROVE KeyOf(i)' = -1 /\ ValueOf(i)' = 0
  <2>1. entries'[i] = fresh
    <3>1. i - e \in 1..n /\ i \in 1..(e + n) /\ ~ i <= e
      OBVIOUS
    <3> QED BY <3>1, <1>6, <1>8
  <2> QED BY <2>1, <1>4 DEF KeyOf, ValueOf
<1> QED BY <1>1, <1>8, <1>9, <1>10 DEF GrownEntries

LEMMA GrowthIs ==
    ASSUME Claims, PoolTypes, OpSound, NEW Q, NEW low, Numbered(Q, low), Implicit!Grow
    PROVE  \E P \in [Nat -> Int], p \in Int, n \in Nat, l \in Nat, e \in Nat :
             /\ low = p + 1 - n /\ p = TopNo
             /\ GrownHeaders(Q, P, p, n, l) /\ GrownSlots(Q, p, n, l, e) /\ GrownEntries(n, e)
<1>1. /\ CountInv /\ IndexSound(Q, low) /\ Q \in [Nat -> Int] /\ low \in Nat
      /\ SlotsRight(Q) /\ TailsRight(Q) /\ Window(low) /\ ValuesShown(Q, low)
  BY DEF Claims, Numbered, IndexSound
<1>2. /\ producer = "entry" /\ ~ Implicit!SlotFree
      /\ entries' = entries \o Implicit!FreshEntries(indexes[Implicit!Current].capacity)
      /\ indexes' = Append(indexes, Implicit!Doubled)
  BY DEF Implicit!Grow
<1>3. PICK p \in Int, n \in Nat :
             /\ p = TopNo /\ n = Cap(Len(indexes)) /\ n >= 1
             /\ Implicit!Doubled \in [capacity : {2 * n}, tail : {n - 1}, index : [0..(2 * n - 1) -> Nat]]
             /\ \A s \in 0..(n - 1) : Implicit!Doubled.index[s] = EntryNow(Q, p + 1 - n + s)
             /\ \A s \in n..(2 * n - 1) : Implicit!Doubled.index[s] = Len(entries) + 1 + s - n
  BY <1>1, <1>2, DoubledIs
<1>4. PICK l \in Nat : l = Len(indexes) /\ l >= 1
  BY LastIs
<1>5. PICK e \in Nat : GrownEntries(n, e)
  <2>1. entries' = entries \o Implicit!FreshEntries(n)
    BY <1>2, <1>3 DEF Implicit!Current, Cap
  <2> QED BY <2>1, FreshIs
<1>6. e = Len(entries)
  BY <1>5 DEF GrownEntries
<1>7. PICK D : D = Implicit!Doubled
  OBVIOUS
<1>8. D \in [capacity : {2 * n}, tail : {n - 1}, index : [0..(2 * n - 1) -> Nat]]
  BY <1>3, <1>7
<1>9. D.capacity = 2 * n /\ D.tail = n - 1 /\ D.index \in [0..(2 * n - 1) -> Nat]
  BY <1>8
<1>10. D \in IndexHeaders
  <2>1. n >= 1 /\ n \in Nat
    BY <1>3
  <2>2. 2 * n \in Nat \ {0} /\ n - 1 \in Nat /\ n - 1 < 2 * n
    BY <2>1
  <2>3. D \in [capacity : Nat \ {0}, tail : Nat, index : UNION { [0..(i - 1) -> Nat] : i \in Nat }]
    <3>1. [0..(2 * n - 1) -> Nat] \in { [0..(i - 1) -> Nat] : i \in Nat }
      BY <2>2
    <3>2. D.index \in UNION { [0..(i - 1) -> Nat] : i \in Nat }
      BY <3>1, <1>9
    <3>3. D = [capacity |-> 2 * n, tail |-> n - 1, index |-> D.index]
      BY <1>8
    <3> QED BY <3>2, <3>3, <2>2
  <2> QED BY <2>2, <2>3, <1>9 DEF IndexHeaders
<1>11. /\ indexes' \in Seq(IndexHeaders) /\ Len(indexes') = l + 1 /\ indexes'[l + 1] = D
       /\ \A h \in 1..l : indexes'[h] = indexes[h]
  <2>1. indexes \in Seq(IndexHeaders) /\ indexes' = Append(indexes, D)
    BY <1>2, <1>7 DEF PoolTypes
  <2> QED BY <2>1, <1>4, <1>10, AppendIs
<1>12. PICK d \in Int : d = n - 1 - p
  BY <1>3
<1>13. PICK P : P = [Q EXCEPT ![l + 1] = d]
  OBVIOUS
<1>14. P \in [Nat -> Int] /\ P[l + 1] = d /\ \A h \in 1..l : P[h] = Q[h]
  <2>1. l + 1 \in Nat /\ \A h \in 1..l : h \in Nat /\ h # l + 1
    BY <1>4
  <2> QED BY <2>1, <1>1, <1>13
<1>15. GrownHeaders(Q, P, p, n, l)
  BY <1>3, <1>4, <1>9, <1>11, <1>12, <1>14 DEF GrownHeaders
<1>16. GrownSlots(Q, p, n, l, e)
  BY <1>3, <1>6, <1>7, <1>11 DEF GrownSlots
<1>17. low = p + 1 - n
  <2>1. /\ ShownNo = p /\ KeyedNo = p
    BY <1>2, <1>3 DEF ShownNo, KeyedNo
  <2>2. p - low < n
    BY <2>1, <1>1, <1>3 DEF Window
  <2>3. PICK u \in Int : u = p + 1
    BY <1>3
  <2>4. PICK c \in 1..Len(entries) : c = EntryNow(Q, u)
    BY <1>1, EntryNowIs
  <2>5. Implicit!Candidate = c
    <3>1. PICK t \in Int : t = TopNo /\ Implicit!Candidate = EntryNow(Q, t + 1)
      BY <1>1, <1>2, CandidateIs
    <3> QED BY <3>1, <2>3, <2>4, <1>3
  <2>6. ValueOf(c) # 0
    BY <2>5, <1>2 DEF Implicit!SlotFree, Implicit!NoBlock, ValueOf
  <2>7. PICK x \in low..p : c = EntryNow(Q, x)
    BY <2>1, <2>6, <1>1 DEF ValuesShown
  <2>8. x \in Int /\ x <= p /\ low <= x /\ u \in Int /\ u = p + 1 /\ low \in Nat /\ p \in Int /\ n \in Nat
    BY <2>3, <2>7, <1>1
  <2>9. ~ u < x + n
    <3> SUFFICES ASSUME u < x + n PROVE FALSE
      OBVIOUS
    <3>1. x < u
      BY <2>8
    <3>2. EntryNow(Q, x) # EntryNow(Q, u)
      <4>1. u < x + Cap(Len(indexes))
        BY <1>3
      <4>2. x \in Int /\ u \in Int
        BY <2>8
      <4> QED BY <3>1, <4>1, <4>2, <1>1, EntriesApart
    <3> QED BY <3>2, <2>4, <2>7
  <2> QED BY <2>2, <2>8, <2>9
<1> QED BY <1>3, <1>4, <1>5, <1>14, <1>15, <1>16, <1>17

\* Where a number comes to be in the larger index: those of the last round
\* keep their entries.
GrownAt(Q, P, p, n, l, a) ==
    /\ \A x \in Int : \E s \in 0..(2 * n - 1), j \in Int :
         /\ s = SlotOf(P, l + 1, x)' /\ x = (a + s) + (2 * n) * j
         /\ EntryNow(P, x)' = indexes'[l + 1].index[s]
    /\ \A x \in a..p : SlotOf(P, l + 1, x)' = x - a /\ EntryNow(P, x)' = EntryNow(Q, x)

LEMMA GrownNow ==
    ASSUME NEW Q \in [Nat -> Int], NEW P \in [Nat -> Int], NEW p \in Int, NEW n \in Nat,
           NEW l \in Nat, NEW e \in Nat, GrownHeaders(Q, P, p, n, l), GrownSlots(Q, p, n, l, e),
           NEW a \in Int, a + n = p + 1
    PROVE  GrownAt(Q, P, p, n, l, a)
<1>1. /\ n >= 1 /\ Len(indexes') = l + 1 /\ indexes'[l + 1].capacity = 2 * n /\ P[l + 1] = n - 1 - p
  BY DEF GrownHeaders
<1>2. a = p + 1 - n
  OBVIOUS
<1>3. PICK w \in Nat : w = 2 * n
  OBVIOUS
<1>4. w >= 1 /\ w = n + n
  BY <1>1, <1>3
<1>5. ASSUME NEW x \in Int
      PROVE  SlotOf(P, l + 1, x)' = (x - a) % w /\ EntryNow(P, x)' = indexes'[l + 1].index[SlotOf(P, l + 1, x)']
  <2>1. SlotOf(P, l + 1, x)' = (x + (n - 1 - p)) % w
    BY <1>1, <1>3 DEF SlotOf, Cap
  <2>2. x + (n - 1 - p) = x - a
    BY <1>2
  <2> QED BY <2>1, <2>2, <1>1 DEF EntryNow, EntryOf
<1>6. ASSUME NEW x \in Int
      PROVE  \E s \in 0..(w - 1), j \in Int :
                /\ s = SlotOf(P, l + 1, x)' /\ x = (a + s) + w * j
                /\ EntryNow(P, x)' = indexes'[l + 1].index[s]
  <2>1. PICK y \in Int, j \in Int : a <= y /\ y <= a + w - 1 /\ x = y + w * j /\ y - a = (x - a) % w
    BY <1>4, SomeRound
  <2>2. PICK s \in Int : s = y - a
    BY <2>1
  <2>3. s \in 0..(w - 1) /\ y = a + s
    BY <2>1, <2>2
  <2>4. s = SlotOf(P, l + 1, x)'
    BY <2>1, <2>2, <1>5
  <2>5. x = (a + s) + w * j
    BY <2>1, <2>3
  <2> QED BY <2>1, <2>3, <2>4, <2>5, <1>5
<1>7. ASSUME NEW x \in a..p
      PROVE  SlotOf(P, l + 1, x)' = x - a /\ EntryNow(P, x)' = EntryNow(Q, x)
  <2>1. x \in Int /\ a <= x /\ x <= p /\ p = a + n - 1
    BY <1>2
  <2>2. PICK s \in Int : s = x - a
    BY <2>1
  <2>8. 0 <= s /\ s <= n - 1
    BY <2>1, <2>2
  <2>9. n <= w
    BY <1>4
  <2>3. s \in 0..(n - 1) /\ s \in 0..(w - 1)
    BY <2>8, <2>9
  <2>4. s % w = s
    BY <2>3, SmallMod
  <2>5. SlotOf(P, l + 1, x)' = s
    BY <2>1, <2>2, <2>4, <1>5
  <2>6. indexes'[l + 1].index[s] = EntryNow(Q, a + s)
    BY <2>3, <1>2 DEF GrownSlots
  <2>7. a + s = x
    BY <2>1, <2>2
  <2> QED BY <2>1, <2>2, <2>5, <2>6, <2>7, <1>5
<1> QED BY <1>3, <1>6, <1>7 DEF GrownAt

\* No entry is there twice.
AllApart(n, l) ==
    \A r, s \in 0..(2 * n - 1) : indexes'[l + 1].index[r] = indexes'[l + 1].index[s] => r = s

LEMMA GrownApart ==
    ASSUME PoolTypes, NEW Q \in [Nat -> Int], SlotsRight(Q), NEW P, NEW p \in Int, NEW n \in Nat,
           NEW l \in Nat, NEW e \in Nat, GrownHeaders(Q, P, p, n, l), GrownSlots(Q, p, n, l, e),
           GrownEntries(n, e)
    PROVE  AllApart(n, l)
<1> SUFFICES ASSUME NEW r \in 0..(2 * n - 1), NEW s \in 0..(2 * n - 1),
                    indexes'[l + 1].index[r] = indexes'[l + 1].index[s]
             PROVE  r = s
  BY DEF AllApart
<1>1. /\ n >= 1 /\ Len(indexes) = l /\ Cap(l) = n /\ Len(entries) = e
  BY DEF GrownHeaders, GrownEntries
<1>2. PICK a \in Int : a = p + 1 - n
  OBVIOUS
<1>3. ASSUME NEW i \in 0..(n - 1), NEW j \in 0..(n - 1), i < j,
             indexes'[l + 1].index[i] = indexes'[l + 1].index[j]
      PROVE  FALSE
  <2>1. PICK x \in Int, y \in Int : x = a + i /\ y = a + j
    BY <1>2
  <2>2. i \in Int /\ j \in Int /\ a \in Int /\ i < j /\ j <= i + n - 1
    BY <1>2, <1>3
  <2>3. x < y /\ y < x + n
    BY <2>1, <2>2
  <2>4. EntryNow(Q, x) # EntryNow(Q, y)
    BY <2>1, <2>3, <1>1, EntriesApart
  <2> QED BY <2>1, <2>4, <1>2, <1>3 DEF GrownSlots
<1>4. ASSUME NEW i \in 0..(n - 1) PROVE indexes'[l + 1].index[i] \in 1..e
  <2>1. PICK x \in Int : x = a + i
    BY <1>2
  <2>2. EntryNow(Q, x) \in 1..e
    BY <1>1, <2>1, EntryNowIs
  <2> QED BY <2>1, <2>2, <1>2 DEF GrownSlots
<1>5. ASSUME NEW i \in n..(2 * n - 1) PROVE indexes'[l + 1].index[i] = e + 1 + i - n /\ i \in Int /\ n <= i
  BY DEF GrownSlots
<1>6. \A i \in 0..(2 * n - 1) : i \in 0..(n - 1) \/ i \in n..(2 * n - 1)
  OBVIOUS
<1>7. CASE r \in 0..(n - 1) /\ s \in 0..(n - 1)
  <2>1. ~ r < s /\ ~ s < r
    BY <1>3, <1>7
  <2>2. r \in Int /\ s \in Int
    BY <1>7
  <2> QED BY <2>1, <2>2
<1>8. CASE r \in n..(2 * n - 1) /\ s \in n..(2 * n - 1)
  <2>1. e + 1 + r - n = e + 1 + s - n /\ r \in Int /\ s \in Int
    BY <1>5, <1>8
  <2> QED BY <2>1
<1>9. CASE r \in 0..(n - 1) /\ s \in n..(2 * n - 1)
  <2>1. indexes'[l + 1].index[r] \in 1..e /\ indexes'[l + 1].index[r] = e + 1 + s - n /\ s \in Int /\ n <= s
    BY <1>4, <1>5, <1>9
  <2> QED BY <2>1
<1>10. CASE s \in 0..(n - 1) /\ r \in n..(2 * n - 1)
  <2>1. indexes'[l + 1].index[s] \in 1..e /\ indexes'[l + 1].index[s] = e + 1 + r - n /\ r \in Int /\ n <= r
    BY <1>4, <1>5, <1>10
  <2> QED BY <2>1
<1> QED BY <1>6, <1>7, <1>8, <1>9, <1>10

\* The numbers of an operation that is as it was.
SameNumbers(low, p, n) ==
    /\ low = p + 1 - n
    /\ TopNo = p /\ KeyedNo = p /\ ShownNo = p
    /\ TopNo' = p /\ KeyedNo' = p /\ ShownNo' = p /\ Ord(tail - 1)' = Ord(tail - 1)

\* In the older indexes an entry keeps its slot: a round of the larger index is
\* rounds of theirs.
LEMMA GrownSlotsRight ==
    ASSUME PoolTypes, NEW Q \in [Nat -> Int], SlotsRight(Q), NEW P \in [Nat -> Int], NEW p \in Int,
           NEW n \in Nat, NEW l \in Nat, NEW e \in Nat, GrownHeaders(Q, P, p, n, l),
           GrownSlots(Q, p, n, l, e), GrownEntries(n, e)
    PROVE  SlotsRight(P)'
<1>1. /\ n >= 1 /\ Len(indexes) = l /\ l >= 1 /\ Cap(l) = n /\ Len(entries) = e /\ Len(indexes') = l + 1
      /\ \A h \in 1..l : indexes'[h] = indexes[h] /\ P[h] = Q[h]
      /\ indexes'[l + 1].capacity = 2 * n
  BY DEF GrownHeaders, GrownEntries
<1>2. PICK a \in Int : a = p + 1 - n
  OBVIOUS
<1>3. \A x \in Int : \E s \in 0..(2 * n - 1), j \in Int :
                /\ s = SlotOf(P, l + 1, x)' /\ x = (a + s) + (2 * n) * j
                /\ EntryNow(P, x)' = indexes'[l + 1].index[s]
  <2>1. a + n = p + 1
    BY <1>2
  <2>2. GrownAt(Q, P, p, n, l, a)
    BY <2>1, GrownNow
  <2> QED BY <2>2 DEF GrownAt
<1> SUFFICES ASSUME NEW h \in 1..(l + 1), NEW s \in 0..(Cap(h)' - 1), NEW x \in Int,
                    indexes'[h].index[s] = EntryNow(P, x)'
             PROVE  s = SlotOf(P, h, x)'
  BY <1>1 DEF SlotsRight
<1>4. PICK r \in 0..(2 * n - 1), j \in Int :
                /\ r = SlotOf(P, l + 1, x)' /\ x = (a + r) + (2 * n) * j
                /\ EntryNow(P, x)' = indexes'[l + 1].index[r]
  BY <1>3
<1>5. CASE h = l + 1
  <2>1. s \in 0..(2 * n - 1)
    BY <1>1, <1>5 DEF Cap
  <2>2. indexes'[l + 1].index[s] = indexes'[l + 1].index[r]
    BY <1>4, <1>5
  <2>3. s = r
    <3>1. AllApart(n, l)
      BY GrownApart
    <3> QED BY <2>1, <2>2, <3>1 DEF AllApart
  <2> QED BY <2>3, <1>4, <1>5
<1>6. CASE h # l + 1
  <2>1. h \in 1..l /\ h \in 1..Len(indexes)
    <3>1. h \in 1..l
      BY <1>6
    <3>2. Len(indexes) = l
      BY <1>1
    <3> QED BY <3>1, <3>2
  <2>2. Cap(h)' = Cap(h) /\ P[h] = Q[h] /\ indexes'[h].index[s] = indexes[h].index[s]
    BY <2>1, <1>1 DEF Cap
  <2>3. PICK c \in Nat : c = Cap(h) /\ c >= 1
    BY <2>1, IndexIs
  <2>4. s \in 0..(Cap(h) - 1) /\ indexes[h].index[s] \in 1..e
    BY <2>1, <2>2, <1>1, IndexIs
  <2>5. r \in 0..(n - 1)
    <3> SUFFICES ASSUME r \notin 0..(n - 1) PROVE FALSE
      OBVIOUS
    <3>1. r \in n..(2 * n - 1) /\ r \in Int /\ n <= r
      OBVIOUS
    <3>2. indexes'[l + 1].index[r] = e + 1 + r - n
      BY <3>1 DEF GrownSlots
    <3>3. indexes'[l + 1].index[r] \in 1..e
      BY <2>2, <2>4, <1>4
    <3> QED BY <3>1, <3>2, <3>3
  <2>6. PICK y \in Int : y = a + r
    BY <1>2
  <2>7. PICK z \in Int : z = y + n
    BY <2>6
  <2>8. EntryNow(P, x)' = EntryNow(Q, y)
    BY <2>5, <2>6, <1>2, <1>4 DEF GrownSlots
  <2>9. EntryNow(Q, z) = EntryNow(Q, y)
    BY <2>6, <2>7, <1>1, EntryRound
  <2>10. s = SlotOf(Q, h, y) /\ s = SlotOf(Q, h, z)
    BY <2>1, <2>2, <2>4, <2>6, <2>7, <2>8, <2>9 DEF SlotsRight
  <2>11. PICK q \in Int : q = Q[h]
    <3>1. h \in Nat
      BY <2>1
    <3> QED BY <3>1
  <2>12. PICK b \in Int : b = y + q
    BY <2>6, <2>11
  <2>13. b % c = (b + n) % c
    <3>1. s = (y + q) % c /\ s = (z + q) % c
      BY <2>3, <2>10, <2>11 DEF SlotOf
    <3>2. z + q = b + n
      BY <2>7, <2>12
    <3> QED BY <3>1, <3>2, <2>12
  <2>14. PICK i \in Int : i = 2 * j
    BY <1>4
  <2>15. (b + n * i) % c = b % c
    <3>1. c \in Nat /\ c >= 1 /\ b \in Int /\ n \in Int /\ i \in Int /\ b % c = (b + n) % c
      BY <2>3, <2>12, <2>13, <2>14
    <3>2. \A d, m \in Int : b % c = (b + d) % c => (b + d * m) % c = b % c
      BY <3>1, DistanceMod
    <3> QED BY <3>1, <3>2
  <2>16. (2 * n) * j = n * i
    BY <2>14
  <2>17. PICK v \in Int : v = n * i
    BY <2>14
  <2>18. x + q = b + v
    <3>1. x = y + v
      BY <2>6, <2>16, <2>17, <1>4
    <3> QED BY <3>1, <2>12
  <2>19. SlotOf(P, h, x)' = (x + q) % c
    BY <2>2, <2>3, <2>11 DEF SlotOf
  <2>20. s = b % c
    BY <2>3, <2>10, <2>11, <2>12 DEF SlotOf
  <2> QED BY <2>15, <2>17, <2>18, <2>19, <2>20
<1> QED BY <1>5, <1>6

LEMMA GrownSound ==
    ASSUME CountInv, PoolTypes, OpSound, NEW Q, NEW low, IndexSound(Q, low), Still,
           NEW P \in [Nat -> Int], NEW p \in Int, NEW n \in Nat, NEW l \in Nat, NEW e \in Nat,
           GrownHeaders(Q, P, p, n, l), GrownSlots(Q, p, n, l, e), GrownEntries(n, e),
           SameNumbers(low, p, n)
    PROVE  IndexSound(P, low)'
<1>1. /\ Q \in [Nat -> Int] /\ low \in Nat /\ SlotsRight(Q) /\ KeysRight(Q) /\ TailsRight(Q)
      /\ Window(low) /\ OverBelow(low) /\ KeysShown(Q, low) /\ ValuesShown(Q, low)
  BY DEF IndexSound
<1>2. /\ n >= 1 /\ Len(indexes) = l /\ l >= 1 /\ Cap(l) = n /\ Len(entries) = e /\ Len(indexes') = l + 1
      /\ \A h \in 1..l : indexes'[h] = indexes[h] /\ P[h] = Q[h]
      /\ indexes'[l + 1].capacity = 2 * n /\ indexes'[l + 1].tail = n - 1
  BY DEF GrownHeaders, GrownEntries
<1>3. \A x \in low..p : SlotOf(P, l + 1, x)' = x - low /\ EntryNow(P, x)' = EntryNow(Q, x)
  <2>1. low + n = p + 1 /\ low \in Int
    BY <1>1 DEF SameNumbers
  <2>2. GrownAt(Q, P, p, n, l, low)
    BY <2>1, <1>1, GrownNow
  <2> QED BY <2>2 DEF GrownAt
<1>4. low \in Nat /\ p \in Int /\ n \in Nat /\ n >= 1 /\ p = low + n - 1
  <2>1. low = p + 1 - n
    BY DEF SameNumbers
  <2>2. low \in Nat /\ n >= 1
    BY <1>1, <1>2
  <2> QED BY <2>1, <2>2
<1>5. SlotsRight(P)'
  BY <1>1, GrownSlotsRight
<1>6. KeysRight(P)'
  <2> SUFFICES ASSUME NEW i \in 1..(e + n), KeyOf(i)' # -1
               PROVE  \E x \in Int : KeyOf(i)' = First(x) /\ i = EntryNow(P, x)'
    BY DEF KeysRight, GrownEntries
  <2>1. i \in 1..e
    <3>1. i \notin (e + 1)..(e + n)
      BY DEF GrownEntries
    <3> QED BY <3>1
  <2>2. KeyOf(i)' = KeyOf(i)
    BY <2>1 DEF GrownEntries
  <2>3. PICK x \in Int : i = EntryNow(Q, x)
    BY <2>1, <2>2, <1>1, <1>2 DEF KeysRight
  <2>4. PICK y \in Int, j \in Int : low <= y /\ y <= low + n - 1 /\ x = y + n * j
    <3>1. low \in Int /\ n \in Nat /\ n >= 1
      BY <1>4
    <3>2. \E y \in Int, j \in Int : low <= y /\ y <= low + n - 1 /\ x = y + n * j /\ y - low = (x - low) % n
      BY <3>1, SomeRound
    <3> QED BY <3>2
  <2>5. y \in low..p
    BY <2>4, <1>4
  <2>6. i = EntryNow(Q, y)
    <3>1. EntryNow(Q, x) = EntryNow(Q, y)
      <4>1. n = Cap(Len(indexes)) /\ n \in Nat
        BY <1>2
      <4>2. x = y + n * j /\ y \in Int /\ j \in Int
        BY <2>4
      <4> QED BY <4>1, <4>2, <1>1, EntryRounds
    <3> QED BY <3>1, <2>3
  <2>7. KeyOf(i) = First(y)
    BY <2>5, <2>6, <1>1 DEF KeysShown, SameNumbers
  <2> QED BY <2>2, <2>4, <2>5, <2>6, <2>7, <1>3
<1>7. TailsRight(P)'
  <2>1. indexes'[l + 1].tail = SlotOf(P, l + 1, p)'
    <3>1. p \in low..p /\ p - low = n - 1
      BY <1>4
    <3> QED BY <3>1, <1>2, <1>3
  <2>2. SlotOf(P, Len(indexes), ShownNo)' = SlotOf(P, l + 1, p)'
    BY <1>2 DEF SlotOf, Cap, SameNumbers
  <2>3. ASSUME NEW h \in 1..l PROVE KeyOf(indexes[h].index[indexes[h].tail])' # -1
    <3>1. PICK f \in 1..Len(entries) : f = indexes[h].index[indexes[h].tail]
      BY <1>2, IndexIs
    <3>2. KeyOf(f) # -1
      <4>1. CASE h \in 1..(l - 1)
        BY <4>1, <3>1, <1>1, <1>2 DEF TailsRight
      <4>2. CASE h = l
        <5>1. f = EntryNow(Q, p)
          BY <4>2, <3>1, <1>1, <1>2 DEF TailsRight, SameNumbers, EntryNow, EntryOf
        <5>2. p \in low..p
          BY <1>4
        <5>3. KeyOf(f) = First(p)
          BY <5>1, <5>2, <1>1 DEF KeysShown, SameNumbers
        <5> QED BY <5>3, FirstKey
      <4> QED BY <4>1, <4>2, <1>2
    <3>3. KeyOf(f)' = KeyOf(f)
      BY <3>1, <1>2 DEF GrownEntries
    <3>4. indexes'[h].index[indexes'[h].tail] = f
      BY <3>1, <1>2
    <3> QED BY <3>2, <3>3, <3>4 DEF KeyOf
  <2>4. \A h \in 1..(Len(indexes') - 1) : KeyOf(indexes[h].index[indexes[h].tail])' # -1
    BY <2>3, <1>2
  <2>5. indexes'[Len(indexes')].tail = SlotOf(P, Len(indexes), ShownNo)'
    BY <2>1, <2>2, <1>2
  <2> QED BY <2>4, <2>5 DEF TailsRight
<1>8. Window(low)'
  <2>1. Cap(Len(indexes))' = n + n
    BY <1>2 DEF Cap
  <2>2. low <= Ord(tail - 1)' + 1
    BY <1>1 DEF Window, SameNumbers
  <2>3. p - low < n + n
    BY <1>4
  <2>4. KeyedNo' = p
    BY DEF SameNumbers
  <2> QED BY <2>1, <2>2, <2>3, <2>4 DEF Window
<1>9. OverBelow(low)'
  BY <1>1, SteadyKeeps DEF OverBelow
<1>10. KeysShown(P, low)'
  <2> SUFFICES ASSUME NEW x \in low..p PROVE KeyOf(EntryNow(P, x))' = First(x)
    BY DEF KeysShown, SameNumbers
  <2>1. x \in Int
    BY <1>4
  <2>2. PICK i \in 1..e : i = EntryNow(Q, x)
    BY <2>1, <1>1, <1>2, EntryNowIs
  <2>3. KeyOf(EntryNow(P, x))' = KeyOf(i)'
    BY <2>2, <1>3 DEF KeyOf
  <2>4. KeyOf(i)' = KeyOf(i)
    BY <2>2 DEF GrownEntries
  <2>5. KeyOf(i) = First(x)
    BY <2>2, <1>1 DEF KeysShown, SameNumbers
  <2> QED BY <2>3, <2>4, <2>5
<1>11. ValuesShown(P, low)'
  <2> SUFFICES ASSUME NEW i \in 1..(e + n), ValueOf(i)' # 0
               PROVE  \E x \in low..p : i = EntryNow(P, x)'
    BY DEF ValuesShown, GrownEntries, SameNumbers
  <2>1. i \in 1..e
    <3>1. i \notin (e + 1)..(e + n)
      BY DEF GrownEntries
    <3> QED BY <3>1
  <2>2. ValueOf(i) # 0
    BY <2>1 DEF GrownEntries
  <2>3. PICK x \in low..p : i = EntryNow(Q, x)
    BY <2>1, <2>2, <1>1, <1>2 DEF ValuesShown, SameNumbers
  <2> QED BY <2>3, <1>3
<1>12. P \in [Nat -> Int] /\ low \in Nat
  BY <1>1
<1> QED BY <1>5, <1>6, <1>7, <1>8, <1>9, <1>10, <1>11, <1>12 DEF IndexSound

\* A consumer's items have their numbers between low and the tail's block, as
\* long as it needs their entries.
LEMMA NeedAhead ==
    ASSUME Claims, OpSound, NEW Q, NEW low, Numbered(Q, low), NEW c \in Taking, consumer[c] # "index",
           NEW i \in Nat, NeedsFrom(c) <= i, i < local[c].stop
    PROVE  Ord(i) \in low..Ord(tail - 1)
<1>1. CountInv /\ ClaimsApart /\ low \in Nat /\ OverBelow(low) /\ ReaderSound(Q, low, c)
  BY DEF Claims, Numbered, IndexSound, ReadersSound
<1>2. PICK a \in Nat, b \in Nat, e \in Nat, h \in Nat, t \in Nat :
             /\ a = local[c].next /\ b = local[c].stop /\ e = End(c) /\ h = head /\ t = tail
             /\ a < e /\ e <= b /\ b <= h /\ h <= t /\ \A k \in a..(e - 1) : Ord(k) = Ord(a)
  BY <1>1, TakingIs
<1>3. CASE CountsFrom(c) <= i
  BY <1>1, <1>3, NextAhead
<1>4. CASE ~ CountsFrom(c) <= i
  <2>1. consumer[c] = "clear"
    BY <1>4 DEF CountsFrom, NeedsFrom
  <2>2. a <= i /\ i < e
    BY <2>1, <1>2, <1>4 DEF CountsFrom, NeedsFrom
  <2>3. Ord(i) = Ord(a)
    BY <2>2, <1>2
  <2>4. low <= Ord(a)
    BY <2>1, <1>1, <1>2 DEF ReaderSound
  <2>5. a <= t - 1 /\ t - 1 \in Int /\ a \in Int
    BY <1>2
  <2>6. Ord(a) <= Ord(t - 1) /\ Ord(t - 1) \in Int /\ Ord(a) \in Int
    BY <2>5, OrdMono, OrdAt
  <2> QED BY <2>3, <2>4, <2>6, <1>1, <1>2
<1> QED BY <1>3, <1>4

LEMMA ReadersGrown ==
    ASSUME Claims, PoolTypes, OpSound, Still, NEW Q, NEW low, Numbered(Q, low),
           NEW P \in [Nat -> Int], NEW p \in Int, NEW n \in Nat, NEW l \in Nat, NEW e \in Nat,
           GrownHeaders(Q, P, p, n, l), GrownEntries(n, e),
           \A x \in low..Ord(tail - 1) : EntryNow(P, x)' = EntryNow(Q, x)
    PROVE  ReadersSound(P, low)'
<1>1. /\ Q \in [Nat -> Int] /\ low \in Nat /\ OverBelow(low) /\ ReadersSound(Q, low)
      /\ CountInv /\ ClaimsApart
  BY DEF Numbered, IndexSound, Claims
<1>2. /\ consumer' = consumer /\ local' = local /\ Taking' = Taking
      /\ \A c : NeedsFrom(c)' = NeedsFrom(c)
      /\ \A x : Over(x)' <=> Over(x)
  BY SteadyKeeps
<1>3. /\ Len(indexes) = l /\ Len(indexes') = l + 1 /\ Len(entries) = e
      /\ \A h \in 1..l : indexes'[h] = indexes[h] /\ P[h] = Q[h]
  BY DEF GrownHeaders, GrownEntries
<1>4. \A h \in 1..l : Cap(h)' = Cap(h)
  BY <1>3 DEF Cap
<1>5. \A h \in 1..l, x \in Int : SlotOf(P, h, x)' = SlotOf(Q, h, x)
  BY <1>3, <1>4 DEF SlotOf
<1>6. \A h \in 1..l, x \in Int : EntryOf(P, h, x)' = EntryOf(Q, h, x)
  BY <1>3, <1>5 DEF EntryOf
<1>7. \A x \in low..Ord(tail - 1) : EntryNow(Q, x) \in 1..e /\ ValueNow(P, x)' = ValueNow(Q, x)
  <2> SUFFICES ASSUME NEW x \in low..Ord(tail - 1)
               PROVE  EntryNow(Q, x) \in 1..e /\ ValueNow(P, x)' = ValueNow(Q, x)
    OBVIOUS
  <2>1. x \in Int
    BY <1>1
  <2>2. PICK i \in 1..e : i = EntryNow(Q, x)
    BY <2>1, <1>1, <1>3, EntryNowIs
  <2>3. ValueNow(P, x)' = ValueOf(i)'
    BY <2>2 DEF ValueNow, ValueOf
  <2>4. ValueOf(i)' = ValueOf(i)
    BY <2>2 DEF GrownEntries
  <2> QED BY <2>2, <2>3, <2>4 DEF ValueNow
<1> SUFFICES ASSUME NEW c \in Taking, consumer[c] # "index"
             PROVE  ReaderSound(P, low, c)'
  BY <1>2 DEF ReadersSound
<1>8. ReaderSound(Q, low, c)
  BY <1>1 DEF ReadersSound
<1>9. PICK a \in Nat, b \in Nat, ee \in Nat, h \in Nat, t \in Nat :
             /\ a = local[c].next /\ b = local[c].stop /\ ee = End(c) /\ h = head /\ t = tail
             /\ a < ee /\ ee <= b /\ b <= h /\ h <= t
  BY <1>1, TakenBounds
<1>10. PICK hd \in 1..l : hd = local[c].header
  BY <1>3, <1>8 DEF ReaderSound
<1>11. PICK s, v : s = local[c].slot /\ v = local[c].block
  OBVIOUS
<1>12. PICK m \in Nat : m = NeedsFrom(c)
  BY <1>9 DEF NeedsFrom
<1>13. ASSUME NEW i \in m..(b - 1) PROVE EntryOf(P, hd, Ord(i))' = EntryNow(P, Ord(i))'
  <2>1. i \in Int /\ i \in Nat /\ NeedsFrom(c) <= i /\ i < local[c].stop
    BY <1>9, <1>12
  <2>2. PICK x \in Int : x = Ord(i)
    BY <2>1, OrdAt
  <2>3. EntryOf(Q, hd, x) = EntryNow(Q, x)
    BY <2>2, <1>8, <1>9, <1>10, <1>12 DEF ReaderSound
  <2>4. x \in low..Ord(tail - 1)
    BY <2>1, <2>2, NeedAhead
  <2>5. EntryOf(P, hd, x)' = EntryNow(P, x)'
    BY <2>3, <2>4, <1>6, <1>10
  <2> QED BY <2>2, <2>5
<1>14. consumer[c] = "key" => s \in 0..(Cap(hd)' - 1) /\ KeyOf(indexes[hd].index[s])' # -1
  <2> SUFFICES ASSUME consumer[c] = "key"
               PROVE  s \in 0..(Cap(hd)' - 1) /\ KeyOf(indexes[hd].index[s])' # -1
    OBVIOUS
  <2>1. s \in 0..(Cap(hd) - 1) /\ KeyOf(indexes[hd].index[s]) # -1
    BY <1>8, <1>10, <1>11 DEF ReaderSound
  <2>2. PICK f \in 1..e : f = indexes[hd].index[s]
    BY <2>1, <1>3, <1>10, IndexIs
  <2>3. indexes'[hd].index[s] = f
    BY <2>2, <1>3, <1>10
  <2>4. KeyOf(f)' # -1
    BY <2>1, <2>2 DEF GrownEntries
  <2>5. KeyOf(indexes[hd].index[s])' = KeyOf(f)'
    BY <2>3 DEF KeyOf
  <2> QED BY <2>1, <2>4, <2>5, <1>4, <1>10
<1>15. PICK x \in Int : x = Ord(a)
  <2>1. a \in Int
    OBVIOUS
  <2> QED BY <2>1, OrdAt
<1>16. consumer[c] \in {"count", "clear"} => ValueNow(P, x)' = v /\ v # 0
  <2> SUFFICES ASSUME consumer[c] \in {"count", "clear"}
               PROVE  ValueNow(P, x)' = v /\ v # 0
    OBVIOUS
  <2>1. ValueNow(Q, x) = v /\ v # 0
    BY <1>8, <1>9, <1>11, <1>15 DEF ReaderSound
  <2>2. NeedsFrom(c) <= a /\ a < local[c].stop
    BY <1>9 DEF NeedsFrom
  <2>3. x \in low..Ord(tail - 1)
    BY <2>2, <1>15, NeedAhead
  <2> QED BY <2>1, <2>3, <1>7
<1>17. consumer[c] = "clear" => low <= x /\ Over(x)'
  BY <1>2, <1>8, <1>9, <1>15 DEF ReaderSound
<1>18. consumer[c] \in {"copy", "count", "clear", "free", "advance"} => s = SlotOf(P, hd, x)'
  BY <1>5, <1>8, <1>9, <1>10, <1>11, <1>15 DEF ReaderSound
<1>19. hd \in 1..Len(indexes')
  <2>1. Len(indexes') = l + 1
    BY <1>3
  <2>2. hd \in 1..(l + 1)
    BY <1>10
  <2> QED BY <2>1, <2>2
<1>20. /\ local'[c].header = hd /\ local'[c].slot = s /\ local'[c].block = v /\ local'[c].next = a
       /\ local'[c].stop = b /\ NeedsFrom(c)' = m /\ consumer'[c] = consumer[c]
  BY <1>2, <1>9, <1>10, <1>11, <1>12
<1> QED BY <1>13, <1>14, <1>15, <1>16, <1>17, <1>18, <1>19, <1>20 DEF ReaderSound

LEMMA BlocksGrown ==
    ASSUME CountInv, OpSound, Still, NEW Q, NEW low, IndexSound(Q, low), BlocksSound(Q, low),
           UNCHANGED <<blocks, tail, tailBlock, op, producer>>, producer = "entry",
           NEW P, NEW p \in Int, p = TopNo, p = TopNo',
           \A x \in low..p : ValueNow(P, x)' = ValueNow(Q, x)
    PROVE  BlocksSound(P, low)'
<1>1. low \in Nat /\ low <= Ord(tail - 1) + 1
  BY DEF IndexSound, Window
<1>2. PICK t \in Int : t = Ord(tail - 1) /\ t <= p /\ p = t + Len(op.chain) /\ Len(op.chain) \in Nat
  BY NumbersAre
<1>3. t = Ord(tail - 1)' /\ low <= t + 1
  BY <1>1, <1>2
<1>4. \A x : (Over(x)' <=> Over(x)) /\ CountedOf(x)' = CountedOf(x)
  BY SteadyKeeps
<1>5. EmptyOver(P, low)'
  BY <1>4 DEF EmptyOver, BlocksSound
<1>6. DoneRight(P, low)'
  <2> SUFFICES ASSUME NEW x \in low..p, ValueNow(P, x)' # 0
               PROVE  blocks'[ValueNow(P, x)'].done = Cardinality(CountedOf(x)')
    BY DEF DoneRight
  <2>1. ValueNow(P, x)' = ValueNow(Q, x) /\ CountedOf(x)' = CountedOf(x)
    BY <1>4
  <2> QED BY <2>1 DEF DoneRight, BlocksSound
<1>7. CellsRight(P, low)'
  <2> SUFFICES ASSUME NEW x \in low..p, ValueNow(P, x)' # 0, NEW o \in Offsets, First(x) + o < tail
               PROVE  blocks'[ValueNow(P, x)'].cells[o] = First(x) + o + 1
    BY DEF CellsRight, First
  <2> QED BY DEF CellsRight, BlocksSound
<1>8. ChainRight(P)'
  <2> SUFFICES ASSUME NEW k \in 1..Len(op.chain)
               PROVE  ValueNow(P, t + k)' = op.chain[k] /\ op.chain[k] # 0
    BY <1>2, <1>3 DEF ChainRight
  <2>1. t + k \in low..p
    BY <1>1, <1>2, <1>3
  <2>2. ValueNow(P, t + k)' = ValueNow(Q, t + k)
    BY <2>1
  <2> QED BY <2>2, <1>2 DEF ChainRight, BlocksSound
<1>9. TailRight(P, low)'
  <2> SUFFICES ASSUME low <= t, ValueNow(P, t)' # 0
               PROVE  tailBlock' = ValueNow(P, t)'
    BY <1>2, <1>3 DEF TailRight
  <2>1. t \in low..p
    BY <1>1, <1>2
  <2>2. ValueNow(P, t)' = ValueNow(Q, t)
    BY <2>1
  <2> QED BY <2>2, <1>2 DEF TailRight, BlocksSound
<1> QED BY <1>5, <1>6, <1>7, <1>8, <1>9 DEF BlocksSound

LEMMA PoolGrown ==
    ASSUME PoolTypes, NEW Q \in [Nat -> Int], NEW P, NEW p \in Int, NEW n \in Nat, NEW l \in Nat, NEW e \in Nat,
           GrownHeaders(Q, P, p, n, l), GrownSlots(Q, p, n, l, e), GrownEntries(n, e),
           UNCHANGED <<blocks, free>>
    PROVE  PoolTypes'
<1>1. /\ Len(indexes) = l /\ l >= 1 /\ n >= 1 /\ Len(indexes') = l + 1 /\ indexes' \in Seq(IndexHeaders)
      /\ \A h \in 1..l : indexes'[h] = indexes[h]
      /\ indexes'[l + 1].capacity = 2 * n
      /\ Len(entries) = e /\ Len(entries') = e + n /\ entries' \in Seq(IndexEntries)
  BY DEF GrownHeaders, GrownEntries
<1>2. ASSUME NEW h \in 1..Len(indexes'), NEW s \in 0..(Cap(h)' - 1)
      PROVE  indexes'[h].index[s] \in 1..Len(entries')
  <2>1. CASE h \in 1..l
    <3>1. s \in 0..(Cap(h) - 1)
      <4>1. Cap(h)' = Cap(h)
        BY <2>1, <1>1 DEF Cap
      <4> QED BY <4>1
    <3>2. indexes[h].index[s] \in 1..e
      BY <2>1, <3>1, <1>1, IndexIs
    <3>3. indexes'[h].index[s] = indexes[h].index[s]
      BY <2>1, <1>1
    <3>5. \A v \in 1..e : v \in 1..(e + n)
      OBVIOUS
    <3>4. indexes[h].index[s] \in 1..(e + n)
      BY <3>2, <3>5
    <3>6. Len(entries') = e + n
      BY <1>1
    <3> QED BY <3>3, <3>4, <3>6
  <2>2. CASE h = l + 1
    <3>1. s \in 0..(2 * n - 1)
      BY <2>2, <1>1, <1>2 DEF Cap
    <3>2. CASE s \in 0..(n - 1)
      <4>1. PICK y \in Int : y = p + 1 - n + s
        BY <3>2
      <4>2. EntryNow(Q, y) \in 1..e
        BY <1>1, EntryNowIs
      <4>3. indexes'[l + 1].index[s] = EntryNow(Q, y)
        BY <3>2, <4>1 DEF GrownSlots
      <4>4. indexes'[l + 1].index[s] \in 1..(e + n)
        BY <4>2, <4>3
      <4> QED BY <4>4, <2>2, <1>1
    <3>3. CASE s \in n..(2 * n - 1)
      <4>1. indexes'[l + 1].index[s] = e + 1 + s - n
        BY <3>3 DEF GrownSlots
      <4>2. e + 1 + s - n \in 1..(e + n)
        BY <3>3
      <4> QED BY <4>1, <4>2, <2>2, <1>1
    <3> QED BY <3>1, <3>2, <3>3
  <2> QED BY <2>1, <2>2, <1>1, <1>2
<1>3. blocks' \in Seq(PoolBlocks) /\ free' \subseteq 1..Len(blocks')
  BY DEF PoolTypes
<1>4. indexes' # <<>>
  BY <1>1, EmptySeq
<1> QED BY <1>1, <1>2, <1>3, <1>4 DEF PoolTypes

LEMMA OwnedGrown ==
    ASSUME PoolTypes, BlocksOwned, Still, UNCHANGED <<blocks, free>>, NEW n \in Nat, NEW e \in Nat, GrownEntries(n, e)
    PROVE  BlocksOwned'
<1>1. /\ Len(entries) = e /\ Len(entries') = e + n
      /\ \A i \in 1..e : ValueOf(i)' = ValueOf(i)
      /\ \A i \in 1..(e + n) : i \in 1..e \/ ValueOf(i)' = 0
      /\ \A i \in 1..e : i \in 1..(e + n)
  BY DEF GrownEntries
<1>2. Holding' = Holding /\ local' = local
  BY SteadyKeeps
<1>3. 0 \notin free /\ Len(blocks) \in Nat
  BY LastIs DEF PoolTypes
<1>4. \A i \in 1..Len(entries') : ValueOf(i)' \in 0..Len(blocks') /\ ValueOf(i)' \notin free'
  BY <1>1, <1>3 DEF BlocksOwned
<1>5. \A i, j \in 1..Len(entries') : ValueOf(i)' = ValueOf(j)' /\ ValueOf(i)' # 0 => i = j
  BY <1>1 DEF BlocksOwned
<1>6. \A c \in Holding' : /\ local'[c].block \in 1..Len(blocks') /\ local'[c].block \notin free'
                          /\ \A i \in 1..Len(entries') : ValueOf(i)' # local'[c].block
  BY <1>1, <1>2 DEF BlocksOwned
<1>7. \A c, d \in Holding' : local'[c].block = local'[d].block => c = d
  BY <1>2 DEF BlocksOwned
<1>8. \A b \in 1..Len(blocks') : \/ b \in free'
                                 \/ \E i \in 1..Len(entries') : ValueOf(i)' = b
                                 \/ \E c \in Holding' : local'[c].block = b
  BY <1>1, <1>2 DEF BlocksOwned
<1> QED BY <1>4, <1>5, <1>6, <1>7, <1>8 DEF BlocksOwned

\* The index is doubled: all numbers that are not over keep their entries.
LEMMA GrowingKept ==
    ASSUME Claims, PoolTypes, OpSound, BlocksOwned, NEW Q, NEW low, Numbered(Q, low), Implicit!Grow
    PROVE  ImplicitInv' /\ UNCHANGED <<head, taken, tail>>
<1>1. /\ CountInv /\ IndexSound(Q, low) /\ BlocksSound(Q, low) /\ Q \in [Nat -> Int] /\ low \in Nat
      /\ Window(low)
  BY DEF Claims, Numbered, IndexSound
<1>2. /\ producer = "entry"
      /\ UNCHANGED <<tail, head, optimistic, overcommit, consumer, local, taken, blocks, free, tailBlock, producer, op>>
  BY SharedBase DEF Implicit!Grow, Implicit!counters, Implicit!pool, Implicit!reading, Implicit!enqueuing
<1>3. PICK P \in [Nat -> Int], p \in Int, n \in Nat, l \in Nat, e \in Nat :
             /\ low = p + 1 - n /\ p = TopNo
             /\ GrownHeaders(Q, P, p, n, l) /\ GrownSlots(Q, p, n, l, e) /\ GrownEntries(n, e)
  BY GrowthIs
<1>4. Still /\ Steady
  BY <1>2 DEF Still, Steady
<1>5. TopNo' = p /\ TopNo = p
  BY <1>2, <1>3 DEF TopNo
<1>6. SameNumbers(low, p, n)
  <2>1. low = p + 1 - n
    BY <1>3
  <2>2. KeyedNo = p /\ ShownNo = p /\ KeyedNo' = p /\ ShownNo' = p
    BY <1>2, <1>5 DEF KeyedNo, ShownNo
  <2>3. Ord(tail - 1)' = Ord(tail - 1)
    BY <1>2
  <2> QED BY <2>1, <2>2, <2>3, <1>5 DEF SameNumbers
<1>7. \A x \in low..p : EntryNow(P, x)' = EntryNow(Q, x) /\ EntryNow(Q, x) \in 1..e
  <2>1. low + n = p + 1 /\ low \in Int
    BY <1>1, <1>3
  <2>2. GrownAt(Q, P, p, n, l, low)
    BY <2>1, <1>1, <1>3, GrownNow
  <2>3. \A x \in low..p : EntryNow(P, x)' = EntryNow(Q, x)
    BY <2>2 DEF GrownAt
  <2>4. \A x \in Int : EntryNow(Q, x) \in 1..Len(entries)
    BY <1>1, EntryNowIs
  <2>5. Len(entries) = e
    BY <1>3 DEF GrownEntries
  <2>6. \A x \in low..p : x \in Int
    BY <1>1
  <2> QED BY <2>3, <2>4, <2>5, <2>6
<1>8. \A x \in low..p : ValueNow(P, x)' = ValueNow(Q, x)
  <2> SUFFICES ASSUME NEW x \in low..p PROVE ValueNow(P, x)' = ValueNow(Q, x)
    OBVIOUS
  <2>1. PICK i \in 1..e : i = EntryNow(Q, x) /\ i = EntryNow(P, x)'
    BY <1>7
  <2>2. ValueNow(P, x)' = ValueOf(i)'
    BY <2>1 DEF ValueNow, ValueOf
  <2>3. ValueOf(i)' = ValueOf(i)
    BY <1>3 DEF GrownEntries
  <2> QED BY <2>1, <2>2, <2>3 DEF ValueNow
<1>9. IndexSound(P, low)'
  BY <1>1, <1>3, <1>4, <1>6, GrownSound
<1>10. BlocksSound(P, low)'
  BY <1>1, <1>2, <1>4, <1>5, <1>8, BlocksGrown
<1>11. ReadersSound(P, low)'
  <2>1. PICK t \in Int : t = Ord(tail - 1) /\ t <= p
    BY <1>1, <1>5, NumbersAre
  <2>2. \A x \in low..t : x \in low..p
    BY <2>1, <1>1
  <2>3. \A x \in low..Ord(tail - 1) : EntryNow(P, x)' = EntryNow(Q, x)
    BY <2>1, <2>2, <1>7
  <2> QED BY <2>3, <1>3, <1>4, ReadersGrown
<1>12. PoolTypes'
  BY <1>1, <1>2, <1>3, PoolGrown
<1>13. BlocksOwned'
  BY <1>2, <1>3, <1>4, OwnedGrown
<1>14. Claims'
  <2>1. tail' \in Nat /\ tail <= tail'
    BY <1>1, <1>2, NumbersAre
  <2> QED BY <2>1, <1>4, ClaimsSteady
<1>15. OpSound'
  <2>1. (Ord(tail + op.n - 1))' = Ord(tail + op.n - 1)
    BY <1>2
  <2> QED BY <2>1, <1>2, <1>5 DEF OpSound
<1> QED BY <1>2, <1>9, <1>10, <1>11, <1>12, <1>13, <1>14, <1>15 DEF ImplicitInv, Numbered

\* An operation that fails takes its blocks from their entries.
InChain(v) == \E k \in 1..Len(op.chain) : op.chain[k] = v
Emptied == [e \in 1..Len(entries) |->
              IF InChain(ValueOf(e)) THEN LET r == entries[e] IN [r EXCEPT !.value = 0] ELSE entries[e]]

LEMMA EmptiedIs ==
    ASSUME PoolTypes, entries' = Emptied
    PROVE  /\ entries' \in Seq(IndexEntries) /\ Len(entries') = Len(entries)
           /\ \A e \in 1..Len(entries) : KeyOf(e)' = KeyOf(e)
           /\ \A e \in 1..Len(entries) : ValueOf(e)' = IF InChain(ValueOf(e)) THEN 0 ELSE ValueOf(e)
<1>1. PICK n \in Nat : n = Len(entries)
  BY LastIs
<1>2. \A e \in 1..n : entries[e] \in IndexEntries
  BY <1>1, LastIs
<1>3. ASSUME NEW e \in 1..n
      PROVE  /\ entries'[e] \in IndexEntries /\ entries'[e].key = entries[e].key
             /\ entries'[e].value = IF InChain(ValueOf(e)) THEN 0 ELSE entries[e].value
  <2>1. PICK r \in IndexEntries : r = entries[e]
    BY <1>2
  <2>2. PICK w : w = [r EXCEPT !.value = 0]
    OBVIOUS
  <2>3. w \in IndexEntries /\ w.key = r.key /\ w.value = 0
    BY <2>2 DEF IndexEntries
  <2>4. entries'[e] = IF InChain(ValueOf(e)) THEN w ELSE r
    BY <2>1, <2>2, <1>1 DEF Emptied
  <2> QED BY <2>1, <2>3, <2>4
<1>4. entries' \in [1..n -> IndexEntries]
  <2>1. DOMAIN entries' = 1..n /\ entries' = [e \in 1..n |-> entries'[e]]
    BY <1>1 DEF Emptied
  <2> QED BY <2>1, <1>3
<1>5. entries' \in Seq(IndexEntries) /\ Len(entries') = n
  BY <1>4
<1>6. \A e \in 1..n : /\ KeyOf(e)' = KeyOf(e)
                      /\ ValueOf(e)' = IF InChain(ValueOf(e)) THEN 0 ELSE ValueOf(e)
  BY <1>3 DEF KeyOf, ValueOf
<1> QED BY <1>1, <1>5, <1>6

\* The blocks it had go back to the free list.
LEMMA EmptiedOwned ==
    ASSUME PoolTypes, BlocksOwned, Still, UNCHANGED blocks, Len(entries') = Len(entries),
           \A e \in 1..Len(entries) : ValueOf(e)' = IF InChain(ValueOf(e)) THEN 0 ELSE ValueOf(e),
           \A k \in 1..Len(op.chain) : \E e \in 1..Len(entries) : ValueOf(e) = op.chain[k] /\ op.chain[k] # 0,
           free' = free \cup { op.chain[k] : k \in 1..Len(op.chain) }
    PROVE  BlocksOwned' /\ free' \subseteq 1..Len(blocks')
<1>1. Holding' = Holding /\ local' = local
  BY SteadyKeeps
<1>2. \A v : v \in free' <=> v \in free \/ InChain(v)
  BY DEF InChain
<1>3. \A v : InChain(v) => v # 0 /\ v \in 1..Len(blocks) /\ v \notin free /\ \E e \in 1..Len(entries) : ValueOf(e) = v
  <2> SUFFICES ASSUME NEW v, InChain(v)
               PROVE  v # 0 /\ v \in 1..Len(blocks) /\ v \notin free /\ \E e \in 1..Len(entries) : ValueOf(e) = v
    OBVIOUS
  <2>1. PICK e \in 1..Len(entries) : ValueOf(e) = v /\ v # 0
    BY DEF InChain
  <2>2. v \in 0..Len(blocks) /\ v \notin free
    BY <2>1 DEF BlocksOwned
  <2> QED BY <2>1, <2>2, LastIs
<1>4. free \subseteq 1..Len(blocks) /\ Len(blocks) \in Nat /\ 0 \notin free
  BY LastIs DEF PoolTypes
<1>5. \A e \in 1..Len(entries') : ValueOf(e)' \in 0..Len(blocks') /\ ValueOf(e)' \notin free'
  <2> SUFFICES ASSUME NEW e \in 1..Len(entries)
               PROVE  ValueOf(e)' \in 0..Len(blocks) /\ ValueOf(e)' \notin free'
    OBVIOUS
  <2>1. ValueOf(e) \in 0..Len(blocks) /\ ValueOf(e) \notin free
    BY DEF BlocksOwned
  <2>2. CASE InChain(ValueOf(e))
    <3>1. ValueOf(e)' = 0
      BY <2>2
    <3> QED BY <3>1, <1>2, <1>3, <1>4
  <2>3. CASE ~ InChain(ValueOf(e))
    <3>1. ValueOf(e)' = ValueOf(e)
      BY <2>3
    <3> QED BY <2>1, <2>3, <3>1, <1>2
  <2> QED BY <2>2, <2>3
<1>6. \A e, f \in 1..Len(entries') : ValueOf(e)' = ValueOf(f)' /\ ValueOf(e)' # 0 => e = f
  <2> SUFFICES ASSUME NEW e \in 1..Len(entries), NEW f \in 1..Len(entries), ValueOf(e)' = ValueOf(f)', ValueOf(e)' # 0
               PROVE  e = f
    OBVIOUS
  <2>1. ValueOf(e)' = ValueOf(e) /\ ValueOf(f)' = ValueOf(f)
    OBVIOUS
  <2> QED BY <2>1 DEF BlocksOwned
<1>7. \A c \in Holding' : /\ local'[c].block \in 1..Len(blocks') /\ local'[c].block \notin free'
                          /\ \A e \in 1..Len(entries') : ValueOf(e)' # local'[c].block
  <2> SUFFICES ASSUME NEW c \in Holding
               PROVE  /\ local[c].block \in 1..Len(blocks) /\ local[c].block \notin free'
                      /\ \A e \in 1..Len(entries) : ValueOf(e)' # local[c].block
    BY <1>1
  <2>1. PICK v : v = local[c].block
    OBVIOUS
  <2>2. v \in 1..Len(blocks) /\ v \notin free /\ \A e \in 1..Len(entries) : ValueOf(e) # v
    BY <2>1 DEF BlocksOwned
  <2>3. v \notin free'
    BY <2>2, <1>2, <1>3
  <2>4. \A e \in 1..Len(entries) : ValueOf(e)' = 0 \/ ValueOf(e)' = ValueOf(e)
    OBVIOUS
  <2> QED BY <2>1, <2>2, <2>3, <2>4
<1>8. \A c, d \in Holding' : local'[c].block = local'[d].block => c = d
  BY <1>1 DEF BlocksOwned
<1>9. \A b \in 1..Len(blocks') : \/ b \in free'
                                 \/ \E e \in 1..Len(entries') : ValueOf(e)' = b
                                 \/ \E c \in Holding' : local'[c].block = b
  BY <1>1, <1>2 DEF BlocksOwned
<1>10. free' \subseteq 1..Len(blocks')
  BY <1>2, <1>3, <1>4
<1> QED BY <1>5, <1>6, <1>7, <1>8, <1>9, <1>10 DEF BlocksOwned

\* The tail of the index goes back to where the operation found it.
LEMMA RewoundIs ==
    ASSUME CountInv, PoolTypes, OpSound, NEW Q \in [Nat -> Int], TailsRight(Q), producer \in {"entry", "block"}
    PROVE  \E s \in 0..(Cap(Len(indexes)) - 1) : Implicit!Rewound = TailAs(s) /\ s = SlotOf(Q, Len(indexes), Ord(tail - 1))
<1>1. PICK m \in 1..Len(indexes), n \in Nat : m = Len(indexes) /\ n = Cap(m) /\ n >= 1
  BY LastIs, IndexIs
<1>2. PICK t \in Int, k \in Nat : t = Ord(tail - 1) /\ k = Len(op.chain)
  BY NumbersAre
<1>3. PICK d \in Nat : d = k + (IF producer = "block" THEN 1 ELSE 0)
  OBVIOUS
<1>17. Implicit!Inserted = d
  BY <1>2, <1>3 DEF Implicit!Inserted
<1>18. TopNo = t + k
  BY <1>2 DEF TopNo
<1>4. ShownNo = t + d
  <2>1. CASE producer = "block"
    <3>1. ShownNo = t + k + 1 /\ d = k + 1
      BY <2>1, <1>3, <1>18 DEF ShownNo
    <3> QED BY <3>1
  <2>2. CASE producer # "block"
    BY <2>2, <1>3, <1>18 DEF ShownNo
  <2> QED BY <2>1, <2>2
<1>5. PICK q \in Int : q = Q[m]
  <2>1. m \in Nat
    OBVIOUS
  <2> QED BY <2>1
<1>6. indexes[m].tail = ((t + d) + q) % n
  BY <1>1, <1>4, <1>5 DEF TailsRight, SlotOf
<1>7. PICK a \in Int : a = (t + d) + q
  OBVIOUS
<1>8. PICK u \in Int : u = -d
  BY <1>3
<1>9. ((a % n) + u) % n = (a + u) % n
  BY <1>1, SlotAdd
<1>10. a + u = t + q
  <2>1. d \in Int
    BY <1>3
  <2> QED BY <2>1, <1>7, <1>8
<1>11. PICK r \in Int : r = a % n
  BY <1>1
<1>12. r - d = r + u
  <2>1. d \in Int
    BY <1>3
  <2> QED BY <2>1, <1>8
<1>13. (indexes[m].tail - d) % n = (t + q) % n
  BY <1>6, <1>7, <1>9, <1>10, <1>11, <1>12
<1>14. SlotOf(Q, m, t) = (t + q) % n
  BY <1>1, <1>5 DEF SlotOf
<1>15. SlotOf(Q, m, t) \in 0..(Cap(m) - 1)
  BY EntryIs
<1>16. Implicit!Rewound = TailAs((indexes[m].tail - d) % n)
  BY <1>1, <1>17 DEF Implicit!Rewound, Implicit!Current, TailAs, Cap
<1> QED BY <1>1, <1>2, <1>13, <1>14, <1>15, <1>16

\* Which numbers the blocks of the chain belong to: none up to the tail's.
LEMMA ChainNumbers ==
    ASSUME CountInv, PoolTypes, OpSound, BlocksOwned, NEW Q, NEW low, Numbered(Q, low)
    PROVE  /\ \A x \in low..Ord(tail - 1) : ~ InChain(ValueNow(Q, x))
           /\ \A x \in low..KeyedNo : Ord(tail - 1) < x => ValueNow(Q, x) = 0 \/ InChain(ValueNow(Q, x))
           /\ \A k \in 1..Len(op.chain) : \E e \in 1..Len(entries) : ValueOf(e) = op.chain[k] /\ op.chain[k] # 0
<1>1. /\ Q \in [Nat -> Int] /\ low \in Nat /\ SlotsRight(Q) /\ Window(low) /\ ChainRight(Q)
  BY DEF Numbered, IndexSound, BlocksSound
<1>2. PICK t \in Int, k \in Nat, p \in Int, q \in Int :
        t = Ord(tail - 1) /\ k = Len(op.chain) /\ p = TopNo /\ q = KeyedNo /\ p = t + k /\ p <= q /\ q <= p + 1
  BY NumbersAre
<1>3. PICK m \in 1..Len(indexes), n \in Nat : m = Len(indexes) /\ n = Cap(m) /\ n >= 1
  BY LastIs, IndexIs
<1>4. low <= t + 1 /\ q - low < n
  BY <1>1, <1>2, <1>3 DEF Window
<1>5. /\ low \in Nat /\ p \in Int /\ t \in Int /\ k \in Nat /\ n \in Nat /\ n >= 1 /\ q \in Int
      /\ p = t + k /\ low <= t + 1 /\ q - low < n /\ p <= q /\ q <= p + 1
  BY <1>1, <1>2, <1>3, <1>4
<1>6. ASSUME NEW i \in 1..k
      PROVE  ValueNow(Q, t + i) = op.chain[i] /\ op.chain[i] # 0 /\ t + i \in Int
  BY <1>1, <1>2 DEF ChainRight
<1>7. ASSUME NEW x \in low..t PROVE ~ InChain(ValueNow(Q, x))
  <2> SUFFICES ASSUME NEW i \in 1..k, op.chain[i] = ValueNow(Q, x) PROVE FALSE
    BY <1>2 DEF InChain
  <2>1. PICK y \in Int : y = t + i
    BY <1>5
  <2>2. x \in Int /\ y \in Int /\ x < y /\ y < x + n
    <3>1. x \in Int /\ low <= x /\ x <= t
      BY <1>5
    <3>2. i \in Int /\ 1 <= i /\ i <= k
      OBVIOUS
    <3> QED BY <2>1, <3>1, <3>2, <1>5
  <2>3. EntryNow(Q, x) # EntryNow(Q, y)
    BY <2>2, <1>1, <1>3, EntriesApart
  <2>4. ValueNow(Q, x) = ValueNow(Q, y) /\ ValueNow(Q, x) # 0
    BY <2>1, <1>6
  <2>5. EntryNow(Q, x) \in 1..Len(entries) /\ EntryNow(Q, y) \in 1..Len(entries)
    BY <2>2, <1>1, EntryNowIs
  <2> QED BY <2>3, <2>4, <2>5 DEF BlocksOwned, ValueNow
<1>8. ASSUME NEW x \in low..q, t < x PROVE ValueNow(Q, x) = 0 \/ InChain(ValueNow(Q, x))
  <2>1. x \in Int /\ x <= q
    BY <1>5
  <2>2. CASE x <= p
    <3>1. PICK i \in Int : i = x - t
      BY <2>1
    <3>2. i \in 1..k /\ x = t + i
      BY <3>1, <2>1, <2>2, <1>5, <1>8
    <3>3. ValueNow(Q, x) = op.chain[i]
      BY <3>2, <1>6
    <3> QED BY <3>2, <3>3, <1>2 DEF InChain
  <2>3. CASE ~ x <= p
    <3>1. x = q /\ q = p + 1
      BY <2>1, <2>3, <1>5
    <3>2. producer \in {"tail", "block"}
      BY <3>1, <1>2 DEF KeyedNo
    <3>3. ValueNow(Q, q) = 0
      BY <3>2, <1>1, <1>2 DEF ChainRight
    <3> QED BY <3>1, <3>3
  <2> QED BY <2>2, <2>3
<1>9. ASSUME NEW i \in 1..k
      PROVE  \E e \in 1..Len(entries) : ValueOf(e) = op.chain[i] /\ op.chain[i] # 0
  <2>1. ValueNow(Q, t + i) = op.chain[i] /\ op.chain[i] # 0 /\ t + i \in Int
    BY <1>6
  <2>2. EntryNow(Q, t + i) \in 1..Len(entries)
    BY <2>1, <1>1, EntryNowIs
  <2> QED BY <2>1, <2>2 DEF ValueNow
<1> QED BY <1>2, <1>7, <1>8, <1>9

\* No memory: the operation's blocks, and the tail, go back where they were.
LEMMA FailureKept ==
    ASSUME Claims, PoolTypes, OpSound, BlocksOwned, NEW Q, NEW low, Numbered(Q, low), Implicit!AllocationFails
    PROVE  ImplicitInv' /\ UNCHANGED <<head, taken, tail>>
<1>1. /\ CountInv /\ ClaimsApart /\ IndexSound(Q, low) /\ Q \in [Nat -> Int] /\ low \in Nat
      /\ TailsRight(Q) /\ OverBelow(low) /\ Window(low)
      /\ EmptyOver(Q, low) /\ DoneRight(Q, low) /\ CellsRight(Q, low) /\ TailRight(Q, low)
  BY DEF Claims, Numbered, IndexSound, BlocksSound
<1>2. PICK k \in Nat : k = Len(op.chain)
  BY <1>1, NumbersAre
<1>3. /\ producer \in {"entry", "block"} /\ producer' = "idle" /\ op' = Implicit!NoOp
      /\ indexes' = Implicit!Rewound /\ entries' = Emptied
      /\ free' = free \cup { op.chain[i] : i \in 1..Len(op.chain) }
      /\ UNCHANGED <<tail, head, optimistic, overcommit, consumer, local, taken, blocks, tailBlock>>
  <2>1. DOMAIN op.chain = 1..Len(op.chain) /\ DOMAIN entries = 1..Len(entries)
    <3>1. op.chain \in Seq(Nat) /\ entries \in Seq(IndexEntries)
      BY <1>1, NumbersAre DEF PoolTypes
    <3> QED BY <3>1
  <2>2. entries' = Emptied
    <3>1. entries' = [e \in DOMAIN entries |->
                     IF \E i \in DOMAIN op.chain : op.chain[i] = entries[e].value
                       THEN [entries[e] EXCEPT !.value = 0] ELSE entries[e]]
      BY DEF Implicit!AllocationFails, Implicit!NoBlock
    <3> QED BY <3>1, <2>1 DEF Emptied, InChain, ValueOf
  <2> QED BY <2>1, <2>2, SharedBase DEF Implicit!AllocationFails, Implicit!counters, Implicit!reading
<1>4. PICK s \in 0..(Cap(Len(indexes)) - 1) : Implicit!Rewound = TailAs(s) /\ s = SlotOf(Q, Len(indexes), Ord(tail - 1))
  BY <1>1, <1>3, RewoundIs
<1>5. /\ SameSlots /\ indexes' \in Seq(IndexHeaders) /\ indexes'[Len(indexes)].tail = s
      /\ \A h \in 1..(Len(indexes) - 1) : indexes'[h].tail = indexes[h].tail
  BY <1>3, <1>4, TailSet
<1>6. Still /\ Steady /\ tail' = tail
  BY <1>3 DEF Still, Steady
<1>7. /\ entries' \in Seq(IndexEntries) /\ Len(entries') = Len(entries)
      /\ \A e \in 1..Len(entries) : KeyOf(e)' = KeyOf(e)
      /\ \A e \in 1..Len(entries) : ValueOf(e)' = IF InChain(ValueOf(e)) THEN 0 ELSE ValueOf(e)
  BY <1>3, EmptiedIs
<1>8. PICK t \in Int, p \in Int : t = Ord(tail - 1) /\ p = TopNo /\ t <= KeyedNo /\ KeyedNo \in Int /\ t <= p /\ p <= KeyedNo
  <2>1. Ord(tail - 1) <= KeyedNo
    BY <1>1, NumbersAre
  <2> QED BY <2>1, <1>1, NumbersAre
<1>9. TopNo' = t /\ KeyedNo' = t /\ ShownNo' = t /\ t = Ord(tail - 1)' /\ low <= t + 1 /\ Len(op'.chain) = 0
  <2>1. op'.chain = <<>> /\ Len(op'.chain) = 0
    BY <1>3, EmptySeq DEF Implicit!NoOp
  <2>2. t = Ord(tail - 1)'
    BY <1>6, <1>8
  <2>3. TopNo' = t
    BY <2>1, <2>2 DEF TopNo
  <2>4. KeyedNo' = t /\ ShownNo' = t
    BY <2>3, <1>3 DEF KeyedNo, ShownNo
  <2>5. low <= t + 1
    BY <1>1, <1>8 DEF Window
  <2> QED BY <2>1, <2>2, <2>3, <2>4, <2>5
<1>10. /\ \A x \in low..t : ~ InChain(ValueNow(Q, x))
       /\ \A x \in low..KeyedNo : t < x => ValueNow(Q, x) = 0 \/ InChain(ValueNow(Q, x))
       /\ \A i \in 1..Len(op.chain) : \E e \in 1..Len(entries) : ValueOf(e) = op.chain[i] /\ op.chain[i] # 0
  BY <1>1, <1>8, ChainNumbers
<1>11. ASSUME NEW x \in Int
       PROVE  ValueNow(Q, x)' = IF InChain(ValueNow(Q, x)) THEN 0 ELSE ValueNow(Q, x)
  <2>1. PICK e \in 1..Len(entries) : e = EntryNow(Q, x) /\ ValueNow(Q, x)' = ValueOf(e)'
    BY <1>1, <1>5, EntryNowIs, NowKept
  <2> QED BY <2>1, <1>7 DEF ValueNow
<1>12. \A x \in low..t : x \in Int /\ ValueNow(Q, x)' = ValueNow(Q, x)
  <2> SUFFICES ASSUME NEW x \in low..t PROVE x \in Int /\ ValueNow(Q, x)' = ValueNow(Q, x)
    OBVIOUS
  <2>1. x \in Int
    BY <1>1
  <2> QED BY <2>1, <1>10, <1>11
<1>13. IndexAlike(Q, low)
  <2>1. OverBelow(low)'
    BY <1>1, <1>6, SteadyKeeps DEF OverBelow
  <2>2. \A e \in 1..Len(entries) : ValueOf(e)' # 0 => ValueOf(e) # 0
    BY <1>7
  <2>3. \E j \in Int : /\ j = KeyedNo' /\ j <= KeyedNo
                       /\ \A x \in low..KeyedNo : j < x => ValueNow(Q, x)' = 0
    <3>1. ASSUME NEW x \in low..KeyedNo, t < x PROVE ValueNow(Q, x)' = 0
      <4>1. x \in Int
        BY <1>1, <1>8
      <4> QED BY <4>1, <3>1, <1>10, <1>11
    <3> QED BY <3>1, <1>8, <1>9
  <2>4. \E j \in Int : j = Ord(tail - 1)' /\ low <= j + 1
    BY <1>9
  <2>5. \E j \in Int : j = ShownNo' /\ indexes'[Len(indexes)].tail = SlotOf(Q, Len(indexes), j)
    BY <1>4, <1>5, <1>8, <1>9
  <2> QED BY <2>1, <2>2, <2>3, <2>4, <2>5, <1>5, <1>7 DEF IndexAlike
<1>14. IndexSound(Q, low)'
  BY <1>1, <1>5, <1>13, HeadersKept
<1>15. BlocksSound(Q, low)'
  <2>1. \A x : (Over(x)' <=> Over(x)) /\ CountedOf(x)' = CountedOf(x)
    BY <1>6, SteadyKeeps
  <2>2. \A x \in low..t : x \in low..p
    BY <1>1, <1>8
  <2>3. EmptyOver(Q, low)'
    BY <2>1, <2>2, <1>1, <1>8, <1>9, <1>12 DEF EmptyOver
  <2>4. DoneRight(Q, low)'
    <3> SUFFICES ASSUME NEW x \in low..t, ValueNow(Q, x)' # 0
                 PROVE  blocks'[ValueNow(Q, x)'].done = Cardinality(CountedOf(x)')
      BY <1>9 DEF DoneRight
    <3>1. ValueNow(Q, x)' = ValueNow(Q, x) /\ CountedOf(x)' = CountedOf(x) /\ x \in low..p
      BY <2>1, <2>2, <1>12
    <3> QED BY <3>1, <1>1, <1>3, <1>8 DEF DoneRight
  <2>5. CellsRight(Q, low)'
    <3> SUFFICES ASSUME NEW x \in low..t, ValueNow(Q, x)' # 0, NEW o \in Offsets, First(x) + o < tail
                 PROVE  blocks'[ValueNow(Q, x)'].cells[o] = First(x) + o + 1
      BY <1>6, <1>9 DEF CellsRight, First
    <3>1. ValueNow(Q, x)' = ValueNow(Q, x) /\ x \in low..p
      BY <2>2, <1>12
    <3> QED BY <3>1, <1>1, <1>3, <1>8 DEF CellsRight
  <2>6. ChainRight(Q)'
    <3>1. 1..Len(op'.chain) = {} /\ producer' = "idle"
      BY <1>3, <1>9
    <3> QED BY <3>1 DEF ChainRight
  <2>7. TailRight(Q, low)'
    <3> SUFFICES ASSUME low <= t, ValueNow(Q, t)' # 0
                 PROVE  tailBlock' = ValueNow(Q, t)'
      BY <1>8, <1>9 DEF TailRight
    <3>1. t \in low..t
      BY <1>1, <1>8
    <3>2. ValueNow(Q, t)' = ValueNow(Q, t)
      BY <3>1, <1>12
    <3> QED BY <3>2, <1>1, <1>3, <1>8 DEF TailRight
  <2> QED BY <2>3, <2>4, <2>5, <2>6, <2>7 DEF BlocksSound
<1>16. ReadersSound(Q, low)'
  <2>1. ASSUME NEW x \in low..t, ValueNow(Q, x) # 0
        PROVE  ValueNow(Q, x)' = ValueNow(Q, x) /\ low <= x
    BY <1>1, <1>12
  <2>2. \A e \in 1..Len(entries) : KeyOf(e) # -1 => KeyOf(e)' # -1
    BY <1>7
  <2> QED BY <2>1, <2>2, <1>1, <1>5, <1>6, <1>8, ReadersKept
<1>17. BlocksOwned' /\ free' \subseteq 1..Len(blocks')
  BY <1>3, <1>6, <1>7, <1>10, EmptiedOwned
<1>18. PoolTypes'
  BY <1>3, <1>5, <1>7, <1>17, TypesKept DEF PoolTypes
<1>19. Claims'
  <2>1. tail' \in Nat /\ tail <= tail'
    BY <1>1, <1>6, NumbersAre
  <2> QED BY <2>1, <1>6, ClaimsSteady
<1>20. OpSound'
  <2>1. Implicit!NoOp \in Operations
    BY EmptySeq DEF Implicit!NoOp, Operations
  <2> QED BY <2>1, <1>3 DEF OpSound
<1> QED BY <1>3, <1>14, <1>15, <1>16, <1>17, <1>18, <1>19, <1>20 DEF ImplicitInv, Numbered

\* What Filled makes of the blocks.
LEMMA FilledPool ==
    ASSUME NEW bl \in Seq(PoolBlocks), NEW place, NEW first \in Int, NEW last \in Int,
           NEW new, new = Filled(bl, place, first, last)
    PROVE  /\ new \in Seq(PoolBlocks) /\ Len(new) = Len(bl)
           /\ \A b \in 1..Len(bl) :
                /\ new[b].done = bl[b].done
                /\ \A o \in Offsets :
                     /\ (\A i \in first..last : ~ (place[i] = b /\ i % BlockSize = o)) =>
                          new[b].cells[o] = bl[b].cells[o]
                     /\ \A j \in first..last :
                          /\ place[j] = b /\ j % BlockSize = o
                          /\ \A i \in first..last : place[i] = b /\ i % BlockSize = o => i = j
                          => new[b].cells[o] = 1 + j
<1>1. PICK n \in Nat : n = Len(bl) /\ DOMAIN bl = 1..n /\ bl \in [1..n -> PoolBlocks]
  BY LenProperties
<1> DEFINE Here(b, o) == { i \in first..last : place[i] = b /\ i % BlockSize = o }
           Cell(b, o) == IF Here(b, o) = {} THEN bl[b].cells[o] ELSE 1 + CHOOSE i \in Here(b, o) : TRUE
<1>2. DOMAIN new = 1..n /\ \A b \in 1..n : new[b] = [bl[b] EXCEPT !.cells = [o \in Offsets |-> Cell(b, o)]]
  BY <1>1 DEF Filled
<1>3. ASSUME NEW b \in 1..n
      PROVE  /\ new[b] \in PoolBlocks /\ new[b].done = bl[b].done
             /\ new[b].cells = [o \in Offsets |-> Cell(b, o)]
  <2>1. PICK r \in PoolBlocks : r = bl[b]
    BY <1>1
  <2>2. r.cells \in [Offsets -> Int]
    BY <2>1 DEF PoolBlocks
  <2>3. \A o \in Offsets : Cell(b, o) \in Int
    <3> TAKE o \in Offsets
    <3>1. CASE Here(b, o) = {}
      BY <3>1, <2>1, <2>2
    <3>2. CASE Here(b, o) # {}
      <4>1. (CHOOSE i \in Here(b, o) : TRUE) \in Here(b, o)
        BY <3>2
      <4>2. PICK w \in Int : w = CHOOSE i \in Here(b, o) : TRUE
        BY <4>1
      <4> HIDE DEF Here
      <4>3. Cell(b, o) = 1 + w
        BY <4>2, <3>2
      <4> QED BY <4>2, <4>3
    <3> QED BY <3>1, <3>2
  <2> HIDE DEF Cell
  <2>4. PICK s \in [Offsets -> Int] : s = [o \in Offsets |-> Cell(b, o)]
    BY <2>3
  <2>5. PICK w : w = [r EXCEPT !.cells = s]
    OBVIOUS
  <2>6. w \in PoolBlocks /\ w.done = r.done /\ w.cells = s
    BY <2>5 DEF PoolBlocks
  <2>7. new[b] = w
    BY <1>2, <2>1, <2>4, <2>5
  <2> QED BY <2>1, <2>4, <2>6, <2>7
<1>4. new = [b \in 1..n |-> new[b]]
  BY <1>1 DEF Filled
<1>5. new \in Seq(PoolBlocks) /\ Len(new) = n
  <2> HIDE DEF Cell
  <2>1. \A b \in 1..n : new[b] \in PoolBlocks
    BY <1>3
  <2>2. new \in [1..n -> PoolBlocks]
    BY <1>4, <2>1
  <2> QED BY <2>2
<1>6. ASSUME NEW b \in 1..n, NEW o \in Offsets
      PROVE  /\ (\A i \in first..last : ~ (place[i] = b /\ i % BlockSize = o)) =>
                          new[b].cells[o] = bl[b].cells[o]
             /\ \A j \in first..last :
                          /\ place[j] = b /\ j % BlockSize = o
                          /\ \A i \in first..last : place[i] = b /\ i % BlockSize = o => i = j
                          => new[b].cells[o] = 1 + j
  <2>1. new[b].cells[o] = Cell(b, o)
    <3> HIDE DEF Cell
    <3> QED BY <1>3
  <2>2. ASSUME \A i \in first..last : ~ (place[i] = b /\ i % BlockSize = o)
        PROVE  new[b].cells[o] = bl[b].cells[o]
    BY <2>1, <2>2
  <2>3. ASSUME NEW j \in first..last, place[j] = b /\ j % BlockSize = o,
               \A i \in first..last : place[i] = b /\ i % BlockSize = o => i = j
        PROVE  new[b].cells[o] = 1 + j
    <3>1. Here(b, o) = {j}
      BY <2>3
    <3>2. (CHOOSE i \in {j} : TRUE) = j
      OBVIOUS
    <3> HIDE DEF Here
    <3>3. Cell(b, o) = 1 + j
      BY <3>1, <3>2
    <3> QED BY <3>3, <2>1
  <2> QED BY <2>2, <2>3
<1> QED BY <1>1, <1>3, <1>5, <1>6

\* An item goes to the block of its number, which has one.
LEMMA OwnBlock ==
    ASSUME CountInv, PoolTypes, OpSound, BlocksOwned, NEW Q, NEW low, Numbered(Q, low), producer = "publish",
           NEW i \in tail..(tail + op.n - 1)
    PROVE  /\ Ord(i) \in low..TopNo /\ Implicit!BlockFor(i) = ValueNow(Q, Ord(i))
           /\ ValueNow(Q, Ord(i)) \in 1..Len(blocks)
<1>1. /\ Q \in [Nat -> Int] /\ low \in Nat /\ OverBelow(low) /\ EmptyOver(Q, low)
      /\ ChainRight(Q) /\ TailRight(Q, low)
  BY DEF Numbered, IndexSound, BlocksSound
<1>2. PICK t \in Nat, n \in Nat : t = tail /\ n = op.n /\ n >= 1 /\ head <= t
  BY NumbersAre, CountHeads DEF OpSound
<1>3. i \in Int /\ t <= i /\ i <= t + n - 1 /\ i \in Nat
  BY <1>2
<1>4. PICK b \in Int, p \in Int, c \in Nat : b = Ord(tail - 1) /\ p = TopNo /\ c = Len(op.chain) /\ p = b + c
  BY NumbersAre
<1>5. PICK x \in Int : x = Ord(i)
  BY <1>3, OrdAt
<1>6. x <= p
  <2>1. i <= t + n - 1 /\ t + n - 1 \in Int
    BY <1>3, <1>2
  <2>2. Ord(i) <= Ord(t + n - 1)
    BY <1>3, <2>1, OrdMono
  <2>3. Ord(t + n - 1) = p + op.need /\ op.need = 0
    BY <1>2, <1>4 DEF OpSound
  <2> QED BY <2>2, <2>3, <1>4, <1>5
<1>7. ~ CountedOut(i)
  BY <1>2, <1>3, CountHeads DEF CountedOut
<1>8. low <= x
  BY <1>1, <1>3, <1>5, <1>7, WaitedFor
<1>9. x \in low..p /\ ~ Over(x)
  <2>1. i \in ItemsOf(x)
    BY <1>3, <1>5, ItemsIs
  <2> QED BY <2>1, <1>1, <1>6, <1>7, <1>8 DEF Over
<1>10. ValueNow(Q, x) # 0
  BY <1>1, <1>4, <1>9 DEF EmptyOver
<1>11. ValueNow(Q, x) \in 1..Len(blocks)
  <2>1. PICK e \in 1..Len(entries) : e = EntryNow(Q, x)
    BY <1>1, EntryNowIs
  <2>2. ValueOf(e) \in 0..Len(blocks) /\ ValueOf(e) # 0
    BY <2>1, <1>10 DEF BlocksOwned, ValueNow
  <2> QED BY <2>1, <2>2, LastIs DEF ValueNow
<1>12. (Base(i) - Base(tail - 1)) \div BlockSize = x - b /\ x - b \in Nat
  <2>1. PICK k \in Nat : k = i - t + 1 /\ k >= 1 /\ t + k - 1 = i
    BY <1>3
  <2>2. /\ (Base(tail + k - 1) - Base(tail - 1)) \div BlockSize = Ord(tail + k - 1) - Ord(tail - 1)
        /\ Ord(tail + k - 1) - Ord(tail - 1) \in Nat
    BY <2>1, NeedIs
  <2> QED BY <2>1, <2>2, <1>2, <1>4, <1>5
<1>13. PICK h \in Nat : h = x - b /\ x = b + h
  BY <1>12
<1>14. Implicit!BlockFor(i) = IF h = 0 THEN tailBlock ELSE op.chain[h]
  BY <1>12, <1>13, SharedBase DEF Implicit!BlockFor
<1>15. CASE h = 0
  <2>1. x = b
    BY <1>13, <1>15
  <2> QED BY <2>1, <1>1, <1>4, <1>5, <1>8, <1>9, <1>10, <1>11, <1>14, <1>15 DEF TailRight
<1>16. CASE h # 0
  <2>1. h \in 1..c
    <3>1. b \in Int /\ p \in Int /\ c \in Nat /\ x \in Int /\ h \in Nat /\ p = b + c
      BY <1>4
    <3>2. x = b + h /\ x <= p /\ h # 0
      BY <1>6, <1>13, <1>16
    <3> QED BY <3>1, <3>2
  <2>2. ValueNow(Q, b + h) = op.chain[h]
    BY <2>1, <1>1, <1>4 DEF ChainRight
  <2>3. ValueNow(Q, x) = op.chain[h]
    BY <2>2, <1>13
  <2>4. Implicit!BlockFor(i) = ValueNow(Q, x)
    BY <2>3, <1>14, <1>16
  <2>5. Ord(i) \in low..TopNo
    BY <1>4, <1>5, <1>9
  <2> QED BY <2>4, <2>5, <1>5, <1>11
<1> QED BY <1>15, <1>16

\* Each item published is in the block of its number, and no other has changed.
PublishedAs(Q, low) ==
    /\ blocks' \in Seq(PoolBlocks) /\ Len(blocks') = Len(blocks)
    /\ \A b \in 1..Len(blocks) : blocks'[b].done = blocks[b].done
    /\ \A x \in low..TopNo, o \in Offsets :
         ValueNow(Q, x) # 0 /\ First(x) + o < tail + op.n =>
             blocks'[ValueNow(Q, x)].cells[o] = First(x) + o + 1

LEMMA PublishedPool ==
    ASSUME CountInv, PoolTypes, OpSound, BlocksOwned, NEW Q, NEW low, Numbered(Q, low), Implicit!Publish
    PROVE  PublishedAs(Q, low)
<1>1. /\ Q \in [Nat -> Int] /\ low \in Nat /\ SlotsRight(Q) /\ CellsRight(Q, low) /\ Window(low)
  BY DEF Numbered, IndexSound, BlocksSound
<1>2. PICK t \in Nat, n \in Nat, last \in Int : t = tail /\ n = op.n /\ last = t + n - 1
  <2>1. tail \in Nat /\ op.n \in Nat
    BY NumbersAre
  <2> QED BY <2>1
<1>3. PICK p \in Int : p = TopNo /\ KeyedNo = p
  BY NumbersAre DEF KeyedNo, Implicit!Publish
<1>4. PICK m \in 1..Len(indexes), c \in Nat : m = Len(indexes) /\ c = Cap(m) /\ c >= 1
  BY LastIs, IndexIs
<1>5. p - low < c /\ p \in Int /\ low \in Nat /\ c \in Nat
  BY <1>1, <1>3, <1>4 DEF Window
<1>6. PICK place : place = [i \in t..last |-> Implicit!BlockFor(i)]
  OBVIOUS
<1>7. PICK bl \in Seq(PoolBlocks) : bl = blocks
  BY DEF PoolTypes
<1>8. PICK new : new = blocks' /\ new = Filled(bl, place, t, last)
  <2>1. blocks' = Implicit!Filled(blocks, place, t, last)
    BY <1>2, <1>6 DEF Implicit!Publish
  <2> QED BY <2>1, <1>7, SharedFilled
<1>9. /\ new \in Seq(PoolBlocks) /\ Len(new) = Len(bl)
      /\ \A b \in 1..Len(bl) :
           /\ new[b].done = bl[b].done
           /\ \A o \in Offsets :
                     /\ (\A i \in t..last : ~ (place[i] = b /\ i % BlockSize = o)) =>
                          new[b].cells[o] = bl[b].cells[o]
                     /\ \A j \in t..last :
                          /\ place[j] = b /\ j % BlockSize = o
                          /\ \A i \in t..last : place[i] = b /\ i % BlockSize = o => i = j
                          => new[b].cells[o] = 1 + j
  BY <1>8, FilledPool
<1>10. \A i \in t..last : Ord(i) \in low..p /\ place[i] = ValueNow(Q, Ord(i)) /\ place[i] # 0
  <2> TAKE i \in t..last
  <2>1. i \in tail..(tail + op.n - 1)
    BY <1>2
  <2>2. producer = "publish"
    BY DEF Implicit!Publish
  <2>3. /\ Ord(i) \in low..TopNo /\ Implicit!BlockFor(i) = ValueNow(Q, Ord(i))
        /\ ValueNow(Q, Ord(i)) \in 1..Len(blocks)
    BY <2>1, <2>2, OwnBlock
  <2> QED BY <2>3, <1>3, <1>6
<1>11. ASSUME NEW x \in low..p, NEW y \in low..p, ValueNow(Q, x) = ValueNow(Q, y), ValueNow(Q, x) # 0
       PROVE  x = y
  <2>1. x \in Int /\ y \in Int /\ x < y + c /\ y < x + c
    BY <1>5
  <2>2. EntryNow(Q, x) \in 1..Len(entries) /\ EntryNow(Q, y) \in 1..Len(entries)
    BY <2>1, <1>1, EntryNowIs
  <2>3. EntryNow(Q, x) = EntryNow(Q, y)
    BY <2>2, <1>11 DEF BlocksOwned, ValueNow
  <2>4. ~ x < y /\ ~ y < x
    BY <2>1, <2>3, <1>1, <1>4, EntriesApart
  <2> QED BY <2>1, <2>4
<1>12. ASSUME NEW x \in low..p, NEW o \in Offsets, NEW i \in t..last, place[i] = ValueNow(Q, x), i % BlockSize = o
       PROVE  i = First(x) + o
  <2>1. Ord(i) = x
    BY <1>10, <1>11, <1>12
  <2>2. i \in Int
    OBVIOUS
  <2>3. \E y \in Int, q \in Offsets :
             /\ y = Ord(i) /\ q = i % BlockSize
             /\ i = First(y) + q /\ Base(i) = First(y)
    BY <2>2, OrdIs
  <2> QED BY <2>1, <2>3, <1>12
<1>13. ASSUME NEW x \in low..p, NEW o \in Offsets, ValueNow(Q, x) # 0, First(x) + o < t + n
       PROVE  new[ValueNow(Q, x)].cells[o] = First(x) + o + 1
  <2>1. x \in Int
    BY <1>5
  <2>2. PICK j \in Int : j = First(x) + o /\ Ord(j) = x /\ j % BlockSize = o
    BY <2>1, OrdOf
  <2>3. PICK v \in 1..Len(bl) : v = ValueNow(Q, x)
    <3>1. EntryNow(Q, x) \in 1..Len(entries)
      BY <2>1, <1>1, EntryNowIs
    <3>2. ValueNow(Q, x) \in 0..Len(blocks)
      BY <3>1 DEF BlocksOwned, ValueNow
    <3> QED BY <3>2, <1>7, <1>13, LastIs
  <2>4. CASE j < t
    <3>1. \A i \in t..last : ~ (place[i] = v /\ i % BlockSize = o)
      BY <2>2, <2>3, <2>4, <1>12
    <3>2. new[v].cells[o] = bl[v].cells[o]
      BY <3>1, <1>9
    <3>3. bl[v].cells[o] = First(x) + o + 1
      BY <2>2, <2>3, <2>4, <1>1, <1>2, <1>3, <1>7, <1>13 DEF CellsRight
    <3> QED BY <3>2, <3>3, <2>3
  <2>5. CASE j >= t
    <3>1. j \in t..last
      BY <2>2, <2>5, <1>2, <1>13
    <3>2. place[j] = v
      BY <3>1, <2>2, <2>3, <1>10
    <3>3. \A i \in t..last : place[i] = v /\ i % BlockSize = o => i = j
      BY <2>2, <2>3, <1>12
    <3>4. new[v].cells[o] = 1 + j
      BY <3>1, <3>2, <3>3, <2>2, <1>9
    <3> QED BY <3>4, <2>2, <2>3
  <2> QED BY <2>2, <2>4, <2>5
<1>14. \A b \in 1..Len(blocks) : blocks'[b].done = blocks[b].done
  BY <1>7, <1>8, <1>9
<1>15. blocks' \in Seq(PoolBlocks) /\ Len(blocks') = Len(blocks)
  BY <1>7, <1>8, <1>9
<1>16. \A x \in low..TopNo, o \in Offsets : ValueNow(Q, x) # 0 /\ First(x) + o < tail + op.n =>
                    blocks'[ValueNow(Q, x)].cells[o] = First(x) + o + 1
  BY <1>2, <1>3, <1>8, <1>13
<1> QED BY <1>14, <1>15, <1>16 DEF PublishedAs

\* The items are written and the tail shows them.
LEMMA PublishingKept ==
    ASSUME Claims, PoolTypes, OpSound, BlocksOwned, NEW Q, NEW low, Numbered(Q, low), Implicit!Publish
    PROVE  ImplicitInv' /\ UNCHANGED <<head, taken>> /\ tail' > tail
<1>1. /\ CountInv /\ ClaimsApart /\ IndexSound(Q, low) /\ Q \in [Nat -> Int] /\ low \in Nat
      /\ TailsRight(Q) /\ OverBelow(low) /\ Window(low)
      /\ EmptyOver(Q, low) /\ DoneRight(Q, low) /\ CellsRight(Q, low)
  BY DEF Claims, Numbered, IndexSound, BlocksSound
<1>2. /\ producer = "publish" /\ producer' = "idle" /\ op' = Implicit!NoOp
      /\ tail' = tail + op.n /\ tailBlock' = Implicit!BlockFor(tail + op.n - 1)
      /\ UNCHANGED <<head, optimistic, overcommit, consumer, local, taken, free, entries, indexes>>
  BY SharedBase DEF Implicit!Publish, Implicit!reading, Implicit!index
<1>3. Still /\ Steady /\ SameSlots
  BY <1>2 DEF Still, Steady, SameSlots
<1>4. PICK t \in Nat, n \in Nat, b \in Int, p \in Int :
         t = tail /\ n = op.n /\ b = Ord(tail - 1) /\ p = TopNo /\ b <= p
  BY <1>1, NumbersAre
<1>5. n >= 1 /\ Ord(t + n - 1) = p
  <2>1. n >= 1 /\ Ord(t + n - 1) = p + op.need /\ op.need = 0
    BY <1>2, <1>4 DEF OpSound
  <2> QED BY <2>1, <1>4
<1>6. tail' = t + n /\ tail' \in Nat /\ tail' > tail /\ Ord(tail - 1)' = p
  <2>1. tail' = t + n
    BY <1>2, <1>4
  <2> QED BY <2>1, <1>4, <1>5
<1>7. TopNo' = p /\ KeyedNo' = p /\ ShownNo' = p /\ KeyedNo = p /\ ShownNo = p /\ Len(op'.chain) = 0
  <2>1. op'.chain = <<>> /\ Len(op'.chain) = 0
    BY <1>2, EmptySeq DEF Implicit!NoOp
  <2>2. TopNo' = p
    BY <2>1, <1>6 DEF TopNo
  <2>3. KeyedNo' = p /\ ShownNo' = p /\ KeyedNo = p /\ ShownNo = p
    BY <2>2, <1>2, <1>4 DEF KeyedNo, ShownNo
  <2> QED BY <2>1, <2>2, <2>3
<1>8. KeysStay /\ ValuesStay
  BY <1>2 DEF KeysStay, ValuesStay, KeyOf, ValueOf
<1>9. \A x \in Int : ValueNow(Q, x)' = ValueNow(Q, x)
  <2> SUFFICES ASSUME NEW x \in Int PROVE ValueNow(Q, x)' = ValueNow(Q, x)
    OBVIOUS
  <2>1. PICK e \in 1..Len(entries) : e = EntryNow(Q, x) /\ ValueNow(Q, x)' = ValueOf(e)'
    BY <1>1, <1>3, EntryNowIs, NowKept
  <2> QED BY <2>1, <1>8 DEF ValueNow, ValuesStay
<1>10. IndexAlike(Q, low)
  <2>1. OverBelow(low)'
    BY <1>1, <1>3, SteadyKeeps DEF OverBelow
  <2>2. \E j \in Int : /\ j = KeyedNo' /\ j <= KeyedNo
                       /\ \A x \in low..KeyedNo : j < x => ValueNow(Q, x)' = 0
    <3>1. \A x \in low..p : ~ p < x
      BY <1>1, <1>4
    <3> QED BY <3>1, <1>4, <1>7
  <2>3. \E j \in Int : j = Ord(tail - 1)' /\ low <= j + 1
    <3>1. low <= b + 1
      BY <1>1, <1>4 DEF Window
    <3>2. low <= p + 1
      BY <3>1, <1>1, <1>4
    <3> QED BY <3>2, <1>4, <1>6
  <2>4. \E j \in Int : j = ShownNo' /\ indexes'[Len(indexes)].tail = SlotOf(Q, Len(indexes), j)
    BY <1>1, <1>2, <1>4, <1>7 DEF TailsRight
  <2> QED BY <2>1, <2>2, <2>3, <2>4, <1>2, <1>8 DEF IndexAlike, KeysStay, ValuesStay
<1>11. IndexSound(Q, low)'
  BY <1>1, <1>3, <1>10, HeadersKept
<1>12. /\ blocks' \in Seq(PoolBlocks) /\ Len(blocks') = Len(blocks)
       /\ \A v \in 1..Len(blocks) : blocks'[v].done = blocks[v].done
       /\ \A x \in low..TopNo, o \in Offsets :
                ValueNow(Q, x) # 0 /\ First(x) + o < tail + op.n =>
                    blocks'[ValueNow(Q, x)].cells[o] = First(x) + o + 1
  <2>1. PublishedAs(Q, low)
    BY <1>1, PublishedPool
  <2> QED BY <2>1 DEF PublishedAs
<1>13. \A x \in low..p : x \in Int /\ ValueNow(Q, x)' = ValueNow(Q, x) /\ ValueNow(Q, x) \in 0..Len(blocks)
  <2> SUFFICES ASSUME NEW x \in low..p
               PROVE  x \in Int /\ ValueNow(Q, x)' = ValueNow(Q, x) /\ ValueNow(Q, x) \in 0..Len(blocks)
    OBVIOUS
  <2>1. x \in Int
    BY <1>1
  <2>2. EntryNow(Q, x) \in 1..Len(entries)
    BY <2>1, <1>1, EntryNowIs
  <2> QED BY <2>1, <2>2, <1>9 DEF BlocksOwned, ValueNow
<1>14. BlocksSound(Q, low)'
  <2>1. \A x : (Over(x)' <=> Over(x)) /\ CountedOf(x)' = CountedOf(x)
    BY <1>3, SteadyKeeps
  <2>2. EmptyOver(Q, low)'
    BY <2>1, <1>1, <1>4, <1>7, <1>13 DEF EmptyOver
  <2>3. DoneRight(Q, low)'
    <3> SUFFICES ASSUME NEW x \in low..p, ValueNow(Q, x)' # 0
                 PROVE  blocks'[ValueNow(Q, x)'].done = Cardinality(CountedOf(x)')
      BY <1>7 DEF DoneRight
    <3>1. ValueNow(Q, x)' = ValueNow(Q, x) /\ CountedOf(x)' = CountedOf(x)
      BY <2>1, <1>13
    <3>2. ValueNow(Q, x) \in 1..Len(blocks)
      BY <3>1, <1>13, LastIs
    <3>3. blocks[ValueNow(Q, x)].done = Cardinality(CountedOf(x))
      BY <3>1, <1>1, <1>4 DEF DoneRight
    <3> QED BY <3>1, <3>2, <3>3, <1>12
  <2>4. CellsRight(Q, low)'
    <3> SUFFICES ASSUME NEW x \in low..p, ValueNow(Q, x)' # 0, NEW o \in Offsets, First(x) + o < t + n
                 PROVE  blocks'[ValueNow(Q, x)'].cells[o] = First(x) + o + 1
      BY <1>6, <1>7 DEF CellsRight, First
    <3>1. ValueNow(Q, x)' = ValueNow(Q, x)
      BY <1>13
    <3> QED BY <3>1, <1>4, <1>12
  <2>5. ChainRight(Q)'
    <3>1. 1..Len(op'.chain) = {} /\ producer' = "idle"
      BY <1>2, <1>7
    <3> QED BY <3>1 DEF ChainRight
  <2>6. TailRight(Q, low)'
    <3>1. t + n - 1 \in tail..(tail + op.n - 1)
      BY <1>4, <1>5
    <3>2. Implicit!BlockFor(t + n - 1) = ValueNow(Q, Ord(t + n - 1))
      BY <3>1, <1>1, <1>2, OwnBlock
    <3>3. tailBlock' = ValueNow(Q, p)
      BY <3>2, <1>2, <1>4, <1>5
    <3>4. ValueNow(Q, p)' = ValueNow(Q, p)
      BY <1>4, <1>9
    <3> QED BY <3>3, <3>4, <1>6 DEF TailRight
  <2> QED BY <2>2, <2>3, <2>4, <2>5, <2>6 DEF BlocksSound
<1>15. ReadersSound(Q, low)'
  <2>1. ASSUME NEW x \in low..b, ValueNow(Q, x) # 0
        PROVE  ValueNow(Q, x)' = ValueNow(Q, x) /\ low <= x
    <3>1. x \in low..p
      BY <1>1, <1>4
    <3> QED BY <3>1, <1>1, <1>13
  <2>2. \A e \in 1..Len(entries) : KeyOf(e) # -1 => KeyOf(e)' # -1
    BY <1>8 DEF KeysStay
  <2> QED BY <2>1, <2>2, <1>1, <1>3, <1>4, ReadersKept
<1>16. BlocksOwned'
  BY <1>2, <1>3, <1>8, <1>12, OwnedKept
<1>17. PoolTypes'
  BY <1>2, <1>3, <1>12, TypesKept DEF PoolTypes
<1>18. Claims'
  <2>1. tail <= tail'
    BY <1>4, <1>6
  <2> QED BY <2>1, <1>3, <1>6, ClaimsSteady
<1>19. OpSound'
  <2>1. Implicit!NoOp \in Operations
    BY EmptySeq DEF Implicit!NoOp, Operations
  <2> QED BY <2>1, <1>2 DEF OpSound
<1> QED BY <1>2, <1>6, <1>11, <1>14, <1>15, <1>16, <1>17, <1>18, <1>19 DEF ImplicitInv, Numbered

-----------------------------------------------------------------------------
\* The consumers' steps.  They leave the producer and the indexes alone.
ProducerStays == UNCHANGED <<tail, indexes, tailBlock, producer, op>>

\* What is counted: the same as before, or more.
CountsStay == \A i \in Int : CountedOut(i)' <=> CountedOut(i)
CountsGrow == \A i \in Int : CountedOut(i) => CountedOut(i)'

\* Of the entries only values change, and only to none.
KeysLast ==
    /\ Len(entries') = Len(entries)
    /\ \A e \in 1..Len(entries) : KeyOf(e)' = KeyOf(e) /\ (ValueOf(e)' = ValueOf(e) \/ ValueOf(e)' = 0)

LEMMA NumbersStay ==
    ASSUME OpSound, ProducerStays
    PROVE  /\ SameSlots /\ OpSound' /\ tail' = tail /\ Ord(tail - 1)' = Ord(tail - 1)
           /\ TopNo' = TopNo /\ KeyedNo' = KeyedNo /\ ShownNo' = ShownNo
<1>1. tail' = tail /\ indexes' = indexes /\ tailBlock' = tailBlock /\ producer' = producer /\ op' = op
  BY DEF ProducerStays
<1>2. SameSlots
  BY <1>1 DEF SameSlots
<1>3. Ord(tail - 1)' = Ord(tail - 1)
  BY <1>1
<1>4. TopNo' = TopNo
  BY <1>1, <1>3 DEF TopNo
<1>5. KeyedNo' = KeyedNo /\ ShownNo' = ShownNo
  BY <1>1, <1>4 DEF KeyedNo, ShownNo
<1>6. Ord(tail + op.n - 1)' = Ord(tail + op.n - 1)
  BY <1>1
<1>7. OpSound'
  BY <1>1, <1>4, <1>6 DEF OpSound
<1> QED BY <1>1, <1>2, <1>3, <1>4, <1>5, <1>7

LEMMA IndexStays ==
    ASSUME CountInv, OpSound, PoolTypes, ProducerStays, CountsGrow, KeysLast,
           NEW Q, NEW low, IndexSound(Q, low)
    PROVE  IndexSound(Q, low)'
<1>1. /\ Q \in [Nat -> Int] /\ low \in Nat /\ TailsRight(Q) /\ OverBelow(low) /\ Window(low)
  BY DEF IndexSound
<1>2. /\ SameSlots /\ tail' = tail /\ Ord(tail - 1)' = Ord(tail - 1) /\ indexes' = indexes
      /\ KeyedNo' = KeyedNo /\ ShownNo' = ShownNo
  BY NumbersStay DEF ProducerStays
<1>3. PICK t \in Int, k \in Int, s \in Int : t = Ord(tail - 1) /\ k = KeyedNo /\ s = ShownNo
  BY NumbersAre
<1>4. IndexAlike(Q, low)
  <2>1. OverBelow(low)'
    <3>1. \A i \in Nat : i < First(low) => CountedOut(i)'
      BY <1>1 DEF OverBelow, CountsGrow
    <3> QED BY <3>1 DEF OverBelow, First
  <2>2. \E j \in Int : /\ j = KeyedNo' /\ j <= KeyedNo
                       /\ \A x \in low..KeyedNo : j < x => ValueNow(Q, x)' = 0
    <3>1. \A x \in low..k : ~ k < x
      BY <1>1
    <3> QED BY <3>1, <1>2, <1>3
  <2>3. \E j \in Int : j = Ord(tail - 1)' /\ low <= j + 1
    BY <1>1, <1>2, <1>3 DEF Window
  <2>4. \E j \in Int : j = ShownNo' /\ indexes'[Len(indexes)].tail = SlotOf(Q, Len(indexes), j)
    BY <1>1, <1>2, <1>3 DEF TailsRight
  <2>5. \A e \in 1..Len(entries) :
          ValueOf(e)' # 0 => ValueOf(e) # 0 \/ \E x \in low..KeyedNo' : e = EntryNow(Q, x)
    BY DEF KeysLast
  <2> QED BY <2>1, <2>2, <2>3, <2>4, <2>5, <1>2 DEF IndexAlike, KeysLast
<1> QED BY <1>1, <1>2, <1>4, HeadersKept

\* Steps that touch no block and count nothing.
LEMMA BlocksStay ==
    ASSUME CountInv, PoolTypes, OpSound, ProducerStays, CountsStay, UNCHANGED <<entries, blocks>>,
           NEW Q, NEW low, IndexSound(Q, low), BlocksSound(Q, low)
    PROVE  BlocksSound(Q, low)'
<1>1. /\ Q \in [Nat -> Int] /\ low \in Nat
      /\ EmptyOver(Q, low) /\ DoneRight(Q, low) /\ CellsRight(Q, low) /\ ChainRight(Q) /\ TailRight(Q, low)
  BY DEF IndexSound, BlocksSound
<1>2. /\ SameSlots /\ tail' = tail /\ Ord(tail - 1)' = Ord(tail - 1) /\ op' = op /\ producer' = producer
      /\ tailBlock' = tailBlock /\ TopNo' = TopNo /\ KeyedNo' = KeyedNo /\ entries' = entries /\ blocks' = blocks
  BY NumbersStay DEF ProducerStays
<1>3. PICK t \in Int, p \in Int, k \in Int : t = Ord(tail - 1) /\ p = TopNo /\ k = KeyedNo
  BY NumbersAre
<1>4. \A x \in Int : EntryNow(Q, x)' = EntryNow(Q, x) /\ ValueNow(Q, x)' = ValueNow(Q, x)
  <2>1. \A x \in Int : EntryNow(Q, x)' = EntryNow(Q, x)
    BY <1>1, <1>2, SlotsKept
  <2> QED BY <2>1, <1>2 DEF ValueNow, ValueOf
<1>5. ASSUME NEW x \in Int PROVE (Over(x)' <=> Over(x)) /\ CountedOf(x)' = CountedOf(x)
  <2>1. ItemsOf(x)' = ItemsOf(x)
    BY DEF ItemsOf, First
  <2>2. \A i \in ItemsOf(x) : i \in Int
    BY ItemsIs
  <2>3. \A i \in ItemsOf(x) : CountedOut(i)' <=> CountedOut(i)
    BY <2>2 DEF CountsStay
  <2> QED BY <2>1, <2>3 DEF Over, CountedOf
<1>6. \A x \in low..p : x \in Int
  BY <1>1
<1>7. EmptyOver(Q, low)'
  BY <1>1, <1>2, <1>3, <1>4, <1>5, <1>6 DEF EmptyOver
<1>8. DoneRight(Q, low)'
  <2> SUFFICES ASSUME NEW x \in low..p, ValueNow(Q, x)' # 0
               PROVE  blocks'[ValueNow(Q, x)'].done = Cardinality(CountedOf(x)')
    BY <1>2, <1>3 DEF DoneRight
  <2>1. ValueNow(Q, x)' = ValueNow(Q, x) /\ CountedOf(x)' = CountedOf(x)
    BY <1>4, <1>5, <1>6
  <2> QED BY <2>1, <1>1, <1>2, <1>3 DEF DoneRight
<1>9. CellsRight(Q, low)'
  <2> SUFFICES ASSUME NEW x \in low..p, ValueNow(Q, x)' # 0, NEW o \in Offsets, First(x) + o < tail
               PROVE  blocks'[ValueNow(Q, x)'].cells[o] = First(x) + o + 1
    BY <1>2, <1>3 DEF CellsRight, First
  <2>1. ValueNow(Q, x)' = ValueNow(Q, x)
    BY <1>4, <1>6
  <2> QED BY <2>1, <1>1, <1>2, <1>3 DEF CellsRight
<1>10. ChainRight(Q)'
  <2>1. \A j \in 1..Len(op.chain) : t + j \in Int
    BY <1>3
  <2>2. \A j \in 1..Len(op.chain) : ValueNow(Q, t + j)' = op.chain[j] /\ op.chain[j] # 0
    BY <2>1, <1>1, <1>3, <1>4 DEF ChainRight
  <2>3. producer \in {"tail", "block"} => op.entry = EntryNow(Q, k)' /\ ValueNow(Q, k)' = 0
    BY <1>1, <1>3, <1>4 DEF ChainRight
  <2> QED BY <2>2, <2>3, <1>2, <1>3 DEF ChainRight
<1>11. TailRight(Q, low)'
  <2>1. ValueNow(Q, t)' = ValueNow(Q, t)
    BY <1>4
  <2> QED BY <2>1, <1>1, <1>2, <1>3 DEF TailRight
<1> QED BY <1>7, <1>8, <1>9, <1>10, <1>11 DEF BlocksSound

\* A consumer that the step leaves where it was.
Remains(d) == d \in Taking /\ consumer'[d] = consumer[d] /\ local'[d] = local[d]

LEMMA RemainsIs ==
    ASSUME NEW d, Remains(d)
    PROVE  /\ d \in Taking' /\ End(d)' = End(d) /\ CountsFrom(d)' = CountsFrom(d)
           /\ CopiesFrom(d)' = CopiesFrom(d) /\ NeedsFrom(d)' = NeedsFrom(d)
<1>1. d \in Taking /\ consumer'[d] = consumer[d] /\ local'[d] = local[d]
  BY DEF Remains
<1>2. d \in Taking'
  BY <1>1 DEF Taking
<1>3. End(d)' = End(d)
  BY <1>1 DEF End
<1> QED BY <1>1, <1>2, <1>3 DEF CountsFrom, CopiesFrom, NeedsFrom

\* It finds what it found, if the block that it has found stays behind its entry.
LEMMA RemainsSound ==
    ASSUME CountInv, ClaimsApart, PoolTypes, OpSound, ProducerStays, CountsGrow, KeysLast,
           NEW Q, NEW low, IndexSound(Q, low), NEW d, Remains(d), ReaderSound(Q, low, d),
           consumer[d] \in {"count", "clear"} =>
              \E x \in Int : x = Ord(local[d].next) /\ ValueNow(Q, x)' = ValueNow(Q, x)
    PROVE  ReaderSound(Q, low, d)'
<1>1. Q \in [Nat -> Int] /\ low \in Nat
  BY DEF IndexSound
<1>2. /\ d \in Taking /\ consumer'[d] = consumer[d] /\ local'[d] = local[d] /\ NeedsFrom(d)' = NeedsFrom(d)
  BY RemainsIs DEF Remains
<1>3. SameSlots /\ indexes' = indexes
  BY NumbersStay DEF ProducerStays
<1>4. /\ \A h \in 1..Len(indexes) : Cap(h)' = Cap(h)
      /\ \A h \in 1..Len(indexes), x \in Int :
           SlotOf(Q, h, x)' = SlotOf(Q, h, x) /\ EntryOf(Q, h, x)' = EntryOf(Q, h, x)
      /\ \A x \in Int : EntryNow(Q, x)' = EntryNow(Q, x)
  BY <1>1, <1>3, SlotsKept
<1>5. PICK a \in Nat, b \in Nat, e \in Nat, h \in Nat, t \in Nat :
             /\ a = local[d].next /\ b = local[d].stop /\ e = End(d) /\ h = head /\ t = tail
             /\ a < e /\ e <= b /\ b <= h /\ h <= t
  BY <1>2, TakenBounds
<1>6. PICK hd \in 1..Len(indexes) : hd = local[d].header
  BY DEF ReaderSound
<1>7. PICK s, v : s = local[d].slot /\ v = local[d].block
  OBVIOUS
<1>8. PICK n \in Nat : n = NeedsFrom(d)
  BY <1>5 DEF NeedsFrom
<1>9. ASSUME NEW i \in n..(b - 1) PROVE EntryOf(Q, hd, Ord(i))' = EntryNow(Q, Ord(i))'
  <2>1. i \in Int
    BY <1>5, <1>8
  <2>2. PICK x \in Int : x = Ord(i)
    BY <2>1, OrdAt
  <2>3. EntryOf(Q, hd, x) = EntryNow(Q, x)
    BY <2>2, <1>5, <1>6, <1>8 DEF ReaderSound
  <2>4. EntryOf(Q, hd, x)' = EntryNow(Q, x)'
    BY <2>3, <1>4, <1>6
  <2> QED BY <2>2, <2>4
<1>10. consumer[d] = "key" => s \in 0..(Cap(hd)' - 1) /\ KeyOf(indexes[hd].index[s])' # -1
  <2> SUFFICES ASSUME consumer[d] = "key"
               PROVE  s \in 0..(Cap(hd)' - 1) /\ KeyOf(indexes[hd].index[s])' # -1
    OBVIOUS
  <2>1. s \in 0..(Cap(hd) - 1) /\ KeyOf(indexes[hd].index[s]) # -1
    BY <1>6, <1>7 DEF ReaderSound
  <2>2. PICK f \in 1..Len(entries) : f = indexes[hd].index[s]
    BY <2>1, <1>6, IndexIs
  <2>3. indexes'[hd].index[s] = f
    BY <2>2, <1>3
  <2>4. KeyOf(f)' # -1
    BY <2>1, <2>2 DEF KeysLast
  <2>5. KeyOf(indexes[hd].index[s])' = KeyOf(f)'
    BY <2>3 DEF KeyOf
  <2> QED BY <2>1, <2>4, <2>5, <1>4, <1>6
<1>11. PICK x \in Int : x = Ord(a)
  <2>1. a \in Int
    OBVIOUS
  <2> QED BY <2>1, OrdAt
<1>12. consumer[d] \in {"count", "clear"} => ValueNow(Q, x)' = v /\ v # 0
  <2>1. consumer[d] \in {"count", "clear"} => ValueNow(Q, x) = v /\ v # 0
    BY <1>5, <1>7, <1>11 DEF ReaderSound
  <2>2. consumer[d] \in {"count", "clear"} => ValueNow(Q, x)' = ValueNow(Q, x)
    BY <1>5, <1>11
  <2> QED BY <2>1, <2>2
<1>13. consumer[d] = "clear" => low <= x /\ Over(x)'
  <2> SUFFICES ASSUME consumer[d] = "clear" PROVE low <= x /\ Over(x)'
    OBVIOUS
  <2>1. low <= x /\ Over(x)
    BY <1>5, <1>11 DEF ReaderSound
  <2>2. \A i \in ItemsOf(x) : i \in Int
    BY ItemsIs
  <2>3. ItemsOf(x)' = ItemsOf(x)
    BY DEF ItemsOf, First
  <2> QED BY <2>1, <2>2, <2>3 DEF Over, CountsGrow
<1>14. consumer[d] \in {"copy", "count", "clear", "free", "advance"} => s = SlotOf(Q, hd, x)'
  <2>1. consumer[d] \in {"copy", "count", "clear", "free", "advance"} => s = SlotOf(Q, hd, x)
    BY <1>5, <1>6, <1>7, <1>11 DEF ReaderSound
  <2>2. SlotOf(Q, hd, x)' = SlotOf(Q, hd, x)
    <3>1. \A y \in Int : SlotOf(Q, hd, y)' = SlotOf(Q, hd, y)
      BY <1>4
    <3> QED BY <3>1
  <2> QED BY <2>1, <2>2
<1>15. hd \in 1..Len(indexes')
  BY <1>3
<1>16. /\ local'[d].header = hd /\ local'[d].slot = s /\ local'[d].block = v /\ local'[d].next = a
       /\ local'[d].stop = b /\ NeedsFrom(d)' = n /\ consumer'[d] = consumer[d]
  BY <1>2, <1>5, <1>6, <1>7, <1>8
<1> QED BY <1>9, <1>10, <1>11, <1>12, <1>13, <1>14, <1>15, <1>16 DEF ReaderSound

\* A consumer with items goes on, or is done; the others stay.
TakingPlaces == {"index", "tail", "key", "copy", "count", "clear", "free", "advance"}
Moves(c) ==
    /\ c \in Taking /\ OthersStay(c) /\ UNCHANGED <<tail, head, optimistic, overcommit>>
    /\ consumer' \in [Consumers -> ConsumerPlaces] /\ local' \in [Consumers -> Locals]
    /\ consumer'[c] \in TakingPlaces \cup {"idle"}

LEMMA MovesIs ==
    ASSUME CountInv, NEW c, Moves(c)
    PROVE  /\ CountInv' /\ c \in Consumers /\ c \in Taking
           /\ head' = head
           /\ \A d \in Taking : d # c => Remains(d)
           /\ \A d \in Taking' : d # c => Remains(d)
           /\ c \in Taking' <=> consumer'[c] \in TakingPlaces
<1>1. c \in Consumers /\ c \in Taking /\ head' = head /\ OthersStay(c)
  BY DEF Moves, Taking
<1>2. \A d \in Consumers : consumer'[d] \in {"reserve", "claim"} =>
        consumer'[d] = consumer[d] /\ local'[d] = local[d]
  BY <1>1 DEF Moves, OthersStay, TakingPlaces
<1>3. \A d \in Consumers : consumer[d] = "claim" => consumer'[d] = "claim"
  BY <1>1 DEF OthersStay, Taking
<1>4. Elsewhere
  BY <1>2, <1>3 DEF Elsewhere, Moves, CountInv, CountTypes
<1>5. CountInv'
  BY <1>4, CountElsewhere
<1>6. \A d \in Taking : d # c => Remains(d)
  BY <1>1 DEF OthersStay, Remains, Taking
<1>7. \A d \in Taking' : d # c => Remains(d)
  BY <1>1 DEF OthersStay, Remains, Taking
<1>8. c \in Taking' <=> consumer'[c] \in TakingPlaces
  BY <1>1 DEF Taking, TakingPlaces
<1> QED BY <1>1, <1>5, <1>6, <1>7, <1>8

\* It goes on with the same items.
Continues(c) == /\ Moves(c) /\ consumer'[c] \in TakingPlaces
                /\ local'[c].next = local[c].next /\ local'[c].stop = local[c].stop

LEMMA ContinuesIs ==
    ASSUME CountInv, ClaimsApart, ClearsOnce, NEW c, Continues(c)
    PROVE  /\ CountInv' /\ ClaimsApart' /\ c \in Consumers /\ c \in Taking /\ Taking' = Taking /\ head' = head
           /\ \A d \in Taking : d # c => Remains(d)
           /\ \A d \in Taking : /\ local'[d].next = local[d].next /\ local'[d].stop = local[d].stop
                                /\ End(d)' = End(d)
           /\ consumer'[c] # "clear" => ClearsOnce'
<1>1. /\ CountInv' /\ c \in Consumers /\ c \in Taking /\ head' = head
      /\ \A d \in Taking : d # c => Remains(d)
      /\ \A d \in Taking' : d # c => Remains(d)
      /\ c \in Taking'
  BY MovesIs DEF Continues
<1>2. Taking' = Taking
  BY <1>1, RemainsIs DEF Remains
<1>3. \A d \in Taking : local'[d].next = local[d].next /\ local'[d].stop = local[d].stop
  BY <1>1 DEF Remains, Continues
<1>4. \A d \in Taking : End(d)' = End(d)
  BY <1>3 DEF End
<1>5. ClaimsApart'
  BY <1>1, <1>2, <1>3 DEF ClaimsApart
<1>6. consumer'[c] # "clear" => ClearsOnce'
  <2> SUFFICES ASSUME consumer'[c] # "clear" PROVE ClearsOnce'
    OBVIOUS
  <2>1. \A d \in Taking : consumer'[d] = "clear" => consumer[d] = "clear" /\ local'[d] = local[d]
    BY <1>1 DEF Remains
  <2> QED BY <2>1, <1>2 DEF ClearsOnce
<1> QED BY <1>1, <1>2, <1>3, <1>4, <1>5, <1>6

\* When it counts nothing and copies nothing.
LEMMA ContinuesCounts ==
    ASSUME CountInv, ClaimsApart, ClearsOnce, NEW c, Continues(c), CountsFrom(c)' = CountsFrom(c)
    PROVE  CountsStay /\ CountsGrow
<1>1. /\ Taking' = Taking /\ head' = head /\ \A d \in Taking : d # c => Remains(d)
      /\ \A d \in Taking : local'[d].stop = local[d].stop
  BY ContinuesIs
<1>2. \A d \in Taking : CountsFrom(d)' = CountsFrom(d)
  BY <1>1, RemainsIs
<1>3. CountsStay
  BY <1>1, <1>2 DEF CountsStay, CountedOut
<1> QED BY <1>3 DEF CountsStay, CountsGrow

LEMMA ContinuesCopies ==
    ASSUME CountInv, ClaimsApart, ClearsOnce, CopiedOnce, NEW c, Continues(c), taken' = taken,
           CopiesFrom(c)' = CopiesFrom(c)
    PROVE  CopiedOnce'
<1>1. /\ Taking' = Taking /\ head' = head /\ \A d \in Taking : d # c => Remains(d)
      /\ \A d \in Taking : local'[d].stop = local[d].stop
  BY ContinuesIs
<1>2. \A d \in Taking : CopiesFrom(d)' = CopiesFrom(d)
  BY <1>1, RemainsIs
<1> QED BY <1>1, <1>2 DEF CopiedOnce

\* After a step of a consumer everything is sound, when those that do not
\* remain where they were are.
LEMMA StepKept ==
    ASSUME Claims, PoolTypes, OpSound, Claims', PoolTypes', BlocksOwned',
           ProducerStays, CountsGrow, KeysLast, NEW Q, NEW low, Numbered(Q, low), BlocksSound(Q, low)',
           \A d \in Taking' : consumer'[d] # "index" => ReaderSound(Q, low, d)'
    PROVE  ImplicitInv'
<1>1. IndexSound(Q, low) /\ CountInv
  BY DEF Numbered, Claims
<1>2. IndexSound(Q, low)'
  BY <1>1, IndexStays
<1>3. OpSound'
  BY NumbersStay
<1>4. ReadersSound(Q, low)'
  BY DEF ReadersSound
<1>5. Numbered(Q, low)'
  BY <1>2, <1>4 DEF Numbered
<1> QED BY <1>3, <1>5 DEF ImplicitInv

\* A step that changes no block, nor what is counted.
LEMMA EntriesStay ==
    ASSUME Claims, PoolTypes, OpSound, Claims', PoolTypes', BlocksOwned',
           ProducerStays, CountsStay, UNCHANGED <<entries, blocks>>,
           NEW Q, NEW low, Numbered(Q, low),
           \A d \in Taking' : consumer'[d] # "index" => Remains(d) \/ ReaderSound(Q, low, d)'
    PROVE  ImplicitInv'
<1>1. /\ IndexSound(Q, low) /\ BlocksSound(Q, low) /\ ReadersSound(Q, low) /\ Q \in [Nat -> Int]
      /\ CountInv /\ ClaimsApart /\ entries' = entries
  BY DEF Numbered, Claims, IndexSound
<1>2. BlocksSound(Q, low)'
  BY <1>1, BlocksStay
<1>3. CountsGrow
  BY DEF CountsStay, CountsGrow
<1>4. KeysLast
  BY <1>1 DEF KeysLast, KeyOf, ValueOf
<1>5. ASSUME NEW d \in Taking', consumer'[d] # "index", Remains(d) PROVE ReaderSound(Q, low, d)'
  <2>1. d \in Taking /\ consumer'[d] = consumer[d]
    BY <1>5 DEF Remains
  <2>2. ReaderSound(Q, low, d)
    BY <2>1, <1>1, <1>5 DEF ReadersSound
  <2>3. PICK a \in Nat : a = local[d].next
    BY <2>1, <1>1, TakenBounds
  <2>4. PICK x \in Int : x = Ord(a)
    <3>1. a \in Int
      OBVIOUS
    <3> QED BY <3>1, OrdAt
  <2>5. EntryNow(Q, x)' = EntryNow(Q, x)
    BY <1>1, NumbersStay, SlotsKept
  <2>6. ValueNow(Q, x)' = ValueNow(Q, x)
    BY <2>5, <1>1 DEF ValueNow, ValueOf
  <2>7. \E y \in Int : y = Ord(local[d].next) /\ ValueNow(Q, y)' = ValueNow(Q, y)
    BY <2>3, <2>4, <2>6
  <2> QED BY <2>2, <2>7, <1>1, <1>3, <1>4, <1>5, RemainsSound
<1>6. \A d \in Taking' : consumer'[d] # "index" => ReaderSound(Q, low, d)'
  BY <1>5
<1> QED BY <1>1, <1>2, <1>3, <1>4, <1>6, StepKept

\* Nor any block's owner.
Untouched == /\ ProducerStays /\ UNCHANGED <<entries, blocks, free>>
             /\ Holding' = Holding /\ \A d \in Holding : local'[d].block = local[d].block

LEMMA UntouchedKept ==
    ASSUME Claims, PoolTypes, OpSound, BlocksOwned, Claims', Untouched, CountsStay,
           NEW Q, NEW low, Numbered(Q, low),
           \A d \in Taking' : consumer'[d] # "index" => Remains(d) \/ ReaderSound(Q, low, d)'
    PROVE  ImplicitInv'
<1>1. /\ indexes' = indexes /\ entries' = entries /\ blocks' = blocks /\ free' = free /\ ProducerStays
      /\ Holding' = Holding /\ \A d \in Holding : local'[d].block = local[d].block
  BY DEF Untouched, ProducerStays
<1>2. PoolTypes'
  BY <1>1 DEF PoolTypes, Cap
<1>3. BlocksOwned'
  <2>1. \A e : ValueOf(e)' = ValueOf(e)
    BY <1>1 DEF ValueOf
  <2>2. /\ \A c \in Holding' : /\ local'[c].block \in 1..Len(blocks') /\ local'[c].block \notin free'
                               /\ \A e \in 1..Len(entries') : ValueOf(e)' # local'[c].block
        /\ \A c, d \in Holding' : local'[c].block = local'[d].block => c = d
    BY <2>1, <1>1 DEF BlocksOwned
  <2>3. \A b \in 1..Len(blocks') : \/ b \in free'
                                   \/ \E e \in 1..Len(entries') : ValueOf(e)' = b
                                   \/ \E c \in Holding' : local'[c].block = b
    <3> SUFFICES ASSUME NEW b \in 1..Len(blocks), b \notin free, ~ \E e \in 1..Len(entries) : ValueOf(e) = b
                 PROVE  \E c \in Holding : local'[c].block = b
      BY <2>1, <1>1
    <3>1. PICK c \in Holding : local[c].block = b
      BY DEF BlocksOwned
    <3> QED BY <3>1, <1>1
  <2>4. /\ \A e \in 1..Len(entries') : ValueOf(e)' \in 0..Len(blocks') /\ ValueOf(e)' \notin free'
        /\ \A e, f \in 1..Len(entries') : ValueOf(e)' = ValueOf(f)' /\ ValueOf(e)' # 0 => e = f
    BY <2>1, <1>1 DEF BlocksOwned
  <2> QED BY <2>2, <2>3, <2>4 DEF BlocksOwned
<1> QED BY <1>1, <1>2, <1>3, EntriesStay

-----------------------------------------------------------------------------
\* A consumer with nothing claimed, before and after its step.
Idles(c) == /\ c \in Consumers /\ OthersStay(c) /\ UNCHANGED <<head, taken>>
            /\ consumer[c] \notin TakingPlaces /\ consumer'[c] \notin TakingPlaces

LEMMA IdlesKept ==
    ASSUME Claims, PoolTypes, OpSound, BlocksOwned, ProducerStays, UNCHANGED <<entries, blocks, free>>,
           NEW Q, NEW low, Numbered(Q, low), NEW c, Idles(c), CountInv'
    PROVE  ImplicitInv'
<1>1. CountInv /\ ClaimsApart /\ CopiedOnce /\ ClearsOnce /\ head' = head /\ taken' = taken
  BY DEF Claims, Idles
<1>2. Taking' = Taking /\ \A d \in Taking : Remains(d)
  BY DEF Idles, OthersStay, Taking, TakingPlaces, Remains
<1>3. \A d \in Taking : consumer'[d] = consumer[d] /\ local'[d] = local[d]
  BY <1>2 DEF Remains
<1>4. \A d \in Taking : CountsFrom(d)' = CountsFrom(d) /\ CopiesFrom(d)' = CopiesFrom(d)
  BY <1>2, RemainsIs
<1>5. ClaimsApart'
  BY <1>1, <1>2, <1>3 DEF ClaimsApart
<1>6. CopiedOnce'
  BY <1>1, <1>2, <1>3, <1>4 DEF CopiedOnce
<1>7. ClearsOnce'
  BY <1>1, <1>2, <1>3 DEF ClearsOnce
<1>8. CountsStay
  BY <1>1, <1>2, <1>3, <1>4 DEF CountsStay, CountedOut
<1>9. Holding' = Holding /\ \A d \in Holding : local'[d].block = local[d].block
  <2>1. Holding \subseteq Taking /\ Holding' \subseteq Taking'
    BY DEF Holding, Taking
  <2> QED BY <2>1, <1>2, <1>3 DEF Holding
<1>10. Untouched
  BY <1>9 DEF Untouched
<1>11. Claims'
  BY <1>5, <1>6, <1>7 DEF Claims
<1>12. \A d \in Taking' : Remains(d)
  BY <1>2
<1> QED BY <1>8, <1>10, <1>11, <1>12, UntouchedKept

\* A consumer looks at the counters, or reserves.
Aside(c) == ProducerStays /\ UNCHANGED <<entries, blocks, free>> /\ c \in Consumers

LEMMA LookIdles ==
    ASSUME Claims, PoolTypes, OpSound, BlocksOwned, NEW Q, NEW low, Numbered(Q, low), NEW c, Aside(c),
           NEW max \in Nat \ {0}, Look(c, max)
    PROVE  ImplicitInv' /\ UNCHANGED <<tail, head, taken>>
<1>1. CountInv' /\ c \in Consumers
  BY CountLook DEF Claims, Aside
<1>2. consumer \in [Consumers -> ConsumerPlaces] /\ local \in [Consumers -> Locals]
  BY DEF Claims, CountInv, CountTypes
<1>3. /\ consumer[c] = "idle" /\ consumer' = [consumer EXCEPT ![c] = "reserve"]
      /\ \E r : local' = [local EXCEPT ![c] = r]
      /\ UNCHANGED <<tail, head, taken>>
  BY DEF Look, At, counters
<1>4. OthersStay(c) /\ consumer'[c] = "reserve"
  BY <1>1, <1>2, <1>3 DEF OthersStay
<1>5. Idles(c)
  BY <1>1, <1>3, <1>4 DEF Idles, TakingPlaces
<1> QED BY <1>1, <1>3, <1>5, IdlesKept DEF Aside

LEMMA ReserveIdles ==
    ASSUME Claims, PoolTypes, OpSound, BlocksOwned, NEW Q, NEW low, Numbered(Q, low), NEW c, Aside(c),
           Reserve(c)
    PROVE  ImplicitInv' /\ UNCHANGED <<tail, head, taken>>
<1>1. CountInv' /\ c \in Consumers
  BY CountReserve DEF Claims, Aside
<1>2. consumer \in [Consumers -> ConsumerPlaces] /\ local \in [Consumers -> Locals]
  BY DEF Claims, CountInv, CountTypes
<1>3. /\ consumer[c] = "reserve" /\ consumer' = [consumer EXCEPT ![c] = "claim"]
      /\ local' = [local EXCEPT ![c].mine = optimistic]
      /\ UNCHANGED <<tail, head, taken>>
  BY DEF Reserve, At
<1>4. OthersStay(c) /\ consumer'[c] = "claim"
  BY <1>1, <1>2, <1>3 DEF OthersStay
<1>5. Idles(c)
  BY <1>1, <1>3, <1>4 DEF Idles, TakingPlaces
<1> QED BY <1>1, <1>3, <1>5, IdlesKept DEF Aside

\* A consumer that claims items has them to itself.
Takes(c, h, k) ==
    /\ c \in Consumers /\ OthersStay(c) /\ taken' = taken
    /\ h = head /\ k = head' /\ h \in Nat /\ k \in Nat /\ h < k
    /\ consumer[c] = "claim" /\ consumer'[c] = "index"
    /\ local'[c].next = h /\ local'[c].stop = k

LEMMA TakesIs ==
    ASSUME NEW c, NEW h, NEW k, Takes(c, h, k)
    PROVE  /\ Taking' = Taking \cup {c} /\ c \notin Taking
           /\ \A d \in Taking : Remains(d)
           /\ CountsFrom(c)' = h /\ CopiesFrom(c)' = h
           /\ Holding' = Holding
<1>1. Taking' = Taking \cup {c} /\ c \notin Taking
  BY DEF Takes, Taking, OthersStay
<1>2. \A d \in Taking : Remains(d)
  BY <1>1 DEF Takes, OthersStay, Remains, Taking
<1>3. CountsFrom(c)' = h /\ CopiesFrom(c)' = h
  BY DEF Takes, CountsFrom, CopiesFrom
<1>4. Holding' = Holding
  BY DEF Takes, Holding, OthersStay
<1> QED BY <1>1, <1>2, <1>3, <1>4

LEMMA TakesApart ==
    ASSUME Claims, NEW c, NEW h, NEW k, Takes(c, h, k)
    PROVE  ClaimsApart' /\ ClearsOnce'
<1>1. CountInv /\ ClaimsApart /\ ClearsOnce
  BY DEF Claims
<1>2. Taking' = Taking \cup {c} /\ \A d \in Taking : Remains(d)
  BY TakesIs
<1>3. /\ local'[c].next = h /\ local'[c].stop = k /\ head' = k /\ head = h
      /\ h \in Nat /\ k \in Nat /\ h < k /\ consumer'[c] = "index"
  BY DEF Takes
<1>4. ASSUME NEW d \in Taking
      PROVE  /\ local'[d].next = local[d].next /\ local'[d].stop = local[d].stop
             /\ \E x \in Nat, y \in Nat : x = local[d].next /\ y = local[d].stop /\ x < y /\ y <= h
  <2>1. local'[d] = local[d]
    BY <1>2 DEF Remains
  <2> QED BY <2>1, <1>1, <1>3, TakenBounds
<1>5. \A d \in Taking' : d = c \/ d \in Taking
  BY <1>2
<1>6. ASSUME NEW d \in Taking'
      PROVE  0 <= local'[d].next /\ local'[d].next < local'[d].stop /\ local'[d].stop <= head'
  <2>1. CASE d = c
    BY <2>1, <1>3
  <2>2. CASE d \in Taking
    BY <2>2, <1>3, <1>4
  <2> QED BY <2>1, <2>2, <1>5
<1>7. ASSUME NEW d \in Taking', NEW e \in Taking', d # e
      PROVE  local'[d].stop <= local'[e].next \/ local'[e].stop <= local'[d].next
  <2>1. CASE d = c
    <3>1. e \in Taking
      BY <2>1, <1>5, <1>7
    <3> QED BY <3>1, <2>1, <1>3, <1>4
  <2>2. CASE e = c
    <3>1. d \in Taking
      BY <2>2, <1>5, <1>7
    <3> QED BY <3>1, <2>2, <1>3, <1>4
  <2>3. CASE d # c /\ e # c
    <3>1. d \in Taking /\ e \in Taking
      BY <2>3, <1>5
    <3>2. local[d].stop <= local[e].next \/ local[e].stop <= local[d].next
      BY <3>1, <1>1, <1>7 DEF ClaimsApart
    <3> QED BY <3>1, <3>2, <1>4
  <2> QED BY <2>1, <2>2, <2>3
<1>8. ClaimsApart'
  BY <1>6, <1>7 DEF ClaimsApart
<1>9. ClearsOnce'
  <2>1. \A d \in Taking' : consumer'[d] = "clear" =>
           d \in Taking /\ consumer[d] = "clear" /\ local'[d] = local[d]
    BY <1>2, <1>3, <1>5 DEF Remains
  <2> QED BY <2>1, <1>1 DEF ClearsOnce
<1> QED BY <1>8, <1>9

LEMMA TakesCounts ==
    ASSUME Claims, NEW c, NEW h, NEW k, Takes(c, h, k)
    PROVE  CopiedOnce' /\ CountsStay
<1>1. CountInv /\ CopiedOnce
  BY DEF Claims
<1>2. /\ Taking' = Taking \cup {c} /\ c \notin Taking /\ \A d \in Taking : Remains(d)
      /\ CountsFrom(c)' = h /\ CopiesFrom(c)' = h
  BY TakesIs
<1>3. /\ local'[c].next = h /\ local'[c].stop = k /\ head' = k /\ head = h /\ taken' = taken
      /\ h \in Nat /\ k \in Nat /\ h < k /\ consumer'[c] = "index"
  BY DEF Takes
<1>4. \A d \in Taking : local'[d] = local[d] /\ CountsFrom(d)' = CountsFrom(d) /\ CopiesFrom(d)' = CopiesFrom(d)
  BY <1>2, RemainsIs DEF Remains
<1>5. CopiedOnce'
  <2> SUFFICES ASSUME NEW t \in taken
               PROVE  /\ t[1] \in Nat /\ t[1] < head'
                      /\ \A d \in Taking' : t[1] < CopiesFrom(d)' \/ local'[d].stop <= t[1]
    BY <1>3 DEF CopiedOnce
  <2>1. t[1] \in Nat /\ t[1] < h /\ \A d \in Taking : t[1] < CopiesFrom(d) \/ local[d].stop <= t[1]
    BY <1>1, <1>3 DEF CopiedOnce
  <2>2. ASSUME NEW d \in Taking' PROVE t[1] < CopiesFrom(d)' \/ local'[d].stop <= t[1]
    <3>1. CASE d = c
      BY <3>1, <2>1, <1>2
    <3>2. CASE d \in Taking
      BY <3>2, <2>1, <1>4
    <3> QED BY <3>1, <3>2, <1>2
  <2> QED BY <2>1, <2>2, <1>3
<1>6. CountsStay
  <2> SUFFICES ASSUME NEW i \in Int PROVE CountedOut(i)' <=> CountedOut(i)
    BY DEF CountsStay
  <2>1. CountedOut(i) => CountedOut(i)'
    <3> SUFFICES ASSUME i < h, \A d \in Taking : i < CountsFrom(d) \/ local[d].stop <= i
                 PROVE  i < head' /\ \A d \in Taking' : i < CountsFrom(d)' \/ local'[d].stop <= i
      BY <1>3 DEF CountedOut
    <3> QED BY <1>2, <1>3, <1>4
  <2>2. CountedOut(i)' => CountedOut(i)
    <3> SUFFICES ASSUME i < k, \A d \in Taking' : i < CountsFrom(d)' \/ local'[d].stop <= i
                 PROVE  i < h /\ \A d \in Taking : i < CountsFrom(d) \/ local[d].stop <= i
      BY <1>3 DEF CountedOut
    <3>1. i < h
      BY <1>2, <1>3
    <3> QED BY <3>1, <1>2, <1>4
  <2> QED BY <2>1, <2>2
<1> QED BY <1>5, <1>6

LEMMA ClaimTakes ==
    ASSUME Claims, PoolTypes, OpSound, BlocksOwned, NEW Q, NEW low, Numbered(Q, low), NEW c, Aside(c),
           Claim(c)
    PROVE  /\ ImplicitInv' /\ UNCHANGED <<tail, taken>>
           /\ head' # head => head' \in (head + 1)..tail
<1>1. /\ CountInv' /\ c \in Consumers /\ CountInv /\ ProducerStays /\ UNCHANGED <<entries, blocks, free>>
  BY CountClaim DEF Claims, Aside
<1>2. /\ consumer \in [Consumers -> ConsumerPlaces] /\ local \in [Consumers -> Locals]
      /\ head \in Nat /\ tail \in Nat
  BY <1>1 DEF CountInv, CountTypes
<1>3. PICK a \in Nat : a = Actual(c)
  BY <1>1, ClaimIs
<1>4. consumer[c] = "claim" /\ head' = head + a /\ UNCHANGED <<tail, taken>>
  BY <1>3 DEF Claim
<1>5. head' <= tail
  BY <1>1, <1>4, HeadsNext
<1>6. CASE a = 0
  <2>1. consumer' = [consumer EXCEPT ![c] = "idle"] /\ local' = [local EXCEPT ![c] = NoLocal]
    BY <1>3, <1>6 DEF Claim, Gone
  <2>2. OthersStay(c) /\ consumer'[c] = "idle"
    BY <2>1, <1>1, <1>2 DEF OthersStay
  <2>3. head' = head
    BY <1>2, <1>4, <1>6
  <2>4. Idles(c)
    BY <2>2, <2>3, <1>1, <1>4 DEF Idles, TakingPlaces
  <2> QED BY <2>3, <2>4, <1>1, <1>4, IdlesKept
<1>7. CASE a # 0
  <2>1. PICK h \in Nat, k \in Nat : h = head /\ k = head' /\ h < k
    BY <1>2, <1>4, <1>7
  <2>2. PICK r : r = Claimed(h, k)
    OBVIOUS
  <2>3. consumer' = [consumer EXCEPT ![c] = "index"] /\ local' = [local EXCEPT ![c] = r]
    BY <2>1, <2>2, <1>3, <1>7 DEF Claim, At, Claimed
  <2>4. OthersStay(c) /\ consumer'[c] = "index" /\ local'[c] = r
    BY <2>3, <1>1, <1>2 DEF OthersStay
  <2>5. r.next = h /\ r.stop = k
    BY <2>1, <2>2, ClaimedIs
  <2>6. Takes(c, h, k)
    BY <2>1, <2>4, <2>5, <1>1, <1>4 DEF Takes
  <2>7. ClaimsApart' /\ ClearsOnce' /\ CopiedOnce' /\ CountsStay
    BY <2>6, TakesApart, TakesCounts
  <2>8. Claims'
    BY <2>7, <1>1 DEF Claims
  <2>9. Taking' = Taking \cup {c} /\ Holding' = Holding /\ \A d \in Taking : Remains(d)
    BY <2>6, TakesIs
  <2>10. \A d \in Taking' : consumer'[d] # "index" => Remains(d)
    BY <2>4, <2>9
  <2>11. \A d \in Holding : local'[d].block = local[d].block
    BY <2>9 DEF Holding, Taking, Remains
  <2>12. Untouched
    BY <2>9, <2>11, <1>1 DEF Untouched
  <2>13. ImplicitInv'
    BY <2>7, <2>8, <2>10, <2>12, UntouchedKept
  <2>14. head' \in (head + 1)..tail
    BY <2>1, <1>2, <1>5
  <2> QED BY <2>13, <2>14, <1>4
<1> QED BY <1>6, <1>7

\* A consumer finds the entries of its items, as long as it does not look into
\* another index.
Finds(Q, c) ==
    /\ local[c].header \in 1..Len(indexes)
    /\ \A i \in NeedsFrom(c)..(local[c].stop - 1) : EntryOf(Q, local[c].header, Ord(i)) = EntryNow(Q, Ord(i))

LEMMA FindsStill ==
    ASSUME CountInv, ClaimsApart, PoolTypes, OpSound, ProducerStays, NEW Q \in [Nat -> Int],
           NEW c \in Taking, Finds(Q, c), local'[c].header = local[c].header,
           local'[c].stop = local[c].stop, NeedsFrom(c)' \in Nat, NeedsFrom(c) <= NeedsFrom(c)'
    PROVE  Finds(Q, c)'
<1>1. SameSlots
  BY NumbersStay
<1>2. /\ \A h \in 1..Len(indexes), x \in Int : EntryOf(Q, h, x)' = EntryOf(Q, h, x)
      /\ \A x \in Int : EntryNow(Q, x)' = EntryNow(Q, x)
  BY <1>1, SlotsKept
<1>3. PICK hd \in 1..Len(indexes) : hd = local[c].header
  BY DEF Finds
<1>4. PICK a \in Nat, b \in Nat, e \in Nat, h \in Nat, t \in Nat :
             /\ a = local[c].next /\ b = local[c].stop /\ e = End(c) /\ h = head /\ t = tail
             /\ a < e /\ e <= b /\ b <= h /\ h <= t
  BY TakenBounds
<1>5. PICK m \in Nat, n \in Nat : m = NeedsFrom(c) /\ n = NeedsFrom(c)' /\ m <= n
  <2>1. NeedsFrom(c) \in Nat
    BY <1>4 DEF NeedsFrom
  <2> QED BY <2>1
<1>6. ASSUME NEW i \in n..(b - 1) PROVE EntryOf(Q, hd, Ord(i))' = EntryNow(Q, Ord(i))'
  <2>1. i \in Int /\ i \in m..(b - 1)
    BY <1>5
  <2>2. PICK x \in Int : x = Ord(i)
    BY <2>1, OrdAt
  <2>3. EntryOf(Q, hd, x) = EntryNow(Q, x)
    BY <2>1, <2>2, <1>3, <1>4, <1>5 DEF Finds
  <2>4. EntryOf(Q, hd, x)' = EntryNow(Q, x)'
    <3>1. EntryOf(Q, hd, x)' = EntryOf(Q, hd, x)
      BY <1>2
    <3>2. EntryNow(Q, x)' = EntryNow(Q, x)
      BY <1>2
    <3> QED BY <2>3, <3>1, <3>2
  <2> QED BY <2>2, <2>4
<1>7. hd \in 1..Len(indexes')
  BY <1>1 DEF SameSlots
<1>8. local'[c].header = hd /\ local'[c].stop = b
  BY <1>3, <1>4
<1> QED BY <1>5, <1>6, <1>7, <1>8 DEF Finds

\* A consumer that goes on with its items, and counts none and frees nothing.
LEMMA ContinuesKept ==
    ASSUME Claims, PoolTypes, OpSound, BlocksOwned, NEW Q, NEW low, Numbered(Q, low), NEW c, Aside(c),
           Continues(c), CountsFrom(c)' = CountsFrom(c), CopiedOnce', ReaderSound(Q, low, c)',
           consumer[c] # "free", consumer'[c] \notin {"clear", "free"}
    PROVE  ImplicitInv'
<1>1. /\ CountInv /\ ClaimsApart /\ ClearsOnce /\ ProducerStays /\ UNCHANGED <<entries, blocks, free>>
  BY DEF Claims, Aside
<1>2. /\ CountInv' /\ ClaimsApart' /\ c \in Consumers /\ c \in Taking /\ Taking' = Taking
      /\ \A d \in Taking : d # c => Remains(d)
      /\ ClearsOnce'
  BY <1>1, ContinuesIs
<1>3. CountsStay
  BY <1>1, ContinuesCounts
<1>4. Claims'
  BY <1>2 DEF Claims
<1>5. Holding' = Holding /\ \A d \in Holding : local'[d].block = local[d].block
  <2>1. Holding \subseteq Taking /\ Holding' \subseteq Taking' /\ c \notin Holding /\ c \notin Holding'
    BY DEF Holding, Taking
  <2>2. \A d \in Taking : d # c => consumer'[d] = consumer[d] /\ local'[d] = local[d]
    BY <1>2 DEF Remains
  <2> QED BY <2>1, <2>2, <1>2 DEF Holding
<1>6. Untouched
  BY <1>1, <1>5 DEF Untouched
<1>7. \A d \in Taking' : Remains(d) \/ ReaderSound(Q, low, d)'
  BY <1>2
<1> QED BY <1>3, <1>4, <1>6, <1>7, UntouchedKept

\* The locals of a consumer that has read the index, or its tail, or an entry.
Headed(r, x) == [r EXCEPT !.header = x]
Slotted(r, x) == [r EXCEPT !.slot = x]
Handed(r, x) == [r EXCEPT !.block = x]

LEMMA ReadIs ==
    ASSUME NEW r \in Locals, NEW x \in Int
    PROVE  /\ Headed(r, x) \in Locals /\ Headed(r, x).header = x
           /\ Slotted(r, x) \in Locals /\ Slotted(r, x).header = r.header /\ Slotted(r, x).slot = x
           /\ Handed(r, x) \in Locals /\ Handed(r, x).header = r.header
           /\ Handed(r, x).slot = r.slot /\ Handed(r, x).block = x
           /\ Headed(r, x).next = r.next /\ Headed(r, x).stop = r.stop
           /\ Slotted(r, x).next = r.next /\ Slotted(r, x).stop = r.stop
           /\ Handed(r, x).next = r.next /\ Handed(r, x).stop = r.stop
BY DEF Locals, Headed, Slotted, Handed

\* The steps before it copies.
Steps(c, from, to, r) ==
    /\ c \in Consumers /\ consumer[c] = from /\ consumer' = [consumer EXCEPT ![c] = to]
    /\ local' = [local EXCEPT ![c] = r] /\ r \in Locals
    /\ UNCHANGED <<tail, head, optimistic, overcommit>>
    /\ from \in TakingPlaces /\ to \in TakingPlaces

LEMMA StepsIs ==
    ASSUME CountInv, NEW c, NEW from, NEW to, NEW r, Steps(c, from, to, r),
           r.next = local[c].next, r.stop = local[c].stop
    PROVE  /\ Continues(c) /\ c \in Taking /\ local'[c] = r /\ consumer[c] = from /\ consumer'[c] = to
           /\ End(c)' = End(c)
<1>1. /\ consumer \in [Consumers -> ConsumerPlaces] /\ local \in [Consumers -> Locals] /\ c \in Consumers
  BY DEF CountInv, CountTypes, Steps
<1>2. /\ consumer[c] = from /\ consumer' = [consumer EXCEPT ![c] = to]
      /\ local' = [local EXCEPT ![c] = r] /\ r \in Locals
      /\ UNCHANGED <<tail, head, optimistic, overcommit>>
      /\ from \in TakingPlaces /\ to \in TakingPlaces
  BY DEF Steps
<1>3. local'[c] = r /\ consumer'[c] = to /\ OthersStay(c)
  BY <1>1, <1>2 DEF OthersStay
<1>4. c \in Taking
  BY <1>1, <1>2 DEF Taking, TakingPlaces
<1>5. to \in ConsumerPlaces
  BY <1>2 DEF TakingPlaces, ConsumerPlaces
<1>6. consumer' \in [Consumers -> ConsumerPlaces] /\ local' \in [Consumers -> Locals]
  BY <1>1, <1>2, <1>5
<1>7. Moves(c)
  BY <1>2, <1>3, <1>4, <1>6 DEF Moves
<1>8. Continues(c)
  BY <1>2, <1>3, <1>7 DEF Continues
<1>9. End(c)' = End(c)
  BY <1>3 DEF End
<1> QED BY <1>2, <1>3, <1>4, <1>8, <1>9

\* What a consumer's own step leaves alone.
LEMMA AsideIs ==
    ASSUME NEW c \in Consumers,
           UNCHANGED <<tail, blocks, free, entries, indexes, tailBlock, producer, op>>
    PROVE  Aside(c) /\ ProducerStays
BY DEF Aside, ProducerStays

\* Reading the index.
LEMMA LoadIndexKept ==
    ASSUME Claims, PoolTypes, OpSound, BlocksOwned, NEW Q, NEW low, Numbered(Q, low),
           NEW c \in Consumers, Implicit!LoadIndex(c)
    PROVE  ImplicitInv' /\ UNCHANGED <<tail, head, taken>>
<1>1. /\ CountInv /\ ClaimsApart /\ CopiedOnce /\ ClearsOnce /\ local \in [Consumers -> Locals]
  BY DEF Claims, CountInv, CountTypes
<1>2. /\ consumer[c] = "index" /\ consumer' = [consumer EXCEPT ![c] = "tail"]
      /\ local' = [local EXCEPT ![c].header = Len(indexes)]
      /\ UNCHANGED <<tail, head, optimistic, overcommit, blocks, free, entries, indexes, tailBlock,
                     producer, op, taken>>
  BY DEF Implicit!LoadIndex, Implicit!At, Implicit!counters, Implicit!pool, Implicit!index,
         Implicit!enqueuing, Implicit!Current
<1>3. PICK n \in 1..Len(indexes) : n = Len(indexes) /\ n \in Int
  BY LastIs
<1>4. PICK r \in Locals : /\ r = Headed(local[c], n) /\ r.header = n
                          /\ r.next = local[c].next /\ r.stop = local[c].stop
  <2>1. n \in Int /\ local[c] \in Locals
    BY <1>1, <1>3
  <2> QED BY <2>1, ReadIs
<1>5. local' = [local EXCEPT ![c] = r]
  BY <1>1, <1>2, <1>3, <1>4 DEF Headed
<1>6. Steps(c, "index", "tail", r)
  BY <1>2, <1>4, <1>5 DEF Steps, TakingPlaces
<1>7. Continues(c) /\ c \in Taking /\ local'[c] = r /\ consumer'[c] = "tail"
  BY <1>1, <1>4, <1>6, StepsIs
<1>8. Aside(c)
  BY <1>2, AsideIs
<1>9. CountsFrom(c)' = CountsFrom(c) /\ CopiesFrom(c)' = CopiesFrom(c)
  BY <1>2, <1>4, <1>7 DEF CountsFrom, CopiesFrom
<1>10. CopiedOnce'
  BY <1>1, <1>2, <1>7, <1>9, ContinuesCopies
<1>11. ReaderSound(Q, low, c)'
  <2>1. n \in 1..Len(indexes') /\ n = Len(indexes')
    BY <1>2, <1>3
  <2>2. \A x : EntryOf(Q, n, x)' = EntryNow(Q, x)'
    BY <2>1 DEF EntryNow, EntryOf, SlotOf, Cap
  <2> QED BY <2>1, <2>2, <1>4, <1>7 DEF ReaderSound
<1> QED BY <1>2, <1>7, <1>8, <1>9, <1>10, <1>11, ContinuesKept

\* Each tail that a consumer can read leads to an entry with a key.
LEMMA TailHasKey ==
    ASSUME CountInv, ClaimsApart, PoolTypes, OpSound, NEW Q, NEW low, IndexSound(Q, low),
           NEW c \in Taking, CountsFrom(c) = local[c].next, NEW hd \in 1..Len(indexes)
    PROVE  /\ indexes[hd].tail \in 0..(Cap(hd) - 1)
           /\ KeyOf(indexes[hd].index[indexes[hd].tail]) # -1
<1>1. Q \in [Nat -> Int] /\ low \in Nat /\ TailsRight(Q) /\ OverBelow(low) /\ KeysShown(Q, low)
  BY DEF IndexSound
<1>2. indexes[hd].tail \in 0..(Cap(hd) - 1)
  BY IndexIs
<1>3. CASE hd # Len(indexes)
  <2>1. hd \in 1..(Len(indexes) - 1)
    BY <1>3, LastIs
  <2> QED BY <2>1, <1>1, <1>2 DEF TailsRight
<1>4. CASE hd = Len(indexes)
  <2>1. PICK a \in Nat, b \in Nat : a = local[c].next /\ b = local[c].stop /\ a < b
    BY TakenBounds
  <2>2. Ord(a) \in low..Ord(tail - 1)
    <3>1. a \in Nat /\ CountsFrom(c) <= a /\ a < local[c].stop
      BY <2>1
    <3> QED BY <3>1, <1>1, NextAhead
  <2>3. PICK x \in Int, t \in Int, p \in Int, k \in Int :
          x = ShownNo /\ t = Ord(tail - 1) /\ p = TopNo /\ k = KeyedNo /\ t <= p
    BY NumbersAre
  <2>4. p <= x /\ x <= k
    BY <2>3 DEF ShownNo, KeyedNo
  <2>5. x \in low..k
    BY <2>2, <2>3, <2>4, <1>1
  <2>6. KeyOf(EntryNow(Q, x)) = First(x)
    BY <2>3, <2>5, <1>1 DEF KeysShown
  <2>7. First(x) # -1
    BY FirstKey
  <2>8. indexes[hd].tail = SlotOf(Q, hd, x)
    BY <1>1, <1>4, <2>3 DEF TailsRight
  <2>9. indexes[hd].index[indexes[hd].tail] = EntryNow(Q, x)
    BY <2>8, <1>4 DEF EntryNow, EntryOf
  <2> QED BY <2>6, <2>7, <2>9, <1>2
<1> QED BY <1>3, <1>4

\* Reading its tail.
LEMMA LoadTailKept ==
    ASSUME Claims, PoolTypes, OpSound, BlocksOwned, NEW Q, NEW low, Numbered(Q, low),
           NEW c \in Consumers, Implicit!LoadTail(c)
    PROVE  ImplicitInv' /\ UNCHANGED <<tail, head, taken>>
<1>1. /\ CountInv /\ ClaimsApart /\ CopiedOnce /\ ClearsOnce /\ local \in [Consumers -> Locals]
      /\ IndexSound(Q, low) /\ ReadersSound(Q, low) /\ Q \in [Nat -> Int]
  BY DEF Claims, CountInv, CountTypes, Numbered, IndexSound
<1>2. /\ consumer[c] = "tail" /\ consumer' = [consumer EXCEPT ![c] = "key"]
      /\ local' = [local EXCEPT ![c].slot = indexes[local[c].header].tail]
      /\ UNCHANGED <<tail, head, optimistic, overcommit, blocks, free, entries, indexes, tailBlock,
                     producer, op, taken>>
  BY DEF Implicit!LoadTail, Implicit!At, Implicit!counters, Implicit!pool, Implicit!index,
         Implicit!enqueuing
<1>3. c \in Taking /\ CountsFrom(c) = local[c].next
  BY <1>2 DEF Taking, CountsFrom
<1>4. ReaderSound(Q, low, c) /\ Finds(Q, c)
  BY <1>1, <1>2, <1>3 DEF ReadersSound, ReaderSound, Finds
<1>5. PICK hd \in 1..Len(indexes) : hd = local[c].header
  BY <1>4 DEF Finds
<1>6. /\ indexes[hd].tail \in 0..(Cap(hd) - 1)
      /\ KeyOf(indexes[hd].index[indexes[hd].tail]) # -1
  BY <1>1, <1>3, TailHasKey
<1>7. PICK s \in Nat : s = indexes[hd].tail /\ s \in 0..(Cap(hd) - 1) /\ KeyOf(indexes[hd].index[s]) # -1
  BY <1>6
<1>8. PICK r \in Locals : /\ r = Slotted(local[c], s) /\ r.header = hd /\ r.slot = s
                          /\ r.next = local[c].next /\ r.stop = local[c].stop
  <2>1. s \in Int /\ local[c] \in Locals
    BY <1>1
  <2> QED BY <2>1, <1>5, ReadIs
<1>9. local' = [local EXCEPT ![c] = r]
  BY <1>1, <1>2, <1>5, <1>7, <1>8 DEF Slotted
<1>10. Steps(c, "tail", "key", r)
  BY <1>2, <1>8, <1>9 DEF Steps, TakingPlaces
<1>11. Continues(c) /\ local'[c] = r /\ consumer'[c] = "key"
  BY <1>1, <1>8, <1>10, StepsIs
<1>12. Aside(c) /\ ProducerStays
  BY <1>2, AsideIs
<1>13. CountsFrom(c)' = CountsFrom(c) /\ CopiesFrom(c)' = CopiesFrom(c) /\ NeedsFrom(c)' = NeedsFrom(c)
  BY <1>2, <1>8, <1>11 DEF CountsFrom, CopiesFrom, NeedsFrom
<1>14. CopiedOnce'
  BY <1>1, <1>2, <1>11, <1>13, ContinuesCopies
<1>15. Finds(Q, c)'
  <2>1. NeedsFrom(c) \in Nat
    <3>1. NeedsFrom(c) = local[c].next
      BY <1>2 DEF NeedsFrom
    <3> QED BY <3>1, <1>1, <1>3, TakenBounds
  <2>2. NeedsFrom(c)' \in Nat /\ NeedsFrom(c) <= NeedsFrom(c)'
    BY <2>1, <1>13
  <2>3. local'[c].header = local[c].header /\ local'[c].stop = local[c].stop
    BY <1>5, <1>8, <1>11
  <2> QED BY <2>2, <2>3, <1>1, <1>3, <1>4, <1>12, FindsStill
<1>16. ReaderSound(Q, low, c)'
  <2>1. s \in 0..(Cap(hd)' - 1)
    BY <1>2, <1>7 DEF Cap
  <2>2. KeyOf(indexes[hd].index[s])' # -1
    BY <1>2, <1>7 DEF KeyOf
  <2>3. local'[c].header = hd /\ local'[c].slot = s /\ consumer'[c] = "key"
    BY <1>8, <1>11
  <2> QED BY <2>1, <2>2, <2>3, <1>15 DEF ReaderSound, Finds
<1> QED BY <1>2, <1>11, <1>12, <1>13, <1>14, <1>16, ContinuesKept

\* From the key of an entry and the slot where it was found, to the slot of
\* the item looked for.
LEMMA KeyLeads ==
    ASSUME PoolTypes, NEW Q \in [Nat -> Int], SlotsRight(Q), KeysRight(Q), NEW hd \in 1..Len(indexes),
           NEW s \in 0..(Cap(hd) - 1), KeyOf(indexes[hd].index[s]) # -1, NEW a \in Nat
    PROVE  (s + ((Base(a) - KeyOf(indexes[hd].index[s])) \div BlockSize)) % Cap(hd) = SlotOf(Q, hd, Ord(a))
<1>1. PICK f \in 1..Len(entries) : f = indexes[hd].index[s]
  BY IndexIs
<1>2. PICK x \in Int : KeyOf(f) = First(x) /\ f = EntryNow(Q, x)
  BY <1>1 DEF KeysRight
<1>3. s = SlotOf(Q, hd, x)
  BY <1>1, <1>2 DEF SlotsRight
<1>4. PICK n \in Nat : n = Cap(hd) /\ n >= 1
  BY IndexIs
<1>5. PICK y \in Int : y = Ord(a) /\ Base(a) = First(y)
  <2>1. a \in Int
    OBVIOUS
  <2> QED BY <2>1, OrdIs
<1>6. (First(y) - First(x)) \div BlockSize = y - x
  BY OrdHops
<1>7. (Base(a) - KeyOf(indexes[hd].index[s])) \div BlockSize = y - x
  BY <1>1, <1>2, <1>5, <1>6
<1>8. PICK k \in Int : k = Q[hd]
  <2>1. hd \in Nat
    BY LastIs
  <2> QED BY <2>1
<1>9. s = (x + k) % n
  BY <1>3, <1>4, <1>8 DEF SlotOf
<1>10. (s + (y - x)) % n = (y + k) % n
  <2>1. PICK z \in Int, d \in Int, w \in Int : z = x + k /\ d = y - x /\ w = y + k
    OBVIOUS
  <2>2. ((z % n) + d) % n = (z + d) % n
    BY <1>4, SlotAdd
  <2>3. z + d = w
    BY <2>1
  <2> QED BY <2>1, <2>2, <2>3, <1>9
<1>11. SlotOf(Q, hd, y) = (y + k) % n
  BY <1>4, <1>8 DEF SlotOf
<1>12. (s + ((Base(a) - KeyOf(indexes[hd].index[s])) \div BlockSize)) % Cap(hd) = (s + (y - x)) % n
  BY <1>4, <1>7
<1> QED BY <1>5, <1>10, <1>11, <1>12

\* Reading the key at the tail.
LEMMA LoadKeyKept ==
    ASSUME Claims, PoolTypes, OpSound, BlocksOwned, NEW Q, NEW low, Numbered(Q, low),
           NEW c \in Consumers, Implicit!LoadKey(c)
    PROVE  ImplicitInv' /\ UNCHANGED <<tail, head, taken>>
<1>1. /\ CountInv /\ ClaimsApart /\ CopiedOnce /\ ClearsOnce /\ local \in [Consumers -> Locals]
      /\ IndexSound(Q, low) /\ ReadersSound(Q, low) /\ Q \in [Nat -> Int] /\ SlotsRight(Q) /\ KeysRight(Q)
  BY DEF Claims, CountInv, CountTypes, Numbered, IndexSound
<1>2. /\ consumer[c] = "key" /\ consumer' = [consumer EXCEPT ![c] = "copy"]
      /\ UNCHANGED <<tail, head, optimistic, overcommit, blocks, free, entries, indexes, tailBlock,
                     producer, op, taken>>
  BY DEF Implicit!LoadKey, Implicit!At, Implicit!counters, Implicit!pool, Implicit!index,
         Implicit!enqueuing
<1>3. c \in Taking /\ CountsFrom(c) = local[c].next
  BY <1>2 DEF Taking, CountsFrom
<1>4. ReaderSound(Q, low, c) /\ Finds(Q, c)
  BY <1>1, <1>2, <1>3 DEF ReadersSound, ReaderSound, Finds
<1>5. PICK hd \in 1..Len(indexes) : hd = local[c].header
  BY <1>4 DEF Finds
<1>6. PICK s \in Int : s = local[c].slot /\ s \in 0..(Cap(hd) - 1) /\ KeyOf(indexes[hd].index[s]) # -1
  BY <1>2, <1>4, <1>5, IndexIs DEF ReaderSound
<1>7. PICK a \in Nat : a = local[c].next
  BY <1>1, <1>3, TakenBounds
<1>8. PICK w : w = (s + ((Base(a) - KeyOf(indexes[hd].index[s])) \div BlockSize)) % Cap(hd)
  OBVIOUS
<1>9. w = SlotOf(Q, hd, Ord(a))
  BY <1>1, <1>6, <1>8, KeyLeads
<1>10. w \in Int
  <2>1. a \in Int
    OBVIOUS
  <2>2. PICK y \in Int : y = Ord(a)
    BY <2>1, OrdAt
  <2>3. SlotOf(Q, hd, y) \in 0..(Cap(hd) - 1)
    BY <1>1, EntryIs
  <2>4. Cap(hd) \in Nat
    BY IndexIs
  <2> QED BY <1>9, <2>2, <2>3, <2>4
<1>11. local' = [local EXCEPT ![c].slot = w]
  BY <1>5, <1>6, <1>7, <1>8, SharedBase DEF Implicit!LoadKey, KeyOf, Cap
<1>12. PICK r \in Locals : /\ r = Slotted(local[c], w) /\ r.header = hd /\ r.slot = w
                           /\ r.next = local[c].next /\ r.stop = local[c].stop
  <2>1. local[c] \in Locals
    BY <1>1
  <2> QED BY <2>1, <1>5, <1>10, ReadIs
<1>13. local' = [local EXCEPT ![c] = r]
  BY <1>1, <1>11, <1>12 DEF Slotted
<1>14. Steps(c, "key", "copy", r)
  BY <1>2, <1>12, <1>13 DEF Steps, TakingPlaces
<1>15. Continues(c) /\ local'[c] = r /\ consumer'[c] = "copy"
  BY <1>1, <1>12, <1>14, StepsIs
<1>16. Aside(c) /\ ProducerStays
  BY <1>2, AsideIs
<1>17. CountsFrom(c)' = CountsFrom(c) /\ CopiesFrom(c)' = CopiesFrom(c) /\ NeedsFrom(c)' = NeedsFrom(c)
  BY <1>2, <1>12, <1>15 DEF CountsFrom, CopiesFrom, NeedsFrom
<1>18. CopiedOnce'
  BY <1>1, <1>2, <1>15, <1>17, ContinuesCopies
<1>19. Finds(Q, c)'
  <2>1. NeedsFrom(c) \in Nat
    BY <1>2, <1>7 DEF NeedsFrom
  <2>2. NeedsFrom(c)' \in Nat /\ NeedsFrom(c) <= NeedsFrom(c)'
    BY <2>1, <1>17
  <2>3. local'[c].header = local[c].header /\ local'[c].stop = local[c].stop
    BY <1>5, <1>12, <1>15
  <2> QED BY <2>2, <2>3, <1>1, <1>3, <1>4, <1>16, FindsStill
<1>20. ReaderSound(Q, low, c)'
  <2>1. w = SlotOf(Q, hd, Ord(a))'
    BY <1>2, <1>9 DEF SlotOf, Cap
  <2>2. local'[c].header = hd /\ local'[c].slot = w /\ local'[c].next = a /\ consumer'[c] = "copy"
    BY <1>7, <1>12, <1>15
  <2> QED BY <2>1, <2>2, <1>19 DEF ReaderSound, Finds
<1> QED BY <1>2, <1>15, <1>16, <1>17, <1>18, <1>20, ContinuesKept

\* A consumer at the slot of its next item finds the entry of its number.
LEMMA EntryFound ==
    ASSUME CountInv, ClaimsApart, NEW Q, NEW c \in Taking, Finds(Q, c), NeedsFrom(c) = local[c].next,
           local[c].slot = SlotOf(Q, local[c].header, Ord(local[c].next))
    PROVE  Implicit!Entry(c) = EntryNow(Q, Ord(local[c].next))
<1>1. PICK a \in Nat, b \in Nat : a = local[c].next /\ b = local[c].stop /\ a < b
  BY TakenBounds
<1>2. a \in NeedsFrom(c)..(local[c].stop - 1)
  BY <1>1
<1>3. EntryOf(Q, local[c].header, Ord(a)) = EntryNow(Q, Ord(a))
  BY <1>2 DEF Finds
<1>4. Implicit!Entry(c) = EntryOf(Q, local[c].header, Ord(a))
  BY <1>1 DEF Implicit!Entry, EntryOf
<1> QED BY <1>1, <1>3, <1>4

\* The block there is not taken as long as an item is not counted.
LEMMA BlockThere ==
    ASSUME CountInv, ClaimsApart, PoolTypes, OpSound, NEW Q, NEW low, IndexSound(Q, low),
           EmptyOver(Q, low), NEW c \in Taking, CountsFrom(c) = local[c].next, NEW x \in Int,
           NEW a \in Nat, a = local[c].next, Ord(a) = x
    PROVE  /\ x \in low..Ord(tail - 1) /\ x \in low..TopNo /\ a \in ItemsOf(x) /\ ~ CountedOut(a)
           /\ ValueNow(Q, x) # 0 /\ ValueNow(Q, x) \in Nat /\ EntryNow(Q, x) \in 1..Len(entries)
<1>1. Q \in [Nat -> Int] /\ low \in Nat /\ OverBelow(low)
  BY DEF IndexSound
<1>2. a < local[c].stop /\ CountsFrom(c) <= a
  BY TakenBounds
<1>3. ~ CountedOut(a) /\ x \in low..Ord(tail - 1)
  BY <1>1, <1>2, NextAhead
<1>4. PICK t \in Int, p \in Int : t = Ord(tail - 1) /\ p = TopNo /\ t <= p
  BY NumbersAre
<1>5. x \in low..p
  BY <1>1, <1>3, <1>4
<1>6. a \in ItemsOf(x)
  <2>1. a \in Int
    OBVIOUS
  <2> QED BY <2>1, ItemsIs
<1>7. ~ Over(x)
  BY <1>3, <1>6 DEF Over
<1>8. ValueNow(Q, x) # 0
  BY <1>4, <1>5, <1>7 DEF EmptyOver
<1>9. ValueNow(Q, x) \in Nat /\ EntryNow(Q, x) \in 1..Len(entries)
  BY <1>1, EntryNowIs
<1> QED BY <1>3, <1>4, <1>5, <1>6, <1>8, <1>9

\* It has the items that the consumer claimed.
LEMMA ItemsThere ==
    ASSUME CountInv, ClaimsApart, OpSound, NEW Q, NEW low, CellsRight(Q, low), NEW c \in Taking,
           NEW x \in Int, x = Ord(local[c].next), x \in low..TopNo, ValueNow(Q, x) # 0
    PROVE  \A i \in InBlock(c) : blocks[ValueNow(Q, x)].cells[i % BlockSize] = i + 1
<1>1. PICK a \in Nat, b \in Nat, e \in Nat, h \in Nat, t \in Nat :
             /\ a = local[c].next /\ b = local[c].stop /\ e = End(c) /\ h = head /\ t = tail
             /\ a < e /\ e <= b /\ b <= h /\ h <= t /\ InBlock(c) = a..(e - 1)
             /\ \A i \in a..(e - 1) : Ord(i) = Ord(a)
  BY TakenBounds
<1> SUFFICES ASSUME NEW i \in a..(e - 1)
             PROVE  blocks[ValueNow(Q, x)].cells[i % BlockSize] = i + 1
  BY <1>1
<1>2. i \in Int /\ i < t /\ Ord(i) = x
  BY <1>1
<1>3. PICK o \in Offsets : i = First(x) + o /\ i % BlockSize = o
  BY <1>2, ItemsIs
<1>4. First(x) + o < tail
  BY <1>1, <1>2, <1>3
<1>5. blocks[ValueNow(Q, x)].cells[o] = First(x) + o + 1
  BY <1>4 DEF CellsRight
<1> QED BY <1>3, <1>5

\* What a consumer copies out is what it has claimed, and nobody has copied it.
LEMMA Copied ==
    ASSUME CountInv, ClaimsApart, CopiedOnce, NEW c \in Taking, CopiesFrom(c) = local[c].next,
           taken' = taken \cup { <<i, i + 1>> : i \in InBlock(c) }, head' = head
    PROVE  Delivers(c)
<1>1. PICK a \in Nat, b \in Nat, e \in Nat, h \in Nat :
             /\ a = local[c].next /\ b = local[c].stop /\ e = End(c) /\ h = head
             /\ a < e /\ e <= b /\ b <= h /\ InBlock(c) = a..(e - 1)
  BY TakenBounds
<1>2. taken' = taken \cup { <<i, i + 1>> : i \in a..(e - 1) }
  BY <1>1
<1>3. \A t \in taken : t[1] \in Nat /\ t[1] < h /\ (t[1] < a \/ b <= t[1])
  BY <1>1 DEF CopiedOnce
<1>4. <<a, a + 1>> \in taken'
  <2>1. a \in a..(e - 1)
    BY <1>1
  <2> QED BY <2>1, <1>2
<1>5. <<a, a + 1>> \notin taken
  <2>1. <<a, a + 1>>[1] = a
    OBVIOUS
  <2> QED BY <2>1, <1>1, <1>3
<1>6. ASSUME NEW d \in taken' \ taken
      PROVE  d[1] \in 0..(head - 1) /\ d[2] = d[1] + 1 /\ \A t \in taken : t[1] # d[1]
  <2>1. PICK i \in a..(e - 1) : d = <<i, i + 1>>
    BY <1>6, <1>2
  <2>2. d[1] = i /\ d[2] = i + 1
    BY <2>1
  <2>3. i \in 0..(head - 1) /\ a <= i /\ i < b
    BY <1>1
  <2>4. ASSUME NEW t \in taken PROVE t[1] # i
    BY <2>3, <1>1, <1>3
  <2> QED BY <2>2, <2>3, <2>4
<1> QED BY <1>2, <1>4, <1>5, <1>6 DEF Delivers

LEMMA CopiedNow ==
    ASSUME Claims, NEW c \in Taking, consumer[c] = "copy", Continues(c), consumer'[c] = "count",
           taken' = taken \cup { <<i, i + 1>> : i \in InBlock(c) }
    PROVE  CopiedOnce' /\ Delivers(c) /\ head' = head /\ CountsFrom(c)' = CountsFrom(c)
<1>1. CountInv /\ ClaimsApart /\ CopiedOnce /\ ClearsOnce
  BY DEF Claims
<1>2. /\ Taking' = Taking /\ head' = head /\ \A d \in Taking : d # c => Remains(d)
      /\ \A d \in Taking : local'[d].next = local[d].next /\ local'[d].stop = local[d].stop /\ End(d)' = End(d)
  BY <1>1, ContinuesIs
<1>3. CopiesFrom(c) = local[c].next /\ CopiesFrom(c)' = End(c) /\ CountsFrom(c)' = CountsFrom(c)
  BY <1>2 DEF CopiesFrom, CountsFrom
<1>4. Delivers(c)
  BY <1>1, <1>2, <1>3, Copied
<1>5. PICK a \in Nat, b \in Nat, e \in Nat, h \in Nat :
             /\ a = local[c].next /\ b = local[c].stop /\ e = End(c) /\ h = head
             /\ a < e /\ e <= b /\ b <= h /\ InBlock(c) = a..(e - 1)
  BY <1>1, TakenBounds
<1>6. \A d \in Taking : d # c => CopiesFrom(d)' = CopiesFrom(d)
  BY <1>2, RemainsIs
<1>7. ASSUME NEW t \in taken
      PROVE  /\ t[1] \in Nat /\ t[1] < head
             /\ \A d \in Taking : t[1] < CopiesFrom(d)' \/ local'[d].stop <= t[1]
  <2>1. /\ t[1] \in Nat /\ t[1] < head
        /\ \A d \in Taking : t[1] < CopiesFrom(d) \/ local[d].stop <= t[1]
    BY <1>1 DEF CopiedOnce
  <2>2. ASSUME NEW d \in Taking PROVE t[1] < CopiesFrom(d)' \/ local'[d].stop <= t[1]
    <3>1. t[1] < CopiesFrom(d) \/ local[d].stop <= t[1]
      BY <2>1
    <3>2. CASE d = c
      <4>1. t[1] < a \/ b <= t[1]
        BY <3>1, <3>2, <1>3, <1>5
      <4>2. t[1] < e \/ b <= t[1]
        BY <4>1, <2>1, <1>5
      <4> QED BY <4>2, <3>2, <1>2, <1>3, <1>5
    <3>3. CASE d # c
      BY <3>1, <3>3, <1>2, <1>6
    <3> QED BY <3>2, <3>3
  <2> QED BY <2>1, <2>2
<1>8. ASSUME NEW i \in a..(e - 1), NEW d \in Taking
      PROVE  i < CopiesFrom(d)' \/ local'[d].stop <= i
  <2>1. i \in Nat /\ a <= i /\ i < e /\ i < b
    BY <1>5
  <2>2. CASE d = c
    BY <2>1, <2>2, <1>3, <1>5
  <2>3. CASE d # c
    <3>1. PICK x \in Nat, y \in Nat, z \in Nat : x = local[d].next /\ y = local[d].stop /\ z = End(d) /\ x < z
      BY <1>1, TakenBounds
    <3>2. b <= x \/ y <= a
      BY <2>3, <3>1, <1>1, <1>5 DEF ClaimsApart
    <3>3. CopiesFrom(d) = x \/ CopiesFrom(d) = z
      BY <3>1 DEF CopiesFrom
    <3>4. i < CopiesFrom(d) \/ y <= i
      BY <2>1, <3>1, <3>2, <3>3
    <3> QED BY <3>1, <3>4, <2>3, <1>2, <1>6
  <2> QED BY <2>2, <2>3
<1>9. CopiedOnce'
  <2> SUFFICES ASSUME NEW t \in taken'
               PROVE  /\ t[1] \in Nat /\ t[1] < head
                      /\ \A d \in Taking : t[1] < CopiesFrom(d)' \/ local'[d].stop <= t[1]
    BY <1>2 DEF CopiedOnce
  <2>1. CASE t \in taken
    BY <2>1, <1>7
  <2>2. CASE t \notin taken
    <3>1. PICK i \in a..(e - 1) : t = <<i, i + 1>>
      BY <2>2, <1>5
    <3>2. t[1] = i /\ i \in Nat /\ i < head
      BY <3>1, <1>5
    <3> QED BY <3>2, <1>8
  <2> QED BY <2>1, <2>2
<1> QED BY <1>2, <1>3, <1>4, <1>9

\* Copying the items of a block.
LEMMA CopyItems ==
    ASSUME Claims, PoolTypes, OpSound, BlocksOwned, NEW Q, NEW low, Numbered(Q, low),
           NEW c \in Consumers, Implicit!Copy(c)
    PROVE  ImplicitInv' /\ UNCHANGED <<tail, head>> /\ Delivers(c)
<1>1. /\ CountInv /\ ClaimsApart /\ CopiedOnce /\ ClearsOnce /\ local \in [Consumers -> Locals]
      /\ IndexSound(Q, low) /\ ReadersSound(Q, low) /\ Q \in [Nat -> Int]
      /\ EmptyOver(Q, low) /\ CellsRight(Q, low)
  BY DEF Claims, CountInv, CountTypes, Numbered, IndexSound, BlocksSound
<1>2. /\ consumer[c] = "copy" /\ consumer' = [consumer EXCEPT ![c] = "count"]
      /\ UNCHANGED <<tail, head, optimistic, overcommit, blocks, free, entries, indexes, tailBlock,
                     producer, op>>
  BY DEF Implicit!Copy, Implicit!At, Implicit!counters, Implicit!pool, Implicit!index,
         Implicit!enqueuing
<1>3. c \in Taking /\ CountsFrom(c) = local[c].next /\ NeedsFrom(c) = local[c].next
  BY <1>2 DEF Taking, CountsFrom, NeedsFrom
<1>4. /\ ReaderSound(Q, low, c) /\ Finds(Q, c)
      /\ local[c].slot = SlotOf(Q, local[c].header, Ord(local[c].next))
  BY <1>1, <1>2, <1>3 DEF ReadersSound, ReaderSound, Finds
<1>5. PICK a \in Nat : a = local[c].next
  BY <1>1, <1>3, TakenBounds
<1>6. PICK x \in Int : x = Ord(a)
  <2>1. a \in Int
    OBVIOUS
  <2> QED BY <2>1, OrdAt
<1>7. x \in low..TopNo /\ ValueNow(Q, x) # 0 /\ ValueNow(Q, x) \in Nat
  BY <1>1, <1>3, <1>5, <1>6, BlockThere
<1>8. PICK v \in Nat : v = ValueNow(Q, x) /\ v # 0
  BY <1>7
<1>9. entries[Implicit!Entry(c)].value = v
  <2>1. Implicit!Entry(c) = EntryNow(Q, Ord(local[c].next))
    BY <1>1, <1>3, <1>4, EntryFound
  <2> QED BY <2>1, <1>5, <1>6, <1>8 DEF ValueNow, ValueOf
<1>10. taken' = taken \cup { <<i, i + 1>> : i \in InBlock(c) }
  <2>1. \A i \in InBlock(c) : blocks[v].cells[i % BlockSize] = i + 1
    BY <1>1, <1>3, <1>5, <1>6, <1>7, <1>8, ItemsThere
  <2>2. taken' = taken \cup { <<i, blocks[v].cells[i % BlockSize]>> : i \in InBlock(c) }
    BY <1>8, <1>9, SharedBase DEF Implicit!Copy, Implicit!NoBlock
  <2> QED BY <2>1, <2>2
<1>11. local' = [local EXCEPT ![c].block = v]
  BY <1>9 DEF Implicit!Copy
<1>12. PICK r \in Locals : /\ r = Handed(local[c], v) /\ r.header = local[c].header /\ r.slot = local[c].slot
                           /\ r.block = v /\ r.next = local[c].next /\ r.stop = local[c].stop
  <2>1. local[c] \in Locals /\ v \in Int
    BY <1>1
  <2> QED BY <2>1, ReadIs
<1>13. local' = [local EXCEPT ![c] = r]
  BY <1>1, <1>11, <1>12 DEF Handed
<1>14. Steps(c, "copy", "count", r)
  BY <1>2, <1>12, <1>13 DEF Steps, TakingPlaces
<1>15. Continues(c) /\ local'[c] = r /\ consumer'[c] = "count"
  BY <1>1, <1>12, <1>14, StepsIs
<1>16. Aside(c) /\ ProducerStays
  BY <1>2, AsideIs
<1>17. CopiedOnce' /\ Delivers(c) /\ CountsFrom(c)' = CountsFrom(c)
  BY <1>2, <1>3, <1>10, <1>15, CopiedNow
<1>18. NeedsFrom(c)' = NeedsFrom(c)
  BY <1>3, <1>12, <1>15 DEF NeedsFrom
<1>19. Finds(Q, c)'
  <2>1. NeedsFrom(c) \in Nat
    BY <1>3, <1>5
  <2>2. NeedsFrom(c)' \in Nat /\ NeedsFrom(c) <= NeedsFrom(c)'
    BY <2>1, <1>18
  <2>3. local'[c].header = local[c].header /\ local'[c].stop = local[c].stop
    BY <1>12, <1>15
  <2> QED BY <2>2, <2>3, <1>1, <1>3, <1>4, <1>16, FindsStill
<1>20. ReaderSound(Q, low, c)'
  <2>1. PICK hd : hd = local[c].header
    OBVIOUS
  <2>2. local[c].slot = SlotOf(Q, hd, x)'
    BY <1>2, <1>4, <1>5, <1>6, <2>1 DEF SlotOf, Cap
  <2>3. ValueNow(Q, x)' = v
    BY <1>2, <1>8 DEF ValueNow, ValueOf, EntryNow, EntryOf, SlotOf, Cap
  <2>4. /\ local'[c].header = hd /\ local'[c].slot = local[c].slot /\ local'[c].next = a
        /\ local'[c].block = v /\ consumer'[c] = "count"
    BY <1>5, <1>12, <1>15, <2>1
  <2> QED BY <2>2, <2>3, <2>4, <1>6, <1>8, <1>19 DEF ReaderSound, Finds
<1> QED BY <1>2, <1>15, <1>16, <1>17, <1>20, ContinuesKept

\* A consumer that has done with the items of a block: nothing claimed to the
\* end of it remains to be counted.
LEMMA DoneHere ==
    ASSUME Claims, NEW c \in Taking, consumer[c] = "advance"
    PROVE  \E e \in Nat, b \in Nat : /\ e = End(c) /\ b = local[c].stop /\ e <= b
                                     /\ CountsFrom(c) = e /\ CopiesFrom(c) = e /\ NeedsFrom(c) = e
<1>1. CountInv /\ ClaimsApart
  BY DEF Claims
<1>2. PICK e \in Nat, b \in Nat : e = End(c) /\ b = local[c].stop /\ e <= b
  BY <1>1, TakenBounds
<1>3. CountsFrom(c) = e /\ CopiesFrom(c) = e /\ NeedsFrom(c) = e
  BY <1>2 DEF CountsFrom, CopiesFrom, NeedsFrom
<1> QED BY <1>2, <1>3

\* It has none left.
LEMMA GoneKept ==
    ASSUME Claims, PoolTypes, OpSound, BlocksOwned, NEW Q, NEW low, Numbered(Q, low), NEW c, Aside(c),
           Moves(c), consumer[c] = "advance", consumer'[c] = "idle", End(c) = local[c].stop, taken' = taken
    PROVE  ImplicitInv'
<1>1. /\ CountInv /\ ClaimsApart /\ CopiedOnce /\ ClearsOnce /\ ProducerStays
      /\ UNCHANGED <<entries, blocks, free>>
  BY DEF Claims, Aside
<1>2. /\ CountInv' /\ c \in Consumers /\ c \in Taking /\ head' = head
      /\ \A d \in Taking : d # c => Remains(d)
      /\ \A d \in Taking' : d # c => Remains(d)
      /\ c \notin Taking'
  BY <1>1, MovesIs DEF TakingPlaces
<1>3. PICK e \in Nat : e = local[c].stop /\ CountsFrom(c) = e
  BY <1>2, DoneHere
<1>4. \A d \in Taking' : Remains(d) /\ d \in Taking /\ d # c
  BY <1>2 DEF Remains
<1>5. \A d \in Taking : d # c => d \in Taking'
  BY <1>2, RemainsIs
<1>6. \A d \in Taking' : /\ local'[d] = local[d] /\ consumer'[d] = consumer[d]
                         /\ CountsFrom(d)' = CountsFrom(d) /\ CopiesFrom(d)' = CopiesFrom(d)
  BY <1>4, RemainsIs DEF Remains
<1>7. ClaimsApart'
  BY <1>1, <1>2, <1>4, <1>6 DEF ClaimsApart
<1>8. CopiedOnce'
  BY <1>1, <1>2, <1>4, <1>6 DEF CopiedOnce
<1>9. ClearsOnce'
  BY <1>1, <1>4, <1>6 DEF ClearsOnce
<1>10. CountsStay
  <2> SUFFICES ASSUME NEW i \in Int PROVE CountedOut(i)' <=> CountedOut(i)
    BY DEF CountsStay
  <2>1. i < CountsFrom(c) \/ local[c].stop <= i
    BY <1>3
  <2>2. CountedOut(i) => CountedOut(i)'
    <3> SUFFICES ASSUME i < head, \A d \in Taking : i < CountsFrom(d) \/ local[d].stop <= i
                 PROVE  i < head' /\ \A d \in Taking' : i < CountsFrom(d)' \/ local'[d].stop <= i
      BY DEF CountedOut
    <3>1. ASSUME NEW d \in Taking' PROVE i < CountsFrom(d)' \/ local'[d].stop <= i
      <4>1. i < CountsFrom(d) \/ local[d].stop <= i
        BY <3>1, <1>4
      <4>2. CountsFrom(d)' = CountsFrom(d) /\ local'[d].stop = local[d].stop
        BY <3>1, <1>6
      <4> QED BY <4>1, <4>2
    <3> QED BY <3>1, <1>2
  <2>3. CountedOut(i)' => CountedOut(i)
    <3> SUFFICES ASSUME CountedOut(i)'
                 PROVE  i < head /\ \A d \in Taking : i < CountsFrom(d) \/ local[d].stop <= i
      BY DEF CountedOut
    <3>1. i < head /\ \A d \in Taking' : i < CountsFrom(d)' \/ local'[d].stop <= i
      BY <1>2 DEF CountedOut
    <3>2. \A d \in Taking : d # c => i < CountsFrom(d) \/ local[d].stop <= i
      BY <3>1, <1>5, <1>6
    <3> QED BY <3>1, <3>2, <2>1
  <2> QED BY <2>2, <2>3
<1>11. Holding' = Holding /\ \A d \in Holding : local'[d].block = local[d].block
  <2>1. Holding \subseteq Taking /\ Holding' \subseteq Taking' /\ c \notin Holding
    BY DEF Holding, Taking
  <2>2. \A d \in Taking : d # c => consumer'[d] = consumer[d] /\ local'[d] = local[d]
    BY <1>2 DEF Remains
  <2> QED BY <2>1, <2>2, <1>2, <1>4 DEF Holding
<1>12. Untouched
  BY <1>1, <1>11 DEF Untouched
<1>13. Claims'
  BY <1>2, <1>7, <1>8, <1>9 DEF Claims
<1> QED BY <1>4, <1>10, <1>12, <1>13, UntouchedKept

\* The locals of a consumer on its way to the next block.
Onward(r, x, y) == [r EXCEPT !.next = x, !.slot = y]

LEMMA OnwardIs ==
    ASSUME NEW r \in Locals, NEW x \in Int, NEW y \in Int
    PROVE  /\ Onward(r, x, y) \in Locals /\ Onward(r, x, y).next = x /\ Onward(r, x, y).slot = y
           /\ Onward(r, x, y).stop = r.stop /\ Onward(r, x, y).header = r.header
BY DEF Locals, Onward

\* It goes on to the next block.
LEMMA OnKept ==
    ASSUME Claims, PoolTypes, OpSound, BlocksOwned, NEW Q, NEW low, Numbered(Q, low), NEW c, Aside(c),
           Moves(c), consumer[c] = "advance", consumer'[c] = "copy", taken' = taken,
           local'[c].next = End(c), local'[c].stop = local[c].stop, End(c) # local[c].stop,
           ReaderSound(Q, low, c)'
    PROVE  ImplicitInv'
<1>1. /\ CountInv /\ ClaimsApart /\ CopiedOnce /\ ClearsOnce /\ ProducerStays
      /\ UNCHANGED <<entries, blocks, free>>
  BY DEF Claims, Aside
<1>2. /\ CountInv' /\ c \in Consumers /\ c \in Taking /\ head' = head
      /\ \A d \in Taking : d # c => Remains(d)
      /\ \A d \in Taking' : d # c => Remains(d)
      /\ c \in Taking'
  BY <1>1, MovesIs DEF TakingPlaces
<1>3. PICK e \in Nat, b \in Nat : /\ e = End(c) /\ b = local[c].stop /\ e < b
                                  /\ CountsFrom(c) = e /\ CopiesFrom(c) = e
  <2>1. PICK e \in Nat, b \in Nat : /\ e = End(c) /\ b = local[c].stop /\ e <= b
                                    /\ CountsFrom(c) = e /\ CopiesFrom(c) = e
    BY <1>2, DoneHere
  <2>2. e # b
    BY <2>1
  <2>3. e < b
    BY <2>1, <2>2
  <2> QED BY <2>1, <2>3
<1>4. PICK a \in Nat : a = local[c].next /\ a < e
  BY <1>1, <1>2, <1>3, TakenBounds
<1>5. Taking' = Taking
  <2>1. \A d \in Taking : d \in Taking'
    BY <1>2, RemainsIs
  <2>2. \A d \in Taking' : d \in Taking
    BY <1>2 DEF Remains
  <2> QED BY <2>1, <2>2
<1>6. CountsFrom(c)' = e /\ CopiesFrom(c)' = e /\ local'[c].next = e /\ local'[c].stop = b
  BY <1>3 DEF CountsFrom, CopiesFrom
<1>7. \A d \in Taking : d # c => /\ local'[d] = local[d] /\ consumer'[d] = consumer[d]
                                 /\ CountsFrom(d)' = CountsFrom(d) /\ CopiesFrom(d)' = CopiesFrom(d)
  BY <1>2, RemainsIs DEF Remains
<1>8. \A d \in Taking : CountsFrom(d)' = CountsFrom(d) /\ CopiesFrom(d)' = CopiesFrom(d) /\ local'[d].stop = local[d].stop
  BY <1>3, <1>6, <1>7
<1>9. ClaimsApart'
  <2>1. ASSUME NEW d \in Taking
        PROVE  0 <= local'[d].next /\ local'[d].next < local'[d].stop /\ local'[d].stop <= head
    <3>1. CASE d = c
      <4>1. b <= head
        BY <1>1, <1>2, <1>3 DEF ClaimsApart
      <4> QED BY <4>1, <3>1, <1>3, <1>6
    <3>2. CASE d # c
      BY <3>2, <1>1, <1>7 DEF ClaimsApart
    <3> QED BY <3>1, <3>2
  <2>2. ASSUME NEW d \in Taking, d # c PROVE b <= local[d].next \/ local[d].stop <= e
    <3>1. PICK x \in Nat, y \in Nat : x = local[d].next /\ y = local[d].stop
      BY <1>1, TakenBounds
    <3>2. b <= x \/ y <= a
      BY <3>1, <2>2, <1>1, <1>2, <1>3, <1>4 DEF ClaimsApart
    <3>3. b <= x \/ y <= e
      BY <3>2, <1>4
    <3> QED BY <3>1, <3>3
  <2>3. ASSUME NEW d \in Taking, NEW f \in Taking, d # f
        PROVE  local'[d].stop <= local'[f].next \/ local'[f].stop <= local'[d].next
    <3>1. CASE d = c
      BY <3>1, <2>2, <2>3, <1>6, <1>7
    <3>2. CASE f = c
      BY <3>2, <2>2, <2>3, <1>6, <1>7
    <3>3. CASE d # c /\ f # c
      BY <3>3, <2>3, <1>1, <1>7 DEF ClaimsApart
    <3> QED BY <3>1, <3>2, <3>3
  <2> QED BY <2>1, <2>3, <1>2, <1>5 DEF ClaimsApart
<1>10. CopiedOnce'
  BY <1>1, <1>2, <1>5, <1>8 DEF CopiedOnce
<1>11. ClearsOnce'
  <2>1. \A d \in Taking : consumer'[d] = "clear" => consumer[d] = "clear" /\ local'[d] = local[d]
    BY <1>7
  <2> QED BY <2>1, <1>1, <1>5 DEF ClearsOnce
<1>12. CountsStay
  BY <1>2, <1>5, <1>8 DEF CountsStay, CountedOut
<1>13. Holding' = Holding /\ \A d \in Holding : local'[d].block = local[d].block
  <2>1. Holding \subseteq Taking /\ Holding' \subseteq Taking' /\ c \notin Holding /\ c \notin Holding'
    BY DEF Holding, Taking
  <2> QED BY <2>1, <1>5, <1>7 DEF Holding
<1>14. Untouched
  BY <1>1, <1>13 DEF Untouched
<1>15. Claims'
  BY <1>2, <1>9, <1>10, <1>11 DEF Claims
<1>16. \A d \in Taking' : Remains(d) \/ ReaderSound(Q, low, d)'
  BY <1>2
<1> QED BY <1>12, <1>14, <1>15, <1>16, UntouchedKept

LEMMA AdvanceKept ==
    ASSUME Claims, PoolTypes, OpSound, BlocksOwned, NEW Q, NEW low, Numbered(Q, low),
           NEW c \in Consumers, Implicit!Advance(c)
    PROVE  ImplicitInv' /\ UNCHANGED <<tail, head, taken>>
<1>1. /\ CountInv /\ ClaimsApart /\ local \in [Consumers -> Locals]
      /\ consumer \in [Consumers -> ConsumerPlaces]
      /\ IndexSound(Q, low) /\ ReadersSound(Q, low) /\ Q \in [Nat -> Int]
  BY DEF Claims, CountInv, CountTypes, Numbered, IndexSound
<1>2. /\ consumer[c] = "advance"
      /\ UNCHANGED <<tail, head, optimistic, overcommit, blocks, free, entries, indexes, tailBlock,
                     producer, op, taken>>
      /\ IF End(c) = local[c].stop
           THEN consumer' = [consumer EXCEPT ![c] = "idle"] /\ local' = [local EXCEPT ![c] = NoLocal]
           ELSE /\ consumer' = [consumer EXCEPT ![c] = "copy"]
                /\ local' = [local EXCEPT ![c].next = End(c),
                               ![c].slot = (@ + 1) % indexes[local[c].header].capacity]
  BY SharedBase DEF Implicit!Advance, Implicit!At, Implicit!counters, Implicit!pool, Implicit!index,
         Implicit!enqueuing, Gone
<1>3. c \in Taking /\ Aside(c) /\ ProducerStays
  BY <1>2, AsideIs DEF Taking
<1>4. CASE End(c) = local[c].stop
  <2>1. consumer' = [consumer EXCEPT ![c] = "idle"] /\ local' = [local EXCEPT ![c] = NoLocal]
    BY <1>2, <1>4
  <2>2. OthersStay(c) /\ consumer'[c] = "idle"
    BY <2>1, <1>1 DEF OthersStay
  <2>3. consumer' \in [Consumers -> ConsumerPlaces]
    BY <2>1, <1>1 DEF ConsumerPlaces
  <2>4. local' \in [Consumers -> Locals]
    BY <2>1, <1>1, NoLocalIs
  <2>5. Moves(c)
    BY <2>2, <2>3, <2>4, <1>2, <1>3 DEF Moves
  <2> QED BY <2>2, <2>5, <1>2, <1>3, <1>4, GoneKept
<1>5. CASE End(c) # local[c].stop
  <2>1. /\ ReaderSound(Q, low, c) /\ Finds(Q, c)
        /\ local[c].slot = SlotOf(Q, local[c].header, Ord(local[c].next))
    BY <1>1, <1>2, <1>3 DEF ReadersSound, ReaderSound, Finds
  <2>2. PICK hd \in 1..Len(indexes) : hd = local[c].header
    BY <2>1 DEF Finds
  <2>3. PICK a \in Nat, b \in Nat, e \in Nat :
          /\ a = local[c].next /\ b = local[c].stop /\ e = End(c) /\ a < e /\ e <= b
          /\ e < b => e = First(Ord(a) + 1)
    BY <1>1, <1>3, TakingIs
  <2>4. PICK x \in Int : x = Ord(a)
    <3>1. a \in Int
      OBVIOUS
    <3> QED BY <3>1, OrdAt
  <2>5. Ord(e) = x + 1
    <3>1. e < b
      BY <2>3, <1>5
    <3>2. e = First(x + 1)
      BY <3>1, <2>3, <2>4
    <3>3. PICK o \in Offsets : o = 0
      BY SizeIs
    <3>4. PICK y \in Int : y = x + 1
      OBVIOUS
    <3>5. Ord(First(y) + o) = y /\ First(y) \in Int
      BY OrdOf, FirstIs
    <3>6. First(y) + o = First(y)
      BY <3>3, <3>5
    <3> QED BY <3>2, <3>4, <3>5, <3>6
  <2>6. PICK n \in Nat, k \in Int : n = Cap(hd) /\ n >= 1 /\ k = Q[hd]
    <3>1. hd \in Nat
      BY LastIs
    <3> QED BY <3>1, <1>1, IndexIs
  <2>7. PICK s \in Int : s = local[c].slot /\ s = (x + k) % n
    BY <2>1, <2>2, <2>3, <2>4, <2>6 DEF SlotOf
  <2>8. PICK w \in Int : w = (s + 1) % n
    BY <2>6
  <2>9. w = SlotOf(Q, hd, Ord(e))
    <3>1. PICK z \in Int, d \in Int, y \in Int : z = x + k /\ d = 1 /\ y = x + 1 + k
      OBVIOUS
    <3>2. ((z % n) + d) % n = (z + d) % n
      BY <2>6, SlotAdd
    <3>3. z + d = y
      BY <3>1
    <3>4. w = y % n
      BY <3>1, <3>2, <3>3, <2>7, <2>8
    <3> QED BY <3>1, <3>4, <2>5, <2>6 DEF SlotOf
  <2>10. PICK r \in Locals : /\ r = Onward(local[c], e, w) /\ r.next = e /\ r.slot = w
                             /\ r.stop = local[c].stop /\ r.header = local[c].header
    <3>1. local[c] \in Locals /\ e \in Int
      BY <1>1
    <3> QED BY <3>1, OnwardIs
  <2>11. consumer' = [consumer EXCEPT ![c] = "copy"] /\ local' = [local EXCEPT ![c] = r]
    <3>1. /\ consumer' = [consumer EXCEPT ![c] = "copy"]
          /\ local' = [local EXCEPT ![c].next = e, ![c].slot = (@ + 1) % n]
      BY <1>2, <1>5, <2>2, <2>3, <2>6 DEF Cap
    <3> QED BY <3>1, <1>1, <2>7, <2>8, <2>10 DEF Onward
  <2>12. OthersStay(c) /\ consumer'[c] = "copy" /\ local'[c] = r
    BY <2>11, <1>1 DEF OthersStay
  <2>13. consumer' \in [Consumers -> ConsumerPlaces] /\ local' \in [Consumers -> Locals]
    BY <2>11, <1>1 DEF ConsumerPlaces
  <2>14. Moves(c)
    BY <2>12, <2>13, <1>2, <1>3 DEF Moves, TakingPlaces
  <2>15. Finds(Q, c)'
    <3>1. NeedsFrom(c) = e /\ NeedsFrom(c)' = e
      BY <1>2, <2>3, <2>10, <2>12 DEF NeedsFrom
    <3>2. NeedsFrom(c)' \in Nat /\ NeedsFrom(c) <= NeedsFrom(c)'
      BY <3>1
    <3>3. local'[c].header = local[c].header /\ local'[c].stop = local[c].stop
      BY <2>10, <2>12
    <3> QED BY <3>2, <3>3, <2>1, <1>1, <1>3, FindsStill
  <2>16. ReaderSound(Q, low, c)'
    <3>1. w = SlotOf(Q, hd, Ord(e))'
      BY <1>2, <2>9 DEF SlotOf, Cap
    <3>2. local'[c].header = hd /\ local'[c].slot = w /\ local'[c].next = e /\ consumer'[c] = "copy"
      BY <2>2, <2>10, <2>12
    <3> QED BY <3>1, <3>2, <2>15 DEF ReaderSound, Finds
  <2>17. local'[c].next = End(c) /\ local'[c].stop = local[c].stop
    BY <2>3, <2>10, <2>12
  <2> QED BY <2>12, <2>14, <2>16, <2>17, <1>2, <1>3, <1>5, OnKept
<1> QED BY <1>2, <1>4, <1>5

\* A consumer that goes on, its locals as they were.
Turns(c, from, to) ==
    /\ c \in Consumers /\ consumer[c] = from /\ consumer' = [consumer EXCEPT ![c] = to]
    /\ UNCHANGED <<local, taken, tail, head, optimistic, overcommit, indexes, tailBlock, producer, op>>
    /\ from \in TakingPlaces /\ to \in TakingPlaces

LEMMA TurnsIs ==
    ASSUME Claims, NEW c, NEW from, NEW to, Turns(c, from, to)
    PROVE  /\ Continues(c) /\ c \in Taking /\ consumer[c] = from /\ consumer'[c] = to /\ local'[c] = local[c]
           /\ ProducerStays /\ CountInv' /\ ClaimsApart' /\ Taking' = Taking
           /\ \A d \in Taking : d # c => Remains(d)
           /\ \A d \in Taking : local'[d] = local[d] /\ End(d)' = End(d)
           /\ \A d \in Taking : d # c => Remains(d) /\ CountsFrom(d)' = CountsFrom(d) /\ CopiesFrom(d)' = CopiesFrom(d)
           /\ to # "clear" => ClearsOnce'
<1>1. /\ CountInv /\ ClaimsApart /\ ClearsOnce /\ local \in [Consumers -> Locals]
      /\ consumer \in [Consumers -> ConsumerPlaces]
  BY DEF Claims, CountInv, CountTypes
<1>2. /\ c \in Consumers /\ consumer[c] = from /\ consumer' = [consumer EXCEPT ![c] = to] /\ local' = local
      /\ UNCHANGED <<tail, head, optimistic, overcommit>>
      /\ from \in TakingPlaces /\ to \in TakingPlaces /\ ProducerStays
  BY DEF Turns, ProducerStays
<1>3. consumer'[c] = to /\ OthersStay(c)
  BY <1>1, <1>2 DEF OthersStay
<1>4. c \in Taking
  BY <1>2 DEF Taking, TakingPlaces
<1>5. to \in ConsumerPlaces
  BY <1>2 DEF TakingPlaces, ConsumerPlaces
<1>6. consumer' \in [Consumers -> ConsumerPlaces] /\ local' \in [Consumers -> Locals]
  BY <1>1, <1>2, <1>5 DEF ConsumerPlaces
<1>7. Continues(c)
  BY <1>2, <1>3, <1>4, <1>6 DEF Moves, Continues
<1>8. /\ CountInv' /\ ClaimsApart' /\ Taking' = Taking
      /\ \A d \in Taking : d # c => Remains(d)
      /\ to # "clear" => ClearsOnce'
  BY <1>1, <1>3, <1>7, ContinuesIs
<1>9. \A d \in Taking : local'[d] = local[d] /\ End(d)' = End(d)
  BY <1>2 DEF End
<1>10. \A d \in Taking : d # c => Remains(d) /\ CountsFrom(d)' = CountsFrom(d) /\ CopiesFrom(d)' = CopiesFrom(d)
  BY <1>8, RemainsIs
<1> QED BY <1>2, <1>3, <1>4, <1>7, <1>8, <1>9, <1>10

\* A consumer gives the block back that it has emptied.
LEMMA FreeOwned ==
    ASSUME PoolTypes, BlocksOwned, NEW c \in Holding, Holding' = Holding \ {c}, local' = local,
           UNCHANGED <<entries, blocks, indexes>>, free' = free \cup {local[c].block}
    PROVE  PoolTypes' /\ BlocksOwned'
<1>1. PICK v \in 1..Len(blocks) : v = local[c].block
  BY DEF BlocksOwned
<1>2. free' = free \cup {v} /\ entries' = entries /\ blocks' = blocks /\ indexes' = indexes
  BY <1>1
<1>3. PoolTypes'
  BY <1>2 DEF PoolTypes, Cap
<1>4. \A e \in 1..Len(entries) : ValueOf(e)' = ValueOf(e)
  BY <1>2 DEF ValueOf
<1>5. \A e \in 1..Len(entries) : ValueOf(e) # v
  BY <1>1 DEF BlocksOwned
<1>6. \A e \in 1..Len(entries) : ValueOf(e)' \in 0..Len(blocks) /\ ValueOf(e)' \notin free'
  BY <1>2, <1>4, <1>5 DEF BlocksOwned
<1>7. \A e, f \in 1..Len(entries) : ValueOf(e)' = ValueOf(f)' /\ ValueOf(e)' # 0 => e = f
  BY <1>4 DEF BlocksOwned
<1>8. \A d \in Holding \ {c} : /\ local[d].block \in 1..Len(blocks) /\ local[d].block \notin free'
                               /\ \A e \in 1..Len(entries) : ValueOf(e)' # local[d].block
  <2> TAKE d \in Holding \ {c}
  <2>1. local[d].block # v
    BY <1>1 DEF BlocksOwned
  <2> QED BY <2>1, <1>2, <1>4 DEF BlocksOwned
<1>9. \A d, f \in Holding \ {c} : local[d].block = local[f].block => d = f
  BY DEF BlocksOwned
<1>10. \A b \in 1..Len(blocks) : \/ b \in free'
                                 \/ \E e \in 1..Len(entries) : ValueOf(e)' = b
                                 \/ \E d \in Holding \ {c} : local[d].block = b
  BY <1>1, <1>2, <1>4 DEF BlocksOwned
<1>11. BlocksOwned'
  BY <1>2, <1>6, <1>7, <1>8, <1>9, <1>10 DEF BlocksOwned
<1> QED BY <1>3, <1>11

LEMMA FreeKept ==
    ASSUME Claims, PoolTypes, OpSound, BlocksOwned, NEW Q, NEW low, Numbered(Q, low),
           NEW c \in Consumers, Implicit!FreeBlock(c)
    PROVE  ImplicitInv' /\ UNCHANGED <<tail, head, taken>>
<1>1. /\ CountInv /\ ClaimsApart /\ CopiedOnce /\ ClearsOnce
      /\ IndexSound(Q, low) /\ ReadersSound(Q, low) /\ Q \in [Nat -> Int]
  BY DEF Claims, Numbered, IndexSound
<1>2. /\ consumer[c] = "free" /\ consumer' = [consumer EXCEPT ![c] = "advance"]
      /\ free' = free \cup {local[c].block}
      /\ UNCHANGED <<tail, head, optimistic, overcommit, blocks, entries, indexes, tailBlock,
                     producer, op, taken, local>>
  BY DEF Implicit!FreeBlock, Implicit!At, Implicit!counters, Implicit!index, Implicit!enqueuing
<1>3. Turns(c, "free", "advance")
  BY <1>2 DEF Turns, TakingPlaces
<1>4. /\ Continues(c) /\ c \in Taking /\ consumer'[c] = "advance" /\ local'[c] = local[c]
      /\ ProducerStays /\ CountInv' /\ ClaimsApart' /\ Taking' = Taking /\ ClearsOnce'
      /\ \A d \in Taking : d # c => Remains(d)
      /\ End(c)' = End(c)
  BY <1>3, TurnsIs
<1>5. CountsFrom(c)' = CountsFrom(c) /\ CopiesFrom(c)' = CopiesFrom(c) /\ NeedsFrom(c)' = NeedsFrom(c)
  BY <1>2, <1>4 DEF CountsFrom, CopiesFrom, NeedsFrom
<1>6. CopiedOnce' /\ CountsStay
  BY <1>1, <1>2, <1>4, <1>5, ContinuesCopies, ContinuesCounts
<1>7. Claims'
  BY <1>4, <1>6 DEF Claims
<1>8. c \in Holding /\ Holding' = Holding \ {c}
  <2>1. Holding \subseteq Taking /\ Holding' \subseteq Taking'
    BY DEF Holding, Taking
  <2>2. \A d \in Taking : d # c => consumer'[d] = consumer[d]
    BY <1>4 DEF Remains
  <2> QED BY <2>1, <2>2, <1>2, <1>4 DEF Holding
<1>9. PoolTypes' /\ BlocksOwned'
  BY <1>2, <1>8, FreeOwned
<1>10. ReaderSound(Q, low, c)'
  <2>1. ReaderSound(Q, low, c) /\ Finds(Q, c)
    BY <1>1, <1>2, <1>4 DEF ReadersSound, ReaderSound, Finds
  <2>2. Finds(Q, c)'
    <3>1. NeedsFrom(c) \in Nat
      <4>1. NeedsFrom(c) = End(c)
        BY <1>2 DEF NeedsFrom
      <4> QED BY <4>1, <1>1, <1>4, TakenBounds
    <3>2. NeedsFrom(c)' \in Nat /\ NeedsFrom(c) <= NeedsFrom(c)'
      BY <3>1, <1>5
    <3>3. local'[c].header = local[c].header /\ local'[c].stop = local[c].stop
      BY <1>4
    <3> QED BY <3>2, <3>3, <2>1, <1>1, <1>4, FindsStill
  <2>3. local[c].slot = SlotOf(Q, local[c].header, Ord(local[c].next))
    BY <2>1, <1>2 DEF ReaderSound
  <2>4. (local[c].slot = SlotOf(Q, local[c].header, Ord(local[c].next)))'
    BY <2>3, <1>2, <1>4 DEF SlotOf, Cap
  <2> QED BY <2>2, <2>4, <1>4 DEF ReaderSound, Finds
<1>11. \A d \in Taking' : Remains(d) \/ ReaderSound(Q, low, d)'
  BY <1>4, <1>10
<1> QED BY <1>2, <1>4, <1>6, <1>7, <1>9, <1>11, EntriesStay

\* Counting the items that a consumer has copied from its block.
Counts1(c, to) == Turns(c, "count", to) /\ to \in {"clear", "advance"}

LEMMA CountsMore ==
    ASSUME Claims, NEW c, NEW to, Counts1(c, to)
    PROVE  \A i \in Int : CountedOut(i)' <=> CountedOut(i) \/ i \in InBlock(c)
<1>1. CountInv /\ ClaimsApart /\ Turns(c, "count", to) /\ to \in {"clear", "advance"}
  BY DEF Claims, Counts1
<1>2. /\ c \in Taking /\ Taking' = Taking /\ consumer[c] = "count" /\ consumer'[c] = to /\ head' = head
      /\ \A d \in Taking : local'[d] = local[d] /\ End(d)' = End(d)
      /\ \A d \in Taking : d # c => CountsFrom(d)' = CountsFrom(d)
  BY <1>1, TurnsIs DEF Turns
<1>3. PICK a \in Nat, b \in Nat, e \in Nat, h \in Nat :
             /\ a = local[c].next /\ b = local[c].stop /\ e = End(c) /\ h = head
             /\ a < e /\ e <= b /\ b <= h /\ InBlock(c) = a..(e - 1)
  BY <1>1, <1>2, TakenBounds
<1>4. CountsFrom(c) = a /\ CountsFrom(c)' = e
  BY <1>1, <1>2, <1>3 DEF CountsFrom
<1>5. ASSUME NEW i \in Int, CountedOut(i) PROVE CountedOut(i)'
  <2>1. i < h /\ \A d \in Taking : i < CountsFrom(d) \/ local[d].stop <= i
    BY <1>3, <1>5 DEF CountedOut
  <2>2. ASSUME NEW d \in Taking PROVE i < CountsFrom(d)' \/ local'[d].stop <= i
    <3>1. i < CountsFrom(d) \/ local[d].stop <= i
      BY <2>1
    <3>2. CASE d = c
      <4>1. i < a \/ b <= i
        BY <3>1, <3>2, <1>3, <1>4
      <4>2. i < e \/ b <= i
        BY <4>1, <1>3
      <4> QED BY <4>2, <3>2, <1>2, <1>3, <1>4
    <3>3. CASE d # c
      BY <3>1, <3>3, <1>2
    <3> QED BY <3>2, <3>3
  <2> QED BY <2>1, <2>2, <1>2, <1>3 DEF CountedOut
<1>6. ASSUME NEW i \in a..(e - 1) PROVE CountedOut(i)'
  <2>1. i \in Int /\ a <= i /\ i < e /\ i < b /\ i < h
    BY <1>3
  <2>2. ASSUME NEW d \in Taking PROVE i < CountsFrom(d)' \/ local'[d].stop <= i
    <3>1. CASE d = c
      BY <3>1, <2>1, <1>2, <1>4
    <3>2. CASE d # c
      <4>1. PICK x \in Nat, y \in Nat, z \in Nat : x = local[d].next /\ y = local[d].stop /\ z = End(d) /\ x < z
        BY <1>1, TakenBounds
      <4>2. b <= x \/ y <= a
        BY <3>2, <4>1, <1>1, <1>2, <1>3 DEF ClaimsApart
      <4>3. CountsFrom(d) = x \/ CountsFrom(d) = z
        BY <4>1 DEF CountsFrom
      <4>4. i < CountsFrom(d) \/ y <= i
        BY <2>1, <4>1, <4>2, <4>3
      <4> QED BY <4>1, <4>4, <3>2, <1>2
    <3> QED BY <3>1, <3>2
  <2> QED BY <2>1, <2>2, <1>2, <1>3 DEF CountedOut
<1>7. ASSUME NEW i \in Int, CountedOut(i)', i \notin a..(e - 1) PROVE CountedOut(i)
  <2>1. i < h /\ \A d \in Taking : i < CountsFrom(d)' \/ local'[d].stop <= i
    BY <1>2, <1>3, <1>7 DEF CountedOut
  <2>2. ASSUME NEW d \in Taking PROVE i < CountsFrom(d) \/ local[d].stop <= i
    <3>1. i < CountsFrom(d)' \/ local[d].stop <= i
      BY <2>1, <1>2
    <3>2. CASE d = c
      <4>1. i < e \/ b <= i
        BY <3>1, <3>2, <1>3, <1>4
      <4>2. i < a \/ b <= i
        BY <4>1, <1>3, <1>7
      <4> QED BY <4>2, <3>2, <1>3, <1>4
    <3>3. CASE d # c
      BY <3>1, <3>3, <1>2
    <3> QED BY <3>2, <3>3
  <2> QED BY <2>1, <2>2, <1>3 DEF CountedOut
<1> QED BY <1>3, <1>5, <1>6, <1>7

LEMMA CountsMoreOf ==
    ASSUME Claims, NEW c, NEW to, Counts1(c, to)
    PROVE  /\ CountsGrow
           /\ \E x \in Int, a \in Nat : /\ a = local[c].next /\ x = Ord(a)
                 /\ InBlock(c) \subseteq ItemsOf(x) /\ CountedOf(x)' = CountedOf(x) \cup InBlock(c)
                 /\ CountedOf(x) \cap InBlock(c) = {}
                 /\ \A y \in Int : y # x => CountedOf(y)' = CountedOf(y)
<1>1. CountInv /\ ClaimsApart /\ Turns(c, "count", to)
  BY DEF Claims, Counts1
<1>2. c \in Taking /\ consumer[c] = "count"
  BY <1>1, TurnsIs
<1>3. \A i \in Int : CountedOut(i)' <=> CountedOut(i) \/ i \in InBlock(c)
  BY CountsMore
<1>4. CountsGrow
  BY <1>3 DEF CountsGrow
<1>5. PICK a \in Nat, b \in Nat, e \in Nat :
             /\ a = local[c].next /\ b = local[c].stop /\ e = End(c)
             /\ a < e /\ e <= b /\ InBlock(c) = a..(e - 1)
             /\ \A i \in a..(e - 1) : Ord(i) = Ord(a)
  BY <1>1, <1>2, TakenBounds
<1>6. PICK x \in Int : x = Ord(a)
  <2>1. a \in Int
    OBVIOUS
  <2> QED BY <2>1, OrdAt
<1>7. \A i \in InBlock(c) : i \in Int /\ Ord(i) = x
  BY <1>5, <1>6
<1>8. InBlock(c) \subseteq ItemsOf(x)
  BY <1>7, ItemsIs
<1>9. \A y : ItemsOf(y)' = ItemsOf(y)
  BY DEF ItemsOf, First
<1>10. CountedOf(x)' = CountedOf(x) \cup InBlock(c)
  <2>1. \A i \in ItemsOf(x) : CountedOut(i)' <=> CountedOut(i) \/ i \in InBlock(c)
    BY <1>3, ItemsIs
  <2> QED BY <2>1, <1>8, <1>9 DEF CountedOf
<1>11. CountedOf(x) \cap InBlock(c) = {}
  <2> SUFFICES ASSUME NEW i \in a..(e - 1), CountedOut(i) PROVE FALSE
    BY <1>5 DEF CountedOf
  <2>1. CountsFrom(c) = a
    BY <1>2, <1>5 DEF CountsFrom
  <2>2. i < a \/ b <= i
    BY <2>1, <1>2, <1>5 DEF CountedOut
  <2> QED BY <2>2, <1>5
<1>12. ASSUME NEW y \in Int, y # x PROVE CountedOf(y)' = CountedOf(y)
  <2>1. \A i \in ItemsOf(y) : i \in Int /\ Ord(i) = y
    BY ItemsIs
  <2>2. \A i \in ItemsOf(y) : CountedOut(i)' <=> CountedOut(i)
    BY <2>1, <1>3, <1>7, <1>12
  <2> QED BY <2>2, <1>9 DEF CountedOf
<1> QED BY <1>4, <1>5, <1>6, <1>8, <1>10, <1>11, <1>12

\* How many there are, and when these are all.
LEMMA CountedCard ==
    ASSUME NEW x \in Int, NEW m \in Nat, NEW k \in Nat, NEW S,
           m = Cardinality(CountedOf(x)), k = Cardinality(S), S \subseteq ItemsOf(x),
           CountedOf(x)' = CountedOf(x) \cup S, CountedOf(x) \cap S = {}
    PROVE  /\ Cardinality(CountedOf(x)') = m + k
           /\ m + k = BlockSize => Over(x)'
<1>1. IsFiniteSet(ItemsOf(x)) /\ Cardinality(ItemsOf(x)) = BlockSize
  BY ItemsIs
<1>2. PICK I, C, D : I = ItemsOf(x) /\ C = CountedOf(x) /\ D = CountedOf(x)'
  OBVIOUS
<1>3. C \subseteq I /\ S \subseteq I /\ D = C \cup S /\ C \cap S = {}
  BY <1>2 DEF CountedOf
<1>4. IsFiniteSet(C) /\ IsFiniteSet(S) /\ IsFiniteSet(I)
  BY <1>1, <1>2, <1>3, FS_Subset
<1>5. Cardinality(D) = Cardinality(C) + Cardinality(S) - Cardinality(C \cap S)
  BY <1>3, <1>4, FS_Union
<1>6. Cardinality(C \cap S) = 0
  BY <1>3, FS_EmptySet
<1>7. Cardinality(D) = m + k
  BY <1>2, <1>5, <1>6
<1>8. ASSUME m + k = BlockSize PROVE Over(x)'
  <2>1. D \subseteq I /\ Cardinality(D) = Cardinality(I)
    BY <1>1, <1>2, <1>3, <1>7, <1>8
  <2>2. D = I
    BY <2>1, <1>4, FS_Subset
  <2>3. \A i \in ItemsOf(x) : CountedOut(i)'
    <3>1. \A i \in CountedOf(x)' : CountedOut(i)'
      BY DEF CountedOf
    <3> QED BY <3>1, <2>2, <1>2
  <2>4. ItemsOf(x)' = ItemsOf(x)
    BY DEF ItemsOf, First
  <2> QED BY <2>3, <2>4 DEF Over
<1> QED BY <1>2, <1>7, <1>8

\* A block's count.
CountedAs(b, n) == [blocks EXCEPT ![b].done = n]

LEMMA DoneSet ==
    ASSUME PoolTypes, NEW b \in 1..Len(blocks), NEW n \in Nat, blocks' = CountedAs(b, n)
    PROVE  /\ blocks' \in Seq(PoolBlocks) /\ Len(blocks') = Len(blocks)
           /\ \A f \in 1..Len(blocks) : /\ blocks'[f].cells = blocks[f].cells
                                        /\ blocks'[f].done = IF f = b THEN n ELSE blocks[f].done
<1>1. PICK m \in Nat : m = Len(blocks) /\ blocks \in [1..m -> PoolBlocks]
  BY LenProperties DEF PoolTypes
<1>2. PICK r \in PoolBlocks : r = blocks[b]
  BY <1>1
<1>3. PICK w : w = [r EXCEPT !.done = n]
  OBVIOUS
<1>4. w \in PoolBlocks /\ w.done = n /\ w.cells = r.cells
  BY <1>3 DEF PoolBlocks
<1>5. blocks' = [blocks EXCEPT ![b] = w]
  BY <1>2, <1>3 DEF CountedAs
<1>6. blocks' \in [1..m -> PoolBlocks] /\ \A f \in 1..m : blocks'[f] = IF f = b THEN w ELSE blocks[f]
  BY <1>1, <1>4, <1>5
<1>7. blocks' \in Seq(PoolBlocks) /\ Len(blocks') = m
  BY <1>6
<1>8. \A f \in 1..m : blocks'[f].cells = blocks[f].cells /\ blocks'[f].done = IF f = b THEN n ELSE blocks[f].done
  BY <1>2, <1>4, <1>6
<1> QED BY <1>1, <1>7, <1>8

\* Two numbers from low on have different blocks.
LEMMA ValuesApart ==
    ASSUME CountInv, OpSound, PoolTypes, BlocksOwned, NEW Q, NEW low, IndexSound(Q, low),
           NEW x \in low..KeyedNo, NEW y \in low..KeyedNo, x # y
    PROVE  /\ EntryNow(Q, x) # EntryNow(Q, y)
           /\ ValueNow(Q, x) # 0 => ValueNow(Q, x) # ValueNow(Q, y)
<1>1. Q \in [Nat -> Int] /\ low \in Nat /\ SlotsRight(Q) /\ Window(low)
  BY DEF IndexSound
<1>2. PICK k \in Int, n \in Nat : k = KeyedNo /\ n = Cap(Len(indexes)) /\ k - low < n
  <2>1. KeyedNo \in Int
    BY NumbersAre
  <2>2. Cap(Len(indexes)) \in Nat
    BY LastIs, IndexIs
  <2> QED BY <2>1, <2>2, <1>1 DEF Window
<1>3. x \in Int /\ y \in Int /\ low <= x /\ x <= k /\ low <= y /\ y <= k
  BY <1>1, <1>2
<1>4. EntryNow(Q, x) # EntryNow(Q, y)
  <2>1. CASE x < y
    <3>1. y < x + n
      BY <1>1, <1>2, <1>3
    <3>2. y < x + Cap(Len(indexes))
      BY <3>1, <1>2
    <3> QED BY <3>2, <2>1, <1>1, <1>3, EntriesApart
  <2>2. CASE y < x
    <3>1. x < y + n
      BY <1>1, <1>2, <1>3
    <3>2. x < y + Cap(Len(indexes))
      BY <3>1, <1>2
    <3> QED BY <3>2, <2>2, <1>1, <1>3, EntriesApart
  <2> QED BY <2>1, <2>2, <1>3
<1>5. EntryNow(Q, x) \in 1..Len(entries) /\ EntryNow(Q, y) \in 1..Len(entries)
  BY <1>1, <1>3, EntryNowIs
<1>6. ValueNow(Q, x) # 0 => ValueNow(Q, x) # ValueNow(Q, y)
  BY <1>4, <1>5 DEF ValueNow, BlocksOwned
<1> QED BY <1>4, <1>6

\* What the entries hold after a step that leaves them alone.
LEMMA EntriesSame ==
    ASSUME PoolTypes, OpSound, ProducerStays, entries' = entries, NEW Q \in [Nat -> Int]
    PROVE  \A x \in Int : EntryNow(Q, x)' = EntryNow(Q, x) /\ ValueNow(Q, x)' = ValueNow(Q, x)
<1>1. \A x \in Int : EntryNow(Q, x)' = EntryNow(Q, x)
  BY NumbersStay, SlotsKept
<1> QED BY <1>1 DEF ValueNow, ValueOf

\* The blocks after a consumer has counted its items in its own.
LEMMA BlocksCounted ==
    ASSUME CountInv, PoolTypes, OpSound, BlocksOwned, ProducerStays, CountsGrow, entries' = entries,
           NEW Q, NEW low, IndexSound(Q, low), BlocksSound(Q, low),
           NEW x \in Int, x \in low..TopNo, ValueNow(Q, x) # 0, NEW n \in Nat,
           n = Cardinality(CountedOf(x)'), blocks' = CountedAs(ValueNow(Q, x), n),
           \A y \in Int : y # x => CountedOf(y)' = CountedOf(y)
    PROVE  BlocksSound(Q, low)' /\ Len(blocks') = Len(blocks) /\ blocks' \in Seq(PoolBlocks)
<1>1. /\ Q \in [Nat -> Int] /\ low \in Nat
      /\ EmptyOver(Q, low) /\ DoneRight(Q, low) /\ CellsRight(Q, low) /\ ChainRight(Q) /\ TailRight(Q, low)
  BY DEF IndexSound, BlocksSound
<1>2. /\ SameSlots /\ tail' = tail /\ Ord(tail - 1)' = Ord(tail - 1) /\ op' = op /\ producer' = producer
      /\ tailBlock' = tailBlock /\ TopNo' = TopNo /\ KeyedNo' = KeyedNo
  BY NumbersStay DEF ProducerStays
<1>3. PICK t \in Int, p \in Int, k \in Int : t = Ord(tail - 1) /\ p = TopNo /\ k = KeyedNo /\ p <= k
  BY NumbersAre
<1>4. \A y \in Int : EntryNow(Q, y)' = EntryNow(Q, y) /\ ValueNow(Q, y)' = ValueNow(Q, y)
  BY <1>1, EntriesSame
<1>5. \A y \in low..p : y \in Int /\ y \in low..k
  BY <1>1, <1>3
<1>6. PICK v \in 1..Len(blocks) : v = ValueNow(Q, x)
  <2>1. EntryNow(Q, x) \in 1..Len(entries)
    BY <1>1, EntryNowIs
  <2>2. ValueNow(Q, x) \in 0..Len(blocks)
    BY <2>1 DEF ValueNow, BlocksOwned
  <2>3. Len(blocks) \in Nat
    BY LastIs
  <2> QED BY <2>2, <2>3
<1>7. /\ blocks' \in Seq(PoolBlocks) /\ Len(blocks') = Len(blocks)
      /\ \A f \in 1..Len(blocks) : /\ blocks'[f].cells = blocks[f].cells
                                   /\ blocks'[f].done = IF f = v THEN n ELSE blocks[f].done
  <2>1. blocks' = CountedAs(v, n)
    BY <1>6
  <2> QED BY <2>1, DoneSet
<1>8. ASSUME NEW y \in low..p, ValueNow(Q, y) # 0 PROVE ValueNow(Q, y) \in 1..Len(blocks)
  <2>1. EntryNow(Q, y) \in 1..Len(entries)
    BY <1>1, <1>5, EntryNowIs
  <2>2. ValueNow(Q, y) \in 0..Len(blocks)
    BY <2>1 DEF ValueNow, BlocksOwned
  <2>3. Len(blocks) \in Nat
    BY LastIs
  <2> QED BY <2>2, <2>3, <1>8
<1>9. EmptyOver(Q, low)'
  <2>1. ASSUME NEW y \in low..p, ValueNow(Q, y) = 0 PROVE Over(y)'
    <3>1. Over(y)
      BY <2>1, <1>1, <1>3 DEF EmptyOver
    <3>2. \A i \in ItemsOf(y) : i \in Int
      BY <1>5, ItemsIs
    <3>3. ItemsOf(y)' = ItemsOf(y)
      BY DEF ItemsOf, First
    <3> QED BY <3>1, <3>2, <3>3 DEF Over, CountsGrow
  <2> QED BY <2>1, <1>2, <1>3, <1>4, <1>5 DEF EmptyOver
<1>10. DoneRight(Q, low)'
  <2> SUFFICES ASSUME NEW y \in low..p, ValueNow(Q, y)' # 0
               PROVE  blocks'[ValueNow(Q, y)'].done = Cardinality(CountedOf(y)')
    BY <1>2, <1>3 DEF DoneRight
  <2>1. PICK w : w = ValueNow(Q, y) /\ w = ValueNow(Q, y)' /\ w # 0
    BY <1>4, <1>5
  <2>2. w \in 1..Len(blocks)
    BY <2>1, <1>8
  <2>3. CASE y = x
    BY <2>1, <2>2, <2>3, <1>6, <1>7
  <2>4. CASE y # x
    <3>1. w # v
      <4>1. x \in low..k /\ y \in low..k
        BY <1>3, <1>5
      <4> QED BY <4>1, <2>1, <2>4, <1>3, <1>6, ValuesApart
    <3>2. blocks'[w].done = blocks[w].done
      BY <3>1, <2>2, <1>7
    <3>3. blocks[w].done = Cardinality(CountedOf(y))
      BY <2>1, <1>1, <1>3 DEF DoneRight
    <3>4. CountedOf(y)' = CountedOf(y)
      BY <2>4, <1>5
    <3> QED BY <2>1, <3>2, <3>3, <3>4
  <2> QED BY <2>3, <2>4
<1>11. CellsRight(Q, low)'
  <2> SUFFICES ASSUME NEW y \in low..p, ValueNow(Q, y)' # 0, NEW o \in Offsets, First(y) + o < tail
               PROVE  blocks'[ValueNow(Q, y)'].cells[o] = First(y) + o + 1
    BY <1>2, <1>3 DEF CellsRight, First
  <2>1. PICK w : w = ValueNow(Q, y) /\ w = ValueNow(Q, y)' /\ w # 0
    BY <1>4, <1>5
  <2>2. w \in 1..Len(blocks)
    BY <2>1, <1>8
  <2>3. blocks[w].cells[o] = First(y) + o + 1
    BY <2>1, <1>1, <1>3 DEF CellsRight
  <2>4. blocks'[w].cells = blocks[w].cells
    BY <2>2, <1>7
  <2> QED BY <2>1, <2>3, <2>4
<1>12. ChainRight(Q)'
  <2>1. \A j \in 1..Len(op.chain) : t + j \in Int
    BY <1>3
  <2>2. \A j \in 1..Len(op.chain) : ValueNow(Q, t + j)' = op.chain[j] /\ op.chain[j] # 0
    BY <2>1, <1>1, <1>3, <1>4 DEF ChainRight
  <2>3. producer \in {"tail", "block"} => op.entry = EntryNow(Q, k)' /\ ValueNow(Q, k)' = 0
    BY <1>1, <1>3, <1>4 DEF ChainRight
  <2> QED BY <2>2, <2>3, <1>2, <1>3 DEF ChainRight
<1>13. TailRight(Q, low)'
  <2>1. ValueNow(Q, t)' = ValueNow(Q, t)
    BY <1>4
  <2> QED BY <2>1, <1>1, <1>2, <1>3 DEF TailRight
<1> QED BY <1>7, <1>9, <1>10, <1>11, <1>12, <1>13 DEF BlocksSound

\* Whoever remains finds what it found, when entries and their blocks do.
LEMMA RemainStill ==
    ASSUME Claims, PoolTypes, OpSound, ProducerStays, CountsGrow, entries' = entries,
           NEW Q, NEW low, Numbered(Q, low), NEW d \in Taking, Remains(d), consumer[d] # "index"
    PROVE  ReaderSound(Q, low, d)'
<1>1. /\ IndexSound(Q, low) /\ ReadersSound(Q, low) /\ Q \in [Nat -> Int] /\ CountInv /\ ClaimsApart
  BY DEF Numbered, Claims, IndexSound
<1>2. KeysLast
  BY DEF KeysLast, KeyOf, ValueOf
<1>3. ReaderSound(Q, low, d)
  BY <1>1 DEF ReadersSound
<1>4. PICK a \in Nat : a = local[d].next
  BY <1>1, TakenBounds
<1>5. PICK x \in Int : x = Ord(a)
  <2>1. a \in Int
    OBVIOUS
  <2> QED BY <2>1, OrdAt
<1>6. ValueNow(Q, x)' = ValueNow(Q, x)
  BY <1>1, EntriesSame
<1>7. \E y \in Int : y = Ord(local[d].next) /\ ValueNow(Q, y)' = ValueNow(Q, y)
  BY <1>4, <1>5, <1>6
<1> QED BY <1>1, <1>2, <1>3, <1>7, RemainsSound

\* A consumer that has counted all items of its block is the only one to empty
\* the entry.
LEMMA ClearsStill ==
    ASSUME Claims, OpSound, NEW Q, NEW low, IndexSound(Q, low), ReadersSound(Q, low), NEW c, NEW to,
           Counts1(c, to), NEW a \in Nat, a = local[c].next
    PROVE  ClearsOnce'
<1>1. CountInv /\ ClaimsApart /\ ClearsOnce /\ Turns(c, "count", to)
  BY DEF Claims, Counts1
<1>2. /\ c \in Taking /\ consumer[c] = "count" /\ Taking' = Taking
      /\ \A d \in Taking : d # c => Remains(d)
      /\ \A d \in Taking : local'[d] = local[d]
  BY <1>1, TurnsIs
<1>3. CountsFrom(c) <= a /\ a < local[c].stop
  <2>1. CountsFrom(c) = a
    BY <1>2 DEF CountsFrom
  <2>2. a < local[c].stop
    BY <1>1, <1>2, TakenBounds
  <2> QED BY <2>1, <2>2
<1>4. ~ CountedOut(a)
  <2>1. low \in Nat /\ OverBelow(low)
    BY DEF IndexSound
  <2> QED BY <2>1, <1>1, <1>2, <1>3, NextAhead
<1>5. ASSUME NEW d \in Taking, d # c, consumer'[d] = "clear" PROVE Ord(local[d].next) # Ord(a)
  <2>1. consumer[d] = "clear"
    BY <1>2, <1>5 DEF Remains
  <2>2. Over(Ord(local[d].next))
    BY <2>1, <1>5 DEF ReadersSound, ReaderSound
  <2>3. a \in ItemsOf(Ord(a))
    <3>1. a \in Int
      OBVIOUS
    <3>2. Ord(a) \in Int
      BY <3>1, OrdAt
    <3> QED BY <3>1, <3>2, ItemsIs
  <2> QED BY <2>2, <2>3, <1>4 DEF Over
<1>6. ASSUME NEW d \in Taking, NEW e \in Taking, consumer'[d] = "clear", consumer'[e] = "clear",
             Ord(local[d].next) = Ord(local[e].next)
      PROVE  d = e
  <2>1. CASE d = c
    BY <2>1, <1>5, <1>6
  <2>2. CASE e = c
    BY <2>2, <1>5, <1>6
  <2>3. CASE d # c /\ e # c
    <3>1. consumer[d] = "clear" /\ consumer[e] = "clear"
      BY <2>3, <1>2, <1>6 DEF Remains
    <3> QED BY <3>1, <1>1, <1>6 DEF ClearsOnce
  <2> QED BY <2>1, <2>2, <2>3
<1> QED BY <1>2, <1>6 DEF ClearsOnce

LEMMA CountKept ==
    ASSUME Claims, PoolTypes, OpSound, BlocksOwned, NEW Q, NEW low, Numbered(Q, low),
           NEW c \in Consumers, Implicit!CountDone(c)
    PROVE  ImplicitInv' /\ UNCHANGED <<tail, head, taken>>
<1>1. /\ CountInv /\ ClaimsApart /\ CopiedOnce /\ ClearsOnce
      /\ IndexSound(Q, low) /\ ReadersSound(Q, low) /\ Q \in [Nat -> Int] /\ low \in Nat
      /\ BlocksSound(Q, low) /\ EmptyOver(Q, low) /\ DoneRight(Q, low)
  BY DEF Claims, Numbered, IndexSound, BlocksSound
<1>2. /\ consumer[c] = "count"
      /\ blocks' = [blocks EXCEPT ![local[c].block].done = Implicit!Counted(c)]
      /\ consumer' = [consumer EXCEPT ![c] = IF Implicit!Counted(c) = BlockSize THEN "clear" ELSE "advance"]
      /\ UNCHANGED <<tail, head, optimistic, overcommit, free, entries, indexes, tailBlock,
                     producer, op, taken, local>>
  BY DEF Implicit!CountDone, Implicit!counters, Implicit!index, Implicit!enqueuing
<1>3. PICK to : to = IF Implicit!Counted(c) = BlockSize THEN "clear" ELSE "advance"
  OBVIOUS
<1>4. Counts1(c, to) /\ Turns(c, "count", to)
  BY <1>2, <1>3 DEF Turns, TakingPlaces, Counts1
<1>5. /\ Continues(c) /\ c \in Taking /\ consumer'[c] = to /\ local'[c] = local[c]
      /\ ProducerStays /\ CountInv' /\ ClaimsApart' /\ Taking' = Taking
      /\ \A d \in Taking : d # c => Remains(d)
      /\ End(c)' = End(c)
  BY <1>4, TurnsIs
<1>6. /\ CountsGrow
      /\ \E x \in Int, a \in Nat : /\ a = local[c].next /\ x = Ord(a)
            /\ InBlock(c) \subseteq ItemsOf(x) /\ CountedOf(x)' = CountedOf(x) \cup InBlock(c)
            /\ CountedOf(x) \cap InBlock(c) = {}
            /\ \A y \in Int : y # x => CountedOf(y)' = CountedOf(y)
  BY <1>4, CountsMoreOf
<1>7. PICK x \in Int, a \in Nat : /\ a = local[c].next /\ x = Ord(a)
            /\ InBlock(c) \subseteq ItemsOf(x) /\ CountedOf(x)' = CountedOf(x) \cup InBlock(c)
            /\ CountedOf(x) \cap InBlock(c) = {}
            /\ \A y \in Int : y # x => CountedOf(y)' = CountedOf(y)
  BY <1>6
<1>8. x \in low..TopNo /\ ValueNow(Q, x) # 0 /\ low <= x
  <2>1. CountsFrom(c) = local[c].next
    BY <1>2 DEF CountsFrom
  <2>2. x \in low..Ord(tail - 1) /\ x \in low..TopNo /\ ValueNow(Q, x) # 0
    BY <2>1, <1>1, <1>5, <1>7, BlockThere
  <2>3. Ord(tail - 1) \in Int
    BY <1>1, NumbersAre
  <2> QED BY <2>2, <2>3, <1>1
<1>9. /\ ReaderSound(Q, low, c) /\ Finds(Q, c)
      /\ local[c].slot = SlotOf(Q, local[c].header, Ord(local[c].next))
      /\ ValueNow(Q, x) = local[c].block
  BY <1>1, <1>2, <1>5, <1>7 DEF ReadersSound, ReaderSound, Finds
<1>10. PICK m \in Nat, k \in Nat : /\ m = Cardinality(CountedOf(x)) /\ k = Cardinality(InBlock(c))
                                   /\ blocks[local[c].block].done = m
  <2>1. IsFiniteSet(ItemsOf(x))
    BY ItemsIs
  <2>2. CountedOf(x) \in SUBSET ItemsOf(x) /\ InBlock(c) \in SUBSET ItemsOf(x)
    BY <1>7 DEF CountedOf
  <2>3. IsFiniteSet(CountedOf(x)) /\ IsFiniteSet(InBlock(c))
    BY <2>1, <2>2, FS_Subset
  <2>4. Cardinality(CountedOf(x)) \in Nat /\ Cardinality(InBlock(c)) \in Nat
    BY <2>3, FS_CardinalityType
  <2>5. blocks[local[c].block].done = Cardinality(CountedOf(x))
    BY <1>1, <1>8, <1>9 DEF DoneRight
  <2> QED BY <2>4, <2>5
<1>11. PICK n \in Nat : n = m + k
  OBVIOUS
<1>12. Implicit!Counted(c) = n
  <2>1. Implicit!InBlock(c) = InBlock(c)
    BY SharedBase
  <2>2. Implicit!Counted(c) = blocks[local[c].block].done + Cardinality(InBlock(c))
    BY <2>1, SharedCard DEF Implicit!Counted
  <2> QED BY <2>2, <1>10, <1>11
<1>13. n = Cardinality(CountedOf(x)') /\ (n = BlockSize => Over(x)')
  <2>1. Cardinality(CountedOf(x)') = m + k /\ (m + k = BlockSize => Over(x)')
    BY <1>7, <1>10, CountedCard
  <2> QED BY <2>1, <1>11
<1>14. blocks' = CountedAs(ValueNow(Q, x), n)
  BY <1>2, <1>9, <1>12 DEF CountedAs
<1>15. BlocksSound(Q, low)' /\ Len(blocks') = Len(blocks) /\ blocks' \in Seq(PoolBlocks)
  BY <1>1, <1>2, <1>5, <1>6, <1>7, <1>8, <1>13, <1>14, BlocksCounted
<1>16. PoolTypes'
  <2>1. SameSlots /\ indexes' = indexes
    BY <1>5, NumbersStay DEF ProducerStays
  <2>2. entries' \in Seq(IndexEntries) /\ Len(entries') = Len(entries) /\ indexes' \in Seq(IndexHeaders)
    BY <2>1, <1>2 DEF PoolTypes
  <2>3. free' \subseteq 1..Len(blocks')
    BY <1>2, <1>15 DEF PoolTypes
  <2> QED BY <2>1, <2>2, <2>3, <1>15, TypesKept
<1>17. BlocksOwned'
  <2>1. Holding' = Holding
    <3>1. Holding \subseteq Taking /\ Holding' \subseteq Taking'
      BY DEF Holding, Taking
    <3>2. \A d \in Taking : d # c => consumer'[d] = consumer[d]
      BY <1>5 DEF Remains
    <3> QED BY <3>1, <3>2, <1>2, <1>3, <1>5 DEF Holding
  <2> QED BY <2>1, <1>2, <1>15 DEF BlocksOwned, ValueOf
<1>18. Claims'
  <2>1. CopiesFrom(c)' = CopiesFrom(c)
    BY <1>2, <1>3, <1>5 DEF CopiesFrom
  <2>2. CopiedOnce'
    BY <2>1, <1>1, <1>2, <1>5, ContinuesCopies
  <2>3. ClearsOnce'
    BY <1>1, <1>4, <1>7, ClearsStill
  <2> QED BY <2>2, <2>3, <1>5 DEF Claims
<1>19. Finds(Q, c)'
  <2>1. PICK e \in Nat : e = End(c) /\ a < e
    BY <1>1, <1>5, <1>7, TakenBounds
  <2>2. NeedsFrom(c) = a /\ (NeedsFrom(c)' = a \/ NeedsFrom(c)' = e)
    BY <2>1, <1>2, <1>3, <1>5, <1>7 DEF NeedsFrom
  <2>3. NeedsFrom(c)' \in Nat /\ NeedsFrom(c) <= NeedsFrom(c)'
    BY <2>1, <2>2
  <2>4. local'[c].header = local[c].header /\ local'[c].stop = local[c].stop
    BY <1>5
  <2> QED BY <2>3, <2>4, <1>1, <1>5, <1>9, FindsStill
<1>20. ReaderSound(Q, low, c)'
  <2>1. PICK hd : hd = local[c].header
    OBVIOUS
  <2>2. local[c].slot = SlotOf(Q, hd, x)'
    BY <1>2, <1>7, <1>9, <2>1 DEF SlotOf, Cap
  <2>3. ValueNow(Q, x)' = local[c].block /\ local[c].block # 0
    <3>1. ValueNow(Q, x)' = ValueNow(Q, x)
      BY <1>1, <1>2, <1>5, EntriesSame
    <3> QED BY <3>1, <1>8, <1>9
  <2>4. to = "clear" => Over(x)'
    BY <1>3, <1>12, <1>13
  <2>5. to \in {"clear", "advance"}
    BY <1>3
  <2>6. /\ local'[c].header = hd /\ local'[c].slot = local[c].slot /\ local'[c].next = a
        /\ local'[c].block = local[c].block /\ consumer'[c] = to
    BY <1>5, <1>7, <2>1
  <2> QED BY <2>2, <2>3, <2>4, <2>5, <2>6, <1>7, <1>8, <1>19 DEF ReaderSound, Finds
<1>21. \A d \in Taking' : consumer'[d] # "index" => ReaderSound(Q, low, d)'
  <2> SUFFICES ASSUME NEW d \in Taking, consumer'[d] # "index" PROVE ReaderSound(Q, low, d)'
    BY <1>5
  <2>1. CASE d = c
    BY <2>1, <1>20
  <2>2. CASE d # c
    <3>1. Remains(d) /\ consumer[d] # "index"
      BY <2>2, <1>5 DEF Remains
    <3> QED BY <3>1, <1>2, <1>5, <1>6, RemainStill
  <2> QED BY <2>1, <2>2
<1>22. KeysLast
  BY <1>2 DEF KeysLast, KeyOf, ValueOf
<1> QED BY <1>2, <1>5, <1>6, <1>15, <1>16, <1>17, <1>18, <1>21, <1>22, StepKept

\* An entry is emptied.  Other numbers from low on have other entries.
LEMMA OthersHold ==
    ASSUME CountInv, OpSound, PoolTypes, BlocksOwned, NEW Q, NEW low, IndexSound(Q, low), ProducerStays,
           NEW x \in low..KeyedNo, entries' = ValuedAs(EntryNow(Q, x), 0)
    PROVE  /\ \A y \in low..KeyedNo : y # x => ValueNow(Q, y)' = ValueNow(Q, y)
           /\ \A y \in Int : ValueNow(Q, y)' = ValueNow(Q, y) \/ ValueNow(Q, y)' = 0
           /\ \A y \in Int : EntryNow(Q, y)' = EntryNow(Q, y)
           /\ entries' \in Seq(IndexEntries) /\ KeysLast
           /\ \A f \in 1..Len(entries) : ValueOf(f)' = IF f = EntryNow(Q, x) THEN 0 ELSE ValueOf(f)
<1>1. Q \in [Nat -> Int] /\ low \in Nat
  BY DEF IndexSound
<1>2. KeyedNo \in Int
  BY NumbersAre
<1>3. x \in Int /\ \A y \in low..KeyedNo : y \in Int
  BY <1>1, <1>2
<1>4. PICK g \in 1..Len(entries) : g = EntryNow(Q, x)
  BY <1>1, <1>3, EntryNowIs
<1>5. /\ entries' \in Seq(IndexEntries) /\ Len(entries') = Len(entries)
      /\ \A f \in 1..Len(entries) : KeyOf(f)' = KeyOf(f)
      /\ \A f \in 1..Len(entries) : ValueOf(f)' = IF f = g THEN 0 ELSE ValueOf(f)
  <2>1. entries' = ValuedAs(g, 0)
    BY <1>4
  <2>2. PICK z \in Nat : z = 0
    OBVIOUS
  <2>3. /\ entries' \in Seq(IndexEntries) /\ Len(entries') = Len(entries)
        /\ \A f \in 1..Len(entries) : KeyOf(f)' = KeyOf(f)
        /\ \A f \in 1..Len(entries) : ValueOf(f)' = IF f = g THEN z ELSE ValueOf(f)
    BY <2>1, <2>2, ValueSet
  <2> QED BY <2>2, <2>3
<1>6. KeysLast
  BY <1>5 DEF KeysLast
<1>7. \A y \in Int : EntryNow(Q, y)' = EntryNow(Q, y) /\ EntryNow(Q, y) \in 1..Len(entries)
  BY <1>1, NumbersStay, SlotsKept, EntryNowIs
<1>8. \A y \in Int : ValueNow(Q, y)' = IF EntryNow(Q, y) = g THEN 0 ELSE ValueNow(Q, y)
  <2> TAKE y \in Int
  <2>1. PICK f \in 1..Len(entries) : f = EntryNow(Q, y) /\ f = EntryNow(Q, y)'
    BY <1>7
  <2>2. ValueNow(Q, y)' = ValueOf(f)' /\ ValueNow(Q, y) = ValueOf(f)
    BY <2>1 DEF ValueNow, ValueOf
  <2> QED BY <2>1, <2>2, <1>5
<1>9. \A y \in low..KeyedNo : y # x => EntryNow(Q, y) # g
  BY <1>4, ValuesApart
<1>10. \A y \in low..KeyedNo : y # x => ValueNow(Q, y)' = ValueNow(Q, y)
  BY <1>3, <1>8, <1>9
<1>11. \A y \in Int : ValueNow(Q, y)' = ValueNow(Q, y) \/ ValueNow(Q, y)' = 0
  BY <1>8
<1>12. \A f \in 1..Len(entries) : ValueOf(f)' = IF f = EntryNow(Q, x) THEN 0 ELSE ValueOf(f)
  BY <1>4, <1>5
<1> QED BY <1>5, <1>6, <1>7, <1>10, <1>11, <1>12

\* The blocks after an entry has been emptied whose items are all over.
LEMMA BlocksEmptied ==
    ASSUME CountInv, OpSound, PoolTypes, BlocksOwned, NEW Q, NEW low, IndexSound(Q, low), ProducerStays,
           NEW x \in Int, x \in low..KeyedNo, x <= Ord(tail - 1), entries' = ValuedAs(EntryNow(Q, x), 0),
           BlocksSound(Q, low), CountsStay, Over(x), blocks' = blocks
    PROVE  BlocksSound(Q, low)'
<1>1. /\ Q \in [Nat -> Int] /\ low \in Nat
      /\ EmptyOver(Q, low) /\ DoneRight(Q, low) /\ CellsRight(Q, low) /\ ChainRight(Q) /\ TailRight(Q, low)
  BY DEF IndexSound, BlocksSound
<1>2. /\ tail' = tail /\ Ord(tail - 1)' = Ord(tail - 1) /\ op' = op /\ producer' = producer
      /\ tailBlock' = tailBlock /\ TopNo' = TopNo /\ KeyedNo' = KeyedNo
  BY NumbersStay DEF ProducerStays
<1>3. PICK t \in Int, p \in Int, k \in Int, l \in Nat :
         t = Ord(tail - 1) /\ p = TopNo /\ k = KeyedNo /\ l = Len(op.chain) /\ p <= k /\ p = t + l /\ t <= p
  BY NumbersAre
<1>4. /\ \A y \in low..k : y # x => ValueNow(Q, y)' = ValueNow(Q, y)
      /\ \A y \in Int : ValueNow(Q, y)' = ValueNow(Q, y) \/ ValueNow(Q, y)' = 0
      /\ \A y \in Int : EntryNow(Q, y)' = EntryNow(Q, y)
  BY <1>3, OthersHold
<1>5. \A y \in low..p : y \in Int /\ y \in low..k
  BY <1>1, <1>3
<1>6. ASSUME NEW y \in Int PROVE (Over(y)' <=> Over(y)) /\ CountedOf(y)' = CountedOf(y)
  <2>1. ItemsOf(y)' = ItemsOf(y)
    BY DEF ItemsOf, First
  <2>2. \A i \in ItemsOf(y) : i \in Int
    BY ItemsIs
  <2>3. \A i \in ItemsOf(y) : CountedOut(i)' <=> CountedOut(i)
    BY <2>2 DEF CountsStay
  <2> QED BY <2>1, <2>3 DEF Over, CountedOf
<1>7. EmptyOver(Q, low)'
  <2>1. ASSUME NEW y \in low..p, ValueNow(Q, y)' = 0 PROVE Over(y)'
    <3>1. CASE y = x
      BY <3>1, <1>6
    <3>2. CASE y # x
      <4>1. ValueNow(Q, y) = 0
        BY <3>2, <2>1, <1>4, <1>5
      <4>2. Over(y)
        BY <4>1, <1>1, <1>3 DEF EmptyOver
      <4> QED BY <4>2, <1>5, <1>6
    <3> QED BY <3>1, <3>2
  <2> QED BY <2>1, <1>2, <1>3 DEF EmptyOver
<1>8. DoneRight(Q, low)'
  <2> SUFFICES ASSUME NEW y \in low..p, ValueNow(Q, y)' # 0
               PROVE  blocks'[ValueNow(Q, y)'].done = Cardinality(CountedOf(y)')
    BY <1>2, <1>3 DEF DoneRight
  <2>1. ValueNow(Q, y)' = ValueNow(Q, y) /\ CountedOf(y)' = CountedOf(y)
    BY <1>4, <1>5, <1>6
  <2> QED BY <2>1, <1>1, <1>3 DEF DoneRight
<1>9. CellsRight(Q, low)'
  <2> SUFFICES ASSUME NEW y \in low..p, ValueNow(Q, y)' # 0, NEW o \in Offsets, First(y) + o < tail
               PROVE  blocks'[ValueNow(Q, y)'].cells[o] = First(y) + o + 1
    BY <1>2, <1>3 DEF CellsRight, First
  <2>1. ValueNow(Q, y)' = ValueNow(Q, y)
    BY <1>4, <1>5
  <2> QED BY <2>1, <1>1, <1>3 DEF CellsRight
<1>10. ChainRight(Q)'
  <2>1. ASSUME NEW j \in 1..l PROVE ValueNow(Q, t + j)' = op.chain[j] /\ op.chain[j] # 0
    <3>1. t + j \in low..k /\ t + j # x
      <4>1. PICK n \in Nat : n = low
        BY <1>1
      <4>2. n <= x /\ x <= t
        BY <4>1, <1>3
      <4>3. t + l <= k
        BY <1>3
      <4>4. n <= t + j /\ t + j <= k /\ x < t + j /\ t + j \in Int
        BY <4>2, <4>3
      <4> QED BY <4>1, <4>4
    <3>2. ValueNow(Q, t + j) = op.chain[j] /\ op.chain[j] # 0
      BY <1>1, <1>3 DEF ChainRight
    <3> QED BY <3>1, <3>2, <1>4
  <2>2. producer \in {"tail", "block"} => op.entry = EntryNow(Q, k)' /\ ValueNow(Q, k)' = 0
    <3>1. producer \in {"tail", "block"} => op.entry = EntryNow(Q, k) /\ ValueNow(Q, k) = 0
      BY <1>1, <1>3 DEF ChainRight
    <3> QED BY <3>1, <1>4
  <2> QED BY <2>1, <2>2, <1>2, <1>3 DEF ChainRight
<1>11. TailRight(Q, low)'
  <2>1. ValueNow(Q, t)' = ValueNow(Q, t) \/ ValueNow(Q, t)' = 0
    BY <1>4
  <2> QED BY <2>1, <1>1, <1>2, <1>3 DEF TailRight
<1> QED BY <1>7, <1>8, <1>9, <1>10, <1>11 DEF BlocksSound

\* Its block is in the hands of the consumer.
LEMMA ClearOwned ==
    ASSUME PoolTypes, BlocksOwned, NEW c \in Consumers, c \notin Holding, Holding' = Holding \cup {c},
           local' = local, UNCHANGED <<blocks, free>>, NEW g \in 1..Len(entries),
           ValueOf(g) = local[c].block, ValueOf(g) # 0, Len(entries') = Len(entries),
           \A f \in 1..Len(entries) : ValueOf(f)' = IF f = g THEN 0 ELSE ValueOf(f)
    PROVE  BlocksOwned'
<1>1. PICK v \in 1..Len(blocks) : v = local[c].block /\ v = ValueOf(g) /\ v \notin free
  <2>1. ValueOf(g) \in 0..Len(blocks) /\ ValueOf(g) \notin free
    BY DEF BlocksOwned
  <2>2. Len(blocks) \in Nat
    BY LastIs
  <2> QED BY <2>1, <2>2
<1>2. \A f \in 1..Len(entries) : ValueOf(f)' = IF f = g THEN 0 ELSE ValueOf(f)
  OBVIOUS
<1>3. 0 \notin free /\ 0 \in 0..Len(blocks)
  <2>1. Len(blocks) \in Nat
    BY LastIs
  <2> QED BY <2>1 DEF PoolTypes
<1>4. \A f \in 1..Len(entries) : ValueOf(f)' \in 0..Len(blocks) /\ ValueOf(f)' \notin free
  BY <1>2, <1>3 DEF BlocksOwned
<1>5. \A e, f \in 1..Len(entries) : ValueOf(e)' = ValueOf(f)' /\ ValueOf(e)' # 0 => e = f
  BY <1>2 DEF BlocksOwned
<1>6. \A e \in 1..Len(entries) : ValueOf(e)' # v
  <2> TAKE e \in 1..Len(entries)
  <2>1. CASE e = g
    <3>1. ValueOf(e)' = 0 /\ v # 0
      BY <2>1, <1>1, <1>2
    <3> QED BY <3>1
  <2>2. CASE e # g
    <3>1. ValueOf(e)' = ValueOf(e)
      BY <2>2, <1>2
    <3>2. ValueOf(e) # v
      BY <2>2, <1>1 DEF BlocksOwned
    <3> QED BY <3>1, <3>2
  <2> QED BY <2>1, <2>2
<1>7. ASSUME NEW d \in Holding
      PROVE  /\ local[d].block \in 1..Len(blocks) /\ local[d].block \notin free /\ local[d].block # v
             /\ \A e \in 1..Len(entries) : ValueOf(e)' # local[d].block
  <2>1. /\ local[d].block \in 1..Len(blocks) /\ local[d].block \notin free
        /\ \A e \in 1..Len(entries) : ValueOf(e) # local[d].block
    BY DEF BlocksOwned
  <2>2. local[d].block # v
    BY <2>1, <1>1
  <2>3. ASSUME NEW e \in 1..Len(entries) PROVE ValueOf(e)' # local[d].block
    <3>1. ValueOf(e)' = 0 \/ ValueOf(e)' = ValueOf(e)
      BY <1>2
    <3>2. local[d].block # 0
      BY <2>1
    <3> QED BY <3>1, <3>2, <2>1
  <2> QED BY <2>1, <2>2, <2>3
<1>8. \A d \in Holding \cup {c} : /\ local[d].block \in 1..Len(blocks) /\ local[d].block \notin free
                                  /\ \A e \in 1..Len(entries) : ValueOf(e)' # local[d].block
  BY <1>1, <1>6, <1>7
<1>9. \A d, f \in Holding \cup {c} : local[d].block = local[f].block => d = f
  BY <1>1, <1>7 DEF BlocksOwned
<1>10. \A b \in 1..Len(blocks) : \/ b \in free
                                 \/ \E e \in 1..Len(entries) : ValueOf(e)' = b
                                 \/ \E d \in Holding \cup {c} : local[d].block = b
  <2> TAKE b \in 1..Len(blocks)
  <2>1. CASE b = v
    BY <2>1, <1>1
  <2>2. CASE b # v
    BY <2>2, <1>1, <1>2 DEF BlocksOwned
  <2> QED BY <2>1, <2>2
<1> QED BY <1>4, <1>5, <1>8, <1>9, <1>10 DEF BlocksOwned

\* Whoever remains while an entry is emptied has another number, or has done
\* with the block.
LEMMA RemainElsewhere ==
    ASSUME Claims, PoolTypes, OpSound, BlocksOwned, ProducerStays, CountsGrow, NEW Q, NEW low, Numbered(Q, low),
           NEW c \in Taking, consumer[c] = "clear", NEW x \in Int, x = Ord(local[c].next), x \in low..KeyedNo,
           Over(x), entries' = ValuedAs(EntryNow(Q, x), 0),
           NEW d \in Taking, d # c, Remains(d), consumer[d] # "index"
    PROVE  ReaderSound(Q, low, d)'
<1>1. /\ IndexSound(Q, low) /\ ReadersSound(Q, low) /\ Q \in [Nat -> Int] /\ low \in Nat
      /\ CountInv /\ ClaimsApart /\ ClearsOnce /\ OverBelow(low)
  BY DEF Numbered, Claims, IndexSound
<1>2. ReaderSound(Q, low, d)
  BY <1>1 DEF ReadersSound
<1>3. PICK a \in Nat, b \in Nat, h \in Nat, s \in Nat :
        a = local[d].next /\ b = local[d].stop /\ a < b /\ h = head /\ s = tail /\ b <= h /\ h <= s
  <2>1. PICK a \in Nat, b \in Nat, e \in Nat, h \in Nat, s \in Nat :
          /\ a = local[d].next /\ b = local[d].stop /\ e = End(d) /\ a < e /\ e <= b
          /\ h = head /\ s = tail /\ b <= h /\ h <= s
    BY <1>1, TakenBounds
  <2>2. a < b
    BY <2>1
  <2> QED BY <2>1, <2>2
<1>4. PICK y \in Int : y = Ord(a)
  <2>1. a \in Int
    OBVIOUS
  <2> QED BY <2>1, OrdAt
<1>5. PICK t \in Int, k \in Int : t = Ord(tail - 1) /\ k = KeyedNo /\ t <= k
  <2>1. PICK t \in Int, p \in Int, k \in Int : t = Ord(tail - 1) /\ p = TopNo /\ k = KeyedNo /\ t <= p /\ p <= k
    BY <1>1, NumbersAre
  <2>2. t <= k
    BY <2>1
  <2> QED BY <2>1, <2>2
<1>6. y <= t
  <2>1. a <= s - 1 /\ a \in Int /\ s - 1 \in Int
    BY <1>3
  <2>2. Ord(a) <= Ord(s - 1)
    BY <2>1, OrdMono
  <2> QED BY <2>2, <1>3, <1>4, <1>5
<1>7. consumer[d] \in {"count", "clear"} => low <= y /\ y # x
  <2>1. CASE consumer[d] = "clear"
    <3>1. low <= y
      BY <2>1, <1>2, <1>3, <1>4 DEF ReaderSound
    <3>2. y # x
      BY <2>1, <1>1, <1>3, <1>4 DEF ClearsOnce
    <3> QED BY <3>1, <3>2
  <2>2. CASE consumer[d] = "count"
    <3>1. CountsFrom(d) <= a /\ a < local[d].stop
      BY <2>2, <1>3 DEF CountsFrom
    <3>2. ~ CountedOut(a) /\ y \in low..t
      BY <3>1, <1>1, <1>4, <1>5, NextAhead
    <3>3. low <= y
      BY <3>2, <1>1, <1>5
    <3>4. a \in ItemsOf(y)
      <4>1. a \in Int
        OBVIOUS
      <4> QED BY <4>1, <1>4, ItemsIs
    <3>5. y # x
      BY <3>2, <3>4 DEF Over
    <3> QED BY <3>3, <3>5
  <2> QED BY <2>1, <2>2
<1>8. KeysLast /\ \A z \in low..KeyedNo : z # x => ValueNow(Q, z)' = ValueNow(Q, z)
  BY <1>1, OthersHold
<1>9. consumer[d] \in {"count", "clear"} => ValueNow(Q, y)' = ValueNow(Q, y)
  <2> SUFFICES ASSUME consumer[d] \in {"count", "clear"} PROVE ValueNow(Q, y)' = ValueNow(Q, y)
    OBVIOUS
  <2>1. low <= y /\ y # x /\ y <= k
    BY <1>5, <1>6, <1>7
  <2>2. y \in low..k
    BY <2>1, <1>1
  <2> QED BY <2>1, <2>2, <1>5, <1>8
<1>10. consumer[d] \in {"count", "clear"} =>
         \E z \in Int : z = Ord(local[d].next) /\ ValueNow(Q, z)' = ValueNow(Q, z)
  BY <1>3, <1>4, <1>9
<1> QED BY <1>1, <1>2, <1>8, <1>10, RemainsSound

LEMMA ClearKept ==
    ASSUME Claims, PoolTypes, OpSound, BlocksOwned, NEW Q, NEW low, Numbered(Q, low),
           NEW c \in Consumers, Implicit!ClearEntry(c)
    PROVE  ImplicitInv' /\ UNCHANGED <<tail, head, taken>>
<1>1. /\ CountInv /\ ClaimsApart /\ CopiedOnce /\ ClearsOnce
      /\ IndexSound(Q, low) /\ ReadersSound(Q, low) /\ Q \in [Nat -> Int] /\ low \in Nat
      /\ BlocksSound(Q, low)
  BY DEF Claims, Numbered, IndexSound
<1>2. /\ consumer[c] = "clear"
      /\ entries' = ValuedAs(Implicit!Entry(c), 0)
      /\ consumer' = [consumer EXCEPT ![c] = "free"]
      /\ UNCHANGED <<tail, head, optimistic, overcommit, blocks, free, indexes, tailBlock,
                     producer, op, taken, local>>
  BY DEF Implicit!ClearEntry, Implicit!At, Implicit!counters, Implicit!pool, Implicit!enqueuing, ValuedAs,
         Implicit!NoBlock
<1>3. Turns(c, "clear", "free")
  BY <1>2 DEF Turns, TakingPlaces
<1>4. /\ Continues(c) /\ c \in Taking /\ consumer'[c] = "free" /\ local'[c] = local[c]
      /\ ProducerStays /\ CountInv' /\ ClaimsApart' /\ Taking' = Taking /\ ClearsOnce'
      /\ \A d \in Taking : d # c => Remains(d)
      /\ End(c)' = End(c)
  BY <1>3, TurnsIs
<1>5. CountsFrom(c)' = CountsFrom(c) /\ CopiesFrom(c)' = CopiesFrom(c) /\ NeedsFrom(c) = local[c].next
      /\ NeedsFrom(c)' = End(c)
  BY <1>2, <1>4 DEF CountsFrom, CopiesFrom, NeedsFrom
<1>6. CopiedOnce' /\ CountsStay
  BY <1>1, <1>2, <1>4, <1>5, ContinuesCopies, ContinuesCounts
<1>7. Claims' /\ CountsGrow
  BY <1>4, <1>6 DEF Claims, CountsStay, CountsGrow
<1>8. PICK a \in Nat, b \in Nat, e \in Nat, h \in Nat, s \in Nat :
        /\ a = local[c].next /\ b = local[c].stop /\ e = End(c) /\ a < e /\ e <= b
        /\ h = head /\ s = tail /\ b <= h /\ h <= s
  BY <1>1, <1>4, TakenBounds
<1>9. PICK x \in Int : x = Ord(a)
  <2>1. a \in Int
    OBVIOUS
  <2> QED BY <2>1, OrdAt
<1>10. /\ ReaderSound(Q, low, c) /\ Finds(Q, c)
       /\ local[c].slot = SlotOf(Q, local[c].header, Ord(local[c].next))
       /\ ValueNow(Q, x) = local[c].block /\ local[c].block # 0
       /\ low <= x /\ Over(x)
  BY <1>1, <1>2, <1>4, <1>8, <1>9 DEF ReadersSound, ReaderSound, Finds
<1>11. x <= Ord(tail - 1) /\ x \in low..KeyedNo
  <2>1. PICK t \in Int, p \in Int, k \in Int : t = Ord(tail - 1) /\ p = TopNo /\ k = KeyedNo /\ t <= p /\ p <= k
    BY <1>1, NumbersAre
  <2>2. x <= t
    <3>1. a <= s - 1 /\ a \in Int /\ s - 1 \in Int
      BY <1>8
    <3>2. Ord(a) <= Ord(s - 1)
      BY <3>1, OrdMono
    <3> QED BY <3>2, <1>8, <1>9, <2>1
  <2>3. x <= k
    BY <2>1, <2>2
  <2>4. x \in low..k
    BY <2>3, <1>1, <1>10
  <2> QED BY <2>1, <2>2, <2>4
<1>12. entries' = ValuedAs(EntryNow(Q, x), 0)
  <2>1. Implicit!Entry(c) = EntryNow(Q, Ord(local[c].next))
    BY <1>1, <1>4, <1>5, <1>10, EntryFound
  <2> QED BY <2>1, <1>2, <1>8, <1>9
<1>13. PICK g \in 1..Len(entries) : g = EntryNow(Q, x) /\ ValueOf(g) = local[c].block /\ ValueOf(g) # 0
  BY <1>1, <1>10, EntryNowIs DEF ValueNow
<1>14. /\ entries' \in Seq(IndexEntries) /\ KeysLast /\ Len(entries') = Len(entries)
       /\ \A f \in 1..Len(entries) : ValueOf(f)' = IF f = g THEN 0 ELSE ValueOf(f)
  BY <1>1, <1>4, <1>11, <1>12, <1>13, OthersHold DEF KeysLast
<1>15. BlocksSound(Q, low)'
  BY <1>1, <1>2, <1>4, <1>6, <1>10, <1>11, <1>12, BlocksEmptied
<1>16. PoolTypes'
  <2>1. SameSlots /\ indexes' = indexes
    BY <1>4, NumbersStay DEF ProducerStays
  <2>2. indexes' \in Seq(IndexHeaders) /\ blocks' \in Seq(PoolBlocks) /\ free' \subseteq 1..Len(blocks')
    BY <2>1, <1>2 DEF PoolTypes
  <2> QED BY <2>1, <2>2, <1>14, TypesKept
<1>17. BlocksOwned'
  <2>1. Holding' = Holding \cup {c} /\ c \notin Holding
    <3>1. Holding \subseteq Taking /\ Holding' \subseteq Taking'
      BY DEF Holding, Taking
    <3>2. \A d \in Taking : d # c => consumer'[d] = consumer[d]
      BY <1>4 DEF Remains
    <3> QED BY <3>1, <3>2, <1>2, <1>4 DEF Holding
  <2> QED BY <2>1, <1>2, <1>13, <1>14, ClearOwned
<1>18. Finds(Q, c)'
  <2>1. NeedsFrom(c)' \in Nat /\ NeedsFrom(c) <= NeedsFrom(c)'
    BY <1>5, <1>8
  <2>2. local'[c].header = local[c].header /\ local'[c].stop = local[c].stop
    BY <1>4
  <2> QED BY <2>1, <2>2, <1>1, <1>4, <1>10, FindsStill
<1>19. ReaderSound(Q, low, c)'
  <2>1. PICK hd : hd = local[c].header
    OBVIOUS
  <2>2. local[c].slot = SlotOf(Q, hd, x)'
    BY <1>2, <1>8, <1>9, <1>10, <2>1 DEF SlotOf, Cap
  <2>3. local'[c].header = hd /\ local'[c].slot = local[c].slot /\ local'[c].next = a /\ consumer'[c] = "free"
    BY <1>4, <1>8, <2>1
  <2> QED BY <2>2, <2>3, <1>9, <1>18 DEF ReaderSound, Finds
<1>20. \A d \in Taking' : consumer'[d] # "index" => ReaderSound(Q, low, d)'
  <2> SUFFICES ASSUME NEW d \in Taking, consumer'[d] # "index" PROVE ReaderSound(Q, low, d)'
    BY <1>4
  <2>1. CASE d = c
    BY <2>1, <1>19
  <2>2. CASE d # c
    <3>1. Remains(d) /\ consumer[d] # "index"
      BY <2>2, <1>4 DEF Remains
    <3>2. x = Ord(local[c].next)
      BY <1>8, <1>9
    <3> QED BY <3>1, <3>2, <2>2, <1>2, <1>4, <1>7, <1>10, <1>11, <1>12, RemainElsewhere
  <2> QED BY <2>1, <2>2
<1> QED BY <1>2, <1>4, <1>7, <1>14, <1>15, <1>16, <1>17, <1>20, StepKept

-----------------------------------------------------------------------------
\* All the steps.

\* Nothing changes.
LEMMA StutterKept ==
    ASSUME Claims, PoolTypes, OpSound, BlocksOwned, NEW Q, NEW low, Numbered(Q, low),
           UNCHANGED Implicit!vars
    PROVE  ImplicitInv' /\ UNCHANGED <<tail, head, taken>>
<1>1. /\ UNCHANGED <<tail, head, optimistic, overcommit, consumer, local, taken>>
      /\ UNCHANGED <<blocks, free, entries, indexes, tailBlock, producer, op>>
  BY DEF Implicit!vars, Implicit!counters, Implicit!pool, Implicit!index, Implicit!enqueuing, Implicit!reading
<1>2. Steady
  BY <1>1 DEF Steady, Still
<1>3. Claims'
  <2>1. tail' \in Nat /\ tail <= tail'
    BY <1>1 DEF Claims, CountInv, CountTypes
  <2> QED BY <2>1, <1>2, ClaimsSteady
<1>4. Taking' = Taking /\ Holding' = Holding /\ \A i : CountedOut(i)' <=> CountedOut(i)
  BY <1>2, SteadyKeeps DEF Steady
<1>5. Untouched
  BY <1>1, <1>4 DEF Untouched, ProducerStays
<1>6. \A d \in Taking' : Remains(d)
  BY <1>1, <1>4 DEF Remains
<1>7. ImplicitInv'
  BY <1>3, <1>4, <1>5, <1>6, UntouchedKept DEF CountsStay
<1> QED BY <1>1, <1>7

LEMMA EnqueuesKept ==
    ASSUME Claims, PoolTypes, OpSound, BlocksOwned, NEW Q, NEW low, Numbered(Q, low), Implicit!Produce
    PROVE  ImplicitInv' /\ UNCHANGED <<head, taken>> /\ (tail' = tail \/ tail' > tail)
<1>1. CASE Implicit!Begin("one", 1) \/ \E n \in 1..MaxBulk : Implicit!Begin("bulk", n)
  <2>1. \E kind \in {"one", "bulk"}, n \in Nat : n >= 1 /\ Implicit!Begin(kind, n)
    BY <1>1
  <2>2. PICK kind \in {"one", "bulk"}, n \in Nat : n >= 1 /\ Implicit!Begin(kind, n)
    BY <2>1
  <2>3. ImplicitInv' /\ UNCHANGED <<head, taken, tail>>
    BY <2>2, OpensKept
  <2> QED BY <2>3
<1>2. CASE Implicit!Grow
  BY <1>2, GrowingKept
<1>3. CASE Implicit!SetKey
  <2>1. Q \in [Nat -> Int] /\ low \in Nat
    BY DEF Numbered, IndexSound
  <2> QED BY <2>1, <1>3, SetKeyKept
<1>4. CASE Implicit!SetTail
  BY <1>4, SetTailKept
<1>5. CASE Implicit!TakeBlock
  BY <1>5, TakeBlockKept
<1>6. CASE Implicit!AllocationFails
  BY <1>6, FailureKept
<1>7. CASE Implicit!Publish
  BY <1>7, PublishingKept
<1> QED BY <1>1, <1>2, <1>3, <1>4, <1>5, <1>6, <1>7 DEF Implicit!Produce

LEMMA DequeuesKept ==
    ASSUME Claims, PoolTypes, OpSound, BlocksOwned, NEW Q, NEW low, Numbered(Q, low),
           NEW c \in Consumers, Implicit!Consume(c)
    PROVE  /\ ImplicitInv'
           /\ \/ UNCHANGED <<tail, head, taken>>
              \/ head' \in (head + 1)..tail /\ UNCHANGED <<tail, taken>>
              \/ Delivers(c) /\ UNCHANGED <<tail, head>>
<1>1. CASE Implicit!CountItems(c) /\ UNCHANGED <<Implicit!pool, Implicit!index, Implicit!enqueuing>>
  <2>1. CountItems(c)
    BY <1>1, SharedCounts
  <2>2. tail' = tail
    <3>1. \/ Reserve(c) \/ Claim(c) \/ \E max : Look(c, max)
      BY <2>1 DEF CountItems
    <3> QED BY <3>1 DEF Reserve, Claim, Look, counters
  <2>3. Aside(c)
    BY <1>1, <2>2, AsideIs DEF Implicit!pool, Implicit!index, Implicit!enqueuing
  <2>4. CASE Reserve(c)
    BY <2>3, <2>4, ReserveIdles
  <2>5. CASE Claim(c)
    BY <2>3, <2>5, ClaimTakes
  <2>6. CASE \E max \in {1, MaxBulk} : Look(c, max)
    <3>1. PICK max \in Nat \ {0} : Look(c, max)
      BY <2>6, BaseAssumption
    <3>2. ImplicitInv' /\ UNCHANGED <<tail, head, taken>>
      BY <2>3, <3>1, LookIdles
    <3> QED BY <3>2
  <2> QED BY <2>1, <2>4, <2>5, <2>6 DEF CountItems
<1>2. CASE Implicit!LoadIndex(c)
  BY <1>2, LoadIndexKept
<1>3. CASE Implicit!LoadTail(c)
  BY <1>3, LoadTailKept
<1>4. CASE Implicit!LoadKey(c)
  BY <1>4, LoadKeyKept
<1>5. CASE Implicit!Copy(c)
  BY <1>5, CopyItems
<1>6. CASE Implicit!CountDone(c)
  BY <1>6, CountKept
<1>7. CASE Implicit!ClearEntry(c)
  BY <1>7, ClearKept
<1>8. CASE Implicit!FreeBlock(c)
  BY <1>8, FreeKept
<1>9. CASE Implicit!Advance(c)
  BY <1>9, AdvanceKept
<1> QED BY <1>1, <1>2, <1>3, <1>4, <1>5, <1>6, <1>7, <1>8, <1>9 DEF Implicit!Consume

LEMMA ImplicitStepKept ==
    ASSUME ImplicitInv, [Implicit!Next]_(Implicit!vars)
    PROVE  ImplicitInv' /\ [Queue!Next]_<<tail, head, taken>>
<1>1. Claims /\ PoolTypes /\ OpSound /\ BlocksOwned
  BY DEF ImplicitInv
<1>2. PICK Q, low : Numbered(Q, low)
  BY DEF ImplicitInv
<1>3. CASE Implicit!Produce
  <2>1. ImplicitInv' /\ UNCHANGED <<head, taken>> /\ (tail' = tail \/ tail' > tail)
    BY <1>1, <1>2, <1>3, EnqueuesKept
  <2>2. [Queue!Next]_<<tail, head, taken>>
    BY <2>1 DEF Queue!Next, Queue!Publish
  <2> QED BY <2>1, <2>2
<1>4. ASSUME NEW c \in Consumers, Implicit!Consume(c)
      PROVE  ImplicitInv' /\ [Queue!Next]_<<tail, head, taken>>
  <2>1. /\ ImplicitInv'
        /\ \/ UNCHANGED <<tail, head, taken>>
           \/ head' \in (head + 1)..tail /\ UNCHANGED <<tail, taken>>
           \/ Delivers(c) /\ UNCHANGED <<tail, head>>
    BY <1>1, <1>2, <1>4, DequeuesKept
  <2>2. head' \in (head + 1)..tail /\ UNCHANGED <<tail, taken>> => Queue!Next
    BY DEF Queue!Next, Queue!Claim
  <2>3. Delivers(c) /\ UNCHANGED <<tail, head>> => Queue!Next
    BY DEF Delivers, Queue!Next, Queue!Deliver
  <2> QED BY <2>1, <2>2, <2>3
<1>5. CASE UNCHANGED Implicit!vars
  <2>1. ImplicitInv' /\ UNCHANGED <<tail, head, taken>>
    BY <1>1, <1>2, <1>5, StutterKept
  <2> QED BY <2>1
<1> QED BY <1>3, <1>4, <1>5 DEF Implicit!Next

-----------------------------------------------------------------------------
\* The beginning.  The newest number is -1; the first index has number x in
\* slot (x + InitialIndex) % InitialIndex.
CountsBegin ==
    /\ tail = 0 /\ head = 0 /\ optimistic = 0 /\ overcommit = 0 /\ taken = {}
    /\ consumer = [c \in Consumers |-> "idle"] /\ local = [c \in Consumers |-> NoLocal]

LEMMA ClaimsBegin == ASSUME CountsBegin PROVE Claims /\ Taking = {} /\ Holding = {}
<1>1. /\ tail = 0 /\ head = 0 /\ optimistic = 0 /\ overcommit = 0 /\ taken = {}
      /\ consumer = [c \in Consumers |-> "idle"] /\ local = [c \in Consumers |-> NoLocal]
  BY DEF CountsBegin
<1>2. Claiming = {} /\ Taking = {} /\ Holding = {}
  BY <1>1 DEF Claiming, Taking, Holding
<1>3. Pending = {} /\ PendingBelow(0) = {} /\ Cardinality({}) = 0
  BY <1>2, FS_EmptySet DEF Pending, PendingBelow
<1>4. CountTypes
  BY <1>1, NoLocalIs DEF CountTypes, ConsumerPlaces
<1>5. LocalsReserve
  BY <1>1 DEF LocalsReserve
<1>6. PlacesApart
  BY <1>2 DEF PlacesApart
<1>7. PlacesCounted
  <2>1. Cardinality(Pending) = 0
    BY <1>3
  <2> QED BY <2>1, <1>1 DEF PlacesCounted
<1>8. Edge(0)
  <2>1. Cardinality(PendingBelow(0)) = 0
    BY <1>3
  <2> QED BY <2>1, <1>1, <1>2 DEF Edge
<1>9. CountInv
  BY <1>4, <1>5, <1>6, <1>7, <1>8 DEF CountInv
<1>10. ClaimsApart /\ CopiedOnce /\ ClearsOnce
  BY <1>1, <1>2 DEF ClaimsApart, CopiedOnce, ClearsOnce
<1> QED BY <1>2, <1>9, <1>10 DEF Claims

\* The first index, and the entries that are in it.
FirstHeader(n) == [capacity |-> n, tail |-> n - 1, index |-> [s \in 0..(n - 1) |-> s + 1]]

LEMMA FirstHeaderIs ==
    ASSUME NEW n \in Nat, n >= 1
    PROVE  /\ FirstHeader(n) \in IndexHeaders /\ FirstHeader(n).capacity = n /\ FirstHeader(n).tail = n - 1
           /\ \A s \in 0..(n - 1) : FirstHeader(n).index[s] = s + 1
<1>1. PICK t : t = [s \in 0..(n - 1) |-> s + 1]
  OBVIOUS
<1>2. t \in [0..(n - 1) -> Nat] /\ \A s \in 0..(n - 1) : t[s] = s + 1
  BY <1>1
<1>3. PICK r : r = [capacity |-> n, tail |-> n - 1, index |-> t]
  OBVIOUS
<1>4. r = FirstHeader(n)
  BY <1>1, <1>3 DEF FirstHeader
<1>5. r.capacity = n /\ r.tail = n - 1 /\ r.index = t
  BY <1>3
<1>6. r \in IndexHeaders
  <2>1. n \in Nat \ {0} /\ n - 1 \in Nat /\ n - 1 < n /\ t \in UNION { [0..(m - 1) -> Nat] : m \in Nat }
    BY <1>2
  <2> QED BY <2>1, <1>2, <1>3 DEF IndexHeaders
<1> QED BY <1>2, <1>4, <1>5, <1>6

FirstIndex(n) ==
    /\ entries \in Seq(IndexEntries) /\ Len(entries) = n
    /\ \A e \in 1..n : KeyOf(e) = -1 /\ ValueOf(e) = 0
    /\ Len(indexes) = 1 /\ indexes \in Seq(IndexHeaders)
    /\ Cap(1) = n /\ indexes[1].tail = n - 1 /\ \A s \in 0..(n - 1) : indexes[1].index[s] = s + 1

LEMMA FirstIndexIs ==
    ASSUME NEW n \in Nat, n >= 1, entries = Implicit!FreshEntries(n), indexes = << FirstHeader(n) >>
    PROVE  FirstIndex(n)
<1>1. PICK fresh : fresh = [key |-> -1, value |-> 0]
  OBVIOUS
<1>2. fresh \in IndexEntries /\ fresh.key = -1 /\ fresh.value = 0
  BY <1>1 DEF IndexEntries
<1>3. PICK w : w = entries
  OBVIOUS
<1>4. w = [i \in 1..n |-> fresh]
  BY <1>1, <1>3 DEF Implicit!FreshEntries, Implicit!Invalid, Implicit!NoBlock
<1>5. w \in Seq(IndexEntries) /\ Len(w) = n /\ \A i \in 1..n : w[i] = fresh
  BY <1>2, <1>4
<1>6. \A e \in 1..n : KeyOf(e) = -1 /\ ValueOf(e) = 0
  BY <1>2, <1>3, <1>5 DEF KeyOf, ValueOf
<1>7. PICK r \in IndexHeaders : /\ r = FirstHeader(n) /\ r.capacity = n /\ r.tail = n - 1
                                /\ \A s \in 0..(n - 1) : r.index[s] = s + 1
  BY FirstHeaderIs
<1>8. Len(indexes) = 1 /\ indexes \in Seq(IndexHeaders) /\ indexes[1] = r
  BY <1>7
<1> QED BY <1>3, <1>5, <1>6, <1>7, <1>8 DEF FirstIndex, Cap

\* Its slots.
LEMMA FirstSlots ==
    ASSUME NEW n \in Nat, n >= 1, FirstIndex(n), NEW Q, Q[1] = n, NEW x \in Int
    PROVE  /\ SlotOf(Q, 1, x) \in 0..(n - 1) /\ EntryNow(Q, x) = SlotOf(Q, 1, x) + 1
           /\ x = -1 => SlotOf(Q, 1, x) = n - 1
<1>1. SlotOf(Q, 1, x) = (x + n) % n /\ Len(indexes) = 1
  BY DEF SlotOf, FirstIndex
<1>2. PICK s : s = (x + n) % n
  OBVIOUS
<1>3. s \in 0..(n - 1)
  BY <1>2
<1>4. indexes[1].index[s] = s + 1
  BY <1>3 DEF FirstIndex
<1>5. EntryNow(Q, x) = s + 1
  BY <1>1, <1>2, <1>4 DEF EntryNow, EntryOf
<1>6. x = -1 => s = n - 1
  <2>1. \A m \in 0..(n - 1) : m % n = m
    BY SmallMod
  <2>2. n - 1 \in 0..(n - 1)
    OBVIOUS
  <2>3. (n - 1) % n = n - 1
    BY <2>1, <2>2
  <2>4. x = -1 => x + n = n - 1
    OBVIOUS
  <2> QED BY <2>3, <2>4, <1>2
<1> QED BY <1>1, <1>2, <1>3, <1>5, <1>6

LEMMA ImplicitBegins == ASSUME Implicit!Init PROVE ImplicitInv
<1>1. PICK n \in Nat : n = InitialIndex /\ n >= 1
  BY QueueAssumption
<1>2. /\ CountsBegin /\ entries = Implicit!FreshEntries(n) /\ indexes = << FirstHeader(n) >>
      /\ blocks = <<>> /\ free = {} /\ producer = "idle" /\ op = Implicit!NoOp
  BY <1>1, SharedBase DEF Implicit!Init, Implicit!InitBase, CountsBegin, FirstHeader
<1>3. Claims /\ Taking = {} /\ Holding = {} /\ tail = 0 /\ head = 0
  BY <1>2, ClaimsBegin DEF CountsBegin
<1>4. FirstIndex(n)
  BY <1>1, <1>2, FirstIndexIs
<1>5. PoolTypes
  <2>1. blocks \in Seq(PoolBlocks) /\ free \subseteq 1..Len(blocks)
    BY <1>2
  <2>2. indexes # <<>>
    BY <1>2
  <2>3. \A h \in 1..Len(indexes) : \A s \in 0..(Cap(h) - 1) : indexes[h].index[s] \in 1..Len(entries)
    BY <1>1, <1>4 DEF FirstIndex
  <2> QED BY <2>1, <2>2, <2>3, <1>4 DEF PoolTypes, FirstIndex
<1>6. PICK o : o = op
  OBVIOUS
<1>7. o = [kind |-> "none", n |-> 0, need |-> 0, chain |-> <<>>, entry |-> 0]
  BY <1>2, <1>6 DEF Implicit!NoOp
<1>8. o \in Operations /\ o.chain = <<>>
  BY <1>7 DEF Operations
<1>9. Len(op.chain) = 0
  BY <1>6, <1>8
<1>10. OpSound
  BY <1>2, <1>6, <1>8 DEF OpSound
<1>11. BlocksOwned
  <2>1. Len(blocks) = 0 /\ free = {}
    BY <1>2
  <2>2. \A e \in 1..Len(entries) : ValueOf(e) = 0
    BY <1>4 DEF FirstIndex
  <2> QED BY <2>1, <2>2, <1>3 DEF BlocksOwned
<1>12. Ord(-1) = -1
  <2>1. First(0 - 1) = First(0) - BlockSize /\ First(0) = 0
    BY FirstIs
  <2>2. First(-1) = 0 - BlockSize /\ First(0) = 0
    BY <2>1
  <2>3. Ord(-1) \in Int /\ -1 \in Int /\ 0 \in Int
    BY OrdAt
  <2>4. First(-1) <= -1 <=> -1 <= Ord(-1)
    BY <2>3, OrdAt
  <2>5. First(0) <= -1 <=> 0 <= Ord(-1)
    BY <2>3, OrdAt
  <2> QED BY <2>2, <2>3, <2>4, <2>5, SizeIs
<1>13. Ord(tail - 1) = -1
  <2>1. tail - 1 = -1
    BY <1>3
  <2> QED BY <2>1, <1>12
<1>14. TopNo = -1 /\ KeyedNo = -1 /\ ShownNo = -1
  <2>1. PICK t \in Int, k \in Nat : t = Ord(tail - 1) /\ k = Len(op.chain) /\ t = -1 /\ k = 0
    BY <1>9, <1>13
  <2>2. TopNo = t + k
    BY <2>1 DEF TopNo
  <2>3. TopNo = -1
    BY <2>1, <2>2
  <2>4. producer \notin {"tail", "block"} /\ producer # "block"
    BY <1>2
  <2>5. KeyedNo = TopNo /\ ShownNo = TopNo
    BY <2>4 DEF KeyedNo, ShownNo
  <2> QED BY <2>3, <2>5
<1>15. PICK Q : Q = [h \in Nat |-> n]
  OBVIOUS
<1>16. Q \in [Nat -> Int] /\ Q[1] = n
  BY <1>15
<1>17. \A x \in Int : /\ SlotOf(Q, 1, x) \in 0..(n - 1) /\ EntryNow(Q, x) = SlotOf(Q, 1, x) + 1
                      /\ x = -1 => SlotOf(Q, 1, x) = n - 1
  BY <1>1, <1>4, <1>16, FirstSlots
<1>18. IndexSound(Q, 0)
  <2>1. SlotsRight(Q)
    <3>1. ASSUME NEW h \in 1..Len(indexes), NEW s \in 0..(Cap(h) - 1), NEW x \in Int,
                 indexes[h].index[s] = EntryNow(Q, x)
          PROVE  s = SlotOf(Q, h, x)
      <4>1. h = 1
        BY <1>4 DEF FirstIndex
      <4>2. s \in 0..(n - 1) /\ indexes[1].index[s] = s + 1
        BY <4>1, <1>4 DEF FirstIndex
      <4>3. PICK r \in 0..(n - 1) : r = SlotOf(Q, 1, x)
        BY <1>17
      <4>4. s + 1 = r + 1
        BY <4>1, <4>2, <4>3, <3>1, <1>17
      <4> QED BY <4>1, <4>2, <4>3, <4>4
    <3> QED BY <3>1 DEF SlotsRight
  <2>2. KeysRight(Q)
    BY <1>4 DEF KeysRight, FirstIndex
  <2>3. TailsRight(Q)
    <3>1. indexes[1].tail = SlotOf(Q, 1, -1)
      BY <1>4, <1>17 DEF FirstIndex
    <3> QED BY <3>1, <1>4, <1>14 DEF TailsRight, FirstIndex
  <2>4. Window(0)
    BY <1>1, <1>4, <1>13, <1>14 DEF Window, FirstIndex
  <2>5. OverBelow(0)
    <3>1. First(0) = 0
      BY FirstIs
    <3> QED BY <3>1 DEF OverBelow
  <2>6. KeysShown(Q, 0)
    BY <1>14 DEF KeysShown
  <2>7. ValuesShown(Q, 0)
    BY <1>4 DEF ValuesShown, FirstIndex
  <2> QED BY <2>1, <2>2, <2>3, <2>4, <2>5, <2>6, <2>7, <1>16 DEF IndexSound
<1>19. BlocksSound(Q, 0)
  BY <1>2, <1>9, <1>13, <1>14 DEF BlocksSound, EmptyOver, DoneRight, CellsRight, ChainRight, TailRight
<1>20. ReadersSound(Q, 0)
  BY <1>3 DEF ReadersSound
<1>21. Numbered(Q, 0)
  BY <1>18, <1>19, <1>20 DEF Numbered
<1> QED BY <1>3, <1>5, <1>10, <1>11, <1>21 DEF ImplicitInv

\* The invariant of the implicit producer holds always.
LEMMA ImplicitAlways == Implicit!Spec => []ImplicitInv
<1>1. Implicit!Init => ImplicitInv
  BY ImplicitBegins
<1>2. ImplicitInv /\ [Implicit!Next]_(Implicit!vars) => ImplicitInv'
  BY ImplicitStepKept
<1> QED BY <1>1, <1>2, PTL DEF Implicit!Spec

(* The producer of a thread (concurrentqueue.h:2416-3008) finds a slot for  *)
(* each block in an index that it doubles when none is empty, and takes its *)
(* blocks back when an enqueue_bulk is refused memory.  Consumers look      *)
(* their items up in the current index or an older one, and the one that    *)
(* has taken the last item of a block empties its entry, which the producer *)
(* then uses again.  Whatever the size of the blocks, of the first index    *)
(* and of the bulks, and for any number of consumers, it is a queue from    *)
(* which each item that was put in is claimed in order, at most once, and   *)
(* delivered as it was, at most once.                                       *)
THEOREM ImplicitQueueImplemented == Implicit!Spec => ImplementsQueue
<1>1. Implicit!Init => Queue!Init
  BY DEF Implicit!Init, Implicit!InitBase, Queue!Init
<1>2. ImplicitInv /\ [Implicit!Next]_(Implicit!vars) => [Queue!Next]_Queue!vars
  BY ImplicitStepKept DEF Queue!vars
<1> QED BY <1>1, <1>2, ImplicitAlways, PTL DEF Implicit!Spec, ImplementsQueue, Queue!Spec

\* A block is on the free list, behind an entry, or held, and in one place only.
LEMMA OneOwner ==
    ASSUME BlocksOwned, PoolTypes, NEW b \in 1..Len(blocks)
    PROVE  LET behind == { e \in 1..Len(entries) : entries[e].value = b }
               held == { c \in Consumers : consumer[c] = "free" /\ local[c].block = b }
           IN  Cardinality(behind) + Cardinality(held) + (IF b \in free THEN 1 ELSE 0) = 1
<1> DEFINE behind == { e \in 1..Len(entries) : entries[e].value = b }
           held == { c \in Consumers : consumer[c] = "free" /\ local[c].block = b }
<1>0. held = { c \in Holding : local[c].block = b } /\ behind = { e \in 1..Len(entries) : ValueOf(e) = b } /\ b # 0
  BY DEF Holding, ValueOf
<1>1. CASE b \in free
  <2>1. behind = {} /\ held = {}
    BY <1>0, <1>1 DEF BlocksOwned
  <2>2. Cardinality(behind) = 0 /\ Cardinality(held) = 0
    BY <2>1, FS_EmptySet
  <2> QED BY <2>2, <1>1
<1>2. CASE \E e \in 1..Len(entries) : ValueOf(e) = b
  <2>1. PICK e \in 1..Len(entries) : ValueOf(e) = b
    BY <1>2
  <2>2. behind = {e}
    BY <2>1, <1>0 DEF BlocksOwned
  <2>3. held = {} /\ b \notin free
    BY <2>1, <1>0 DEF BlocksOwned
  <2>4. Cardinality(behind) = 1 /\ Cardinality(held) = 0
    BY <2>2, <2>3, FS_EmptySet, FS_Singleton
  <2> QED BY <2>3, <2>4
<1>3. CASE \E c \in Holding : local[c].block = b
  <2>1. PICK c \in Holding : local[c].block = b
    BY <1>3
  <2>2. held = {c}
    BY <2>1, <1>0 DEF BlocksOwned
  <2>3. behind = {} /\ b \notin free
    BY <2>1, <1>0 DEF BlocksOwned
  <2>4. Cardinality(behind) = 0 /\ Cardinality(held) = 1
    BY <2>2, <2>3, FS_EmptySet, FS_Singleton
  <2> QED BY <2>3, <2>4
<1> QED BY <1>1, <1>2, <1>3 DEF BlocksOwned

\* The invariant accounts for each block once.
LEMMA AccountedInside == ImplicitInv => Implicit!BlocksAccounted
<1> SUFFICES ASSUME ImplicitInv PROVE Implicit!BlocksAccounted
  OBVIOUS
<1>1. BlocksOwned /\ PoolTypes
  BY DEF ImplicitInv
<1>2. DOMAIN blocks = 1..Len(blocks) /\ DOMAIN entries = 1..Len(entries)
  BY <1>1 DEF PoolTypes
<1>3. \A b \in 1..Len(blocks) :
        LET behind == { e \in 1..Len(entries) : entries[e].value = b }
            held == { c \in Consumers : consumer[c] = "free" /\ local[c].block = b }
        IN  Cardinality(behind) + Cardinality(held) + (IF b \in free THEN 1 ELSE 0) = 1
  BY <1>1, OneOwner
<1> QED BY <1>2, <1>3, SharedCard DEF Implicit!BlocksAccounted

-----------------------------------------------------------------------------
\* The blocks of an implicit producer.

(* The consumer that has taken the last item of a block empties the entry   *)
(* of the block and gives it to the free list (concurrentqueue.h:2651-2672, *)
(* 2848-2858), while the producer takes blocks from there, puts them behind *)
(* entries or, refused memory, takes them back.  For any number of          *)
(* consumers and all sizes, none is lost and none is in two places at once. *)
(* This is the part of BlocksAccounted that is about an implicit producer.  *)
THEOREM ImplicitBlocksAccounted == Implicit!Spec /\ [](part = "implicit") => []BlocksAccounted
<1>1. ImplicitInv /\ part = "implicit" => BlocksAccounted
  BY AccountedInside DEF BlocksAccounted
<1> QED BY <1>1, ImplicitAlways, PTL
=============================================================================
