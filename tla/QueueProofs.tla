----------------------------- MODULE QueueProofs -----------------------------
(****************************************************************************)
(* Theorems about three parts of the vendored queue: a producer's part of   *)
(* it, the table of implicit producers, and the free list.                  *)
(*                                                                          *)
(* ExplicitProducer implements ItemQueue, for every size of block and       *)
(* index, any bulks and any number of consumers, as long as no enqueue_bulk *)
(* is refused (a refused one can leave the index without room: what the     *)
(* code then does is no queue).  The invariant has two halves.  Of the      *)
(* counters: each place of optimistic has been claimed, given back or is    *)
(* reserved, and up to some edge all that is reserved will be there, so     *)
(* that head never passes tail although consumers subtract counts that are  *)
(* old.  Of the blocks: there is a numbering R of them such that the block  *)
(* of number x has the items from First(x) on, is followed by that of       *)
(* x + 1, and has its entry in slot (x + q) % size; who has read an index,  *)
(* the current or an older one, finds there the blocks of the items it has  *)
(* claimed, and these cannot be reused before it has set their flags.       *)
(*                                                                          *)
(* The table of implicit producers.  A thread counts itself before it may   *)
(* settle in a table, so no more threads than the count tells have settled  *)
(* or may yet; and as a thread settles only where its own count is less     *)
(* than three quarters of the slots, fewer than x of them ever share the    *)
(* tables whose three quarters are at most x (CrowdInv).  Every table has   *)
(* room, and a probe ends.  A thread is in one table or a newer one under   *)
(* one value only (Agreeing), so every call brings it the same producer.    *)
(*                                                                          *)
(* The free list.  Each node is in one of six states: handed out, on the    *)
(* list, pending (its bit is set and somebody looks at it), being taken,    *)
(* or being added before or after its references are stored.  The state     *)
(* and the threads that look at the node add up to its references.  Who     *)
(* looks at a node keeps its next from changing, so the swap that takes     *)
(* the head leaves the rest of the list (no ABA).                           *)
(****************************************************************************)
EXTENDS MCQueue, FiniteSetTheorems, SequenceTheorems, TLAPS

-----------------------------------------------------------------------------
\* The counters of a producer.  A consumer in "claim" has reserved the places
\* mine..mine + want - 1 of the optimistic count.

Claiming == { c \in Consumers : consumer[c] = "claim" }
Places(c) == local[c].mine .. local[c].mine + local[c].want - 1
Pending == UNION { Places(c) : c \in Claiming }
PendingBelow(m) == Pending \cap (0..(m - 1))

\* Where the consumers of the two kinds of producer may be.
ConsumerPlaces == { "idle", "reserve", "claim", "index", "tail", "key", "copy", "release",
                    "count", "clear", "free", "advance" }

Locals == [over : Int, want : Int, mine : Int, next : Int, stop : Int,
           header : Int, slot : Int, block : Int]

\* The types of the counters and of the consumers' locals.
CountTypes ==
    /\ tail \in Nat /\ head \in Nat /\ optimistic \in Nat /\ overcommit \in Nat
    /\ consumer \in [Consumers -> ConsumerPlaces]
    /\ local \in [Consumers -> Locals]

\* What a consumer has looked at is old: it has seen no more given back.
LocalsReserve ==
    \A c \in Consumers :
        /\ consumer[c] \in {"reserve", "claim"} =>
             local[c].over \in Nat /\ local[c].want \in Nat \ {0} /\ local[c].over <= overcommit
        /\ consumer[c] = "claim" =>
             local[c].mine \in Nat /\ local[c].mine + local[c].want <= optimistic

\* No place is reserved twice.
PlacesApart ==
    \A c, d \in Claiming : c # d =>
        \/ local[c].mine + local[c].want <= local[d].mine
        \/ local[d].mine + local[d].want <= local[c].mine

\* Every place is claimed, given back or pending.
PlacesCounted == head + overcommit + Cardinality(Pending) = optimistic

\* Up to the edge whatever is pending will be there; from it on a consumer
\* has counted everything before its own places.
Edge(e) ==
    /\ \A c \in Claiming : local[c].mine >= e \/ local[c].mine + local[c].want <= e
    /\ head + Cardinality(PendingBelow(e)) <= tail
    /\ \A c \in Claiming : local[c].mine >= e =>
         head + Cardinality(PendingBelow(local[c].mine)) <= local[c].mine - local[c].over

\* The counters are sound, for some edge.
CountInv == CountTypes /\ LocalsReserve /\ PlacesApart /\ PlacesCounted /\ \E e \in Nat : Edge(e)

\* The places reserved and not yet claimed are finitely many.
LEMMA PendingFinite ==
    ASSUME CountTypes, LocalsReserve
    PROVE  /\ Pending \subseteq 0..(optimistic - 1) /\ IsFiniteSet(Pending)
           /\ \A m \in Nat : IsFiniteSet(PendingBelow(m)) /\ Cardinality(PendingBelow(m)) \in Nat
           /\ Cardinality(Pending) \in Nat
<1>1. Pending \subseteq 0..(optimistic - 1)
  BY DEF Pending, Places, Claiming, CountTypes, LocalsReserve
<1>2. IsFiniteSet(0..(optimistic - 1))
  BY FS_Interval DEF CountTypes
<1>3. IsFiniteSet(Pending)
  BY <1>1, <1>2, FS_Subset
<1>4. \A m \in Nat : IsFiniteSet(PendingBelow(m))
  <2> TAKE m \in Nat
  <2>1. PendingBelow(m) \subseteq Pending
    BY DEF PendingBelow
  <2> QED BY <2>1, <1>3, FS_Subset
<1> QED BY <1>1, <1>3, <1>4, FS_CardinalityType

\* No item is claimed that is not there: the head stays behind the tail.
LEMMA CountHeads == CountInv => head <= tail /\ head \in Nat /\ tail \in Nat
<1> SUFFICES ASSUME CountInv PROVE head <= tail /\ head \in Nat /\ tail \in Nat
  OBVIOUS
<1>1. PICK e \in Nat : Edge(e)
  BY DEF CountInv
<1>2. Cardinality(PendingBelow(e)) \in Nat
  BY PendingFinite DEF CountInv
<1> QED BY <1>1, <1>2 DEF Edge, CountInv, CountTypes

\* Taking the places of one consumer out of those pending below some place.
LEMMA TakenOut ==
    ASSUME CountTypes, LocalsReserve, PlacesApart, NEW c \in Claiming, NEW m \in Nat,
           NEW rest, rest = UNION { Places(d) : d \in Claiming \ {c} },
           local[c].mine >= m \/ local[c].mine + local[c].want <= m
    PROVE  /\ IsFiniteSet(rest \cap (0..(m - 1))) /\ Cardinality(rest \cap (0..(m - 1))) \in Nat
           /\ Cardinality(rest \cap (0..(m - 1))) =
                IF local[c].mine >= m THEN Cardinality(PendingBelow(m))
                ELSE Cardinality(PendingBelow(m)) - local[c].want
<1> DEFINE own == Places(c)
           less == rest \cap (0..(m - 1))
<1>1. /\ local[c].mine \in Nat /\ local[c].want \in Nat \ {0} /\ c \in Consumers
      /\ \A d \in Claiming : local[d].mine \in Nat /\ local[d].want \in Nat
  BY DEF Claiming, LocalsReserve
<1>2. less = PendingBelow(m) \ own
  <2>1. \A d \in Claiming \ {c} : Places(d) \cap own = {}
    BY <1>1 DEF PlacesApart, Places
  <2>2. Pending = rest \cup own
    BY DEF Pending
  <2>3. rest \cap own = {}
    BY <2>1
  <2> QED BY <2>2, <2>3 DEF PendingBelow
<1>3. IsFiniteSet(PendingBelow(m)) /\ Cardinality(PendingBelow(m)) \in Nat
  BY PendingFinite
<1>4. CASE local[c].mine >= m
  <2>1. PendingBelow(m) \cap own = {}
    BY <1>1, <1>4 DEF PendingBelow, Places
  <2>2. less = PendingBelow(m)
    BY <2>1, <1>2
  <2> QED BY <2>2, <1>3, <1>4
<1>5. CASE ~ local[c].mine >= m
  <2>1. own \subseteq PendingBelow(m)
    BY <1>1, <1>5 DEF PendingBelow, Pending, Places
  <2>2. IsFiniteSet(own)
    BY <2>1, <1>3, FS_Subset
  <2>3. Cardinality(own) = local[c].want
    <3>1. PICK a \in Nat, w \in Nat : a = local[c].mine /\ w = local[c].want /\ w >= 1
      BY <1>1
    <3>2. own = a..(a + w - 1)
      BY <3>1 DEF Places
    <3>3. Cardinality(a..(a + w - 1)) = w
      <4>1. PICK z \in Int : z = a + w - 1
        OBVIOUS
      <4>2. Cardinality(a..z) = IF a > z THEN 0 ELSE z - a + 1
        BY FS_Interval
      <4>3. ~ a > z /\ z - a + 1 = w
        BY <4>1, <3>1
      <4> QED BY <4>1, <4>2, <4>3
    <3> QED BY <3>1, <3>2, <3>3
  <2>4. IsFiniteSet(less) /\ Cardinality(less) = Cardinality(PendingBelow(m)) - Cardinality(PendingBelow(m) \cap own)
    BY <1>2, <1>3, FS_Difference
  <2>5. PendingBelow(m) \cap own = own
    BY <2>1
  <2>6. Cardinality(less) \in Nat
    BY <2>4, FS_CardinalityType
  <2> QED BY <2>3, <2>4, <2>5, <2>6, <1>5
<1> QED BY <1>4, <1>5

\* What other steps do: the tail grows, or a consumer that holds no place
\* goes on, or comes to hold none.
Elsewhere ==
    /\ tail' \in Nat /\ tail <= tail' /\ UNCHANGED <<head, optimistic, overcommit>>
    /\ consumer' \in [Consumers -> ConsumerPlaces] /\ local' \in [Consumers -> Locals]
    /\ \A c \in Consumers : consumer'[c] \in {"reserve", "claim"} =>
         consumer'[c] = consumer[c] /\ local'[c] = local[c]
    /\ \A c \in Consumers : consumer[c] = "claim" => consumer'[c] = "claim"

\* Such steps leave the counters as sound as they were.
LEMMA CountElsewhere == ASSUME CountInv, Elsewhere PROVE CountInv'
<1>1. Claiming' = Claiming
  BY DEF Elsewhere, Claiming
<1>2. \A c \in Claiming : local'[c] = local[c]
  BY DEF Elsewhere, Claiming
<1>3. CountTypes'
  BY DEF Elsewhere, CountInv, CountTypes
<1>4. LocalsReserve'
  BY DEF Elsewhere, CountInv, LocalsReserve
<1>5. PlacesApart'
  BY <1>1, <1>2 DEF CountInv, PlacesApart
<1>6. Pending' = Pending
  BY <1>1, <1>2 DEF Pending, Places
<1>7. PlacesCounted'
  BY <1>6 DEF Elsewhere, CountInv, PlacesCounted
<1>8. PICK e \in Nat : Edge(e)
  BY DEF CountInv
<1>9. \A m \in Nat : PendingBelow(m)' = PendingBelow(m)
  BY <1>6 DEF PendingBelow
<1>10. Cardinality(PendingBelow(e)) \in Nat
  BY PendingFinite DEF CountInv
<1>11. head + Cardinality(PendingBelow(e)) <= tail'
  BY <1>8, <1>10 DEF Edge, Elsewhere, CountInv, CountTypes
<1>12. \A c \in Claiming : local[c].mine \in Nat
  BY DEF Claiming, CountInv, LocalsReserve
<1>13. ASSUME NEW c \in Claiming, local[c].mine >= e
       PROVE  head + Cardinality(Pending \cap (0..(local'[c].mine - 1))) <= local'[c].mine - local'[c].over
  BY <1>2, <1>8, <1>13 DEF Edge, PendingBelow
<1>14. Edge(e)'
  BY <1>1, <1>2, <1>6, <1>8, <1>11, <1>13 DEF Edge, Elsewhere, PendingBelow
<1> QED BY <1>3, <1>4, <1>5, <1>7, <1>14 DEF CountInv

\* The locals of a consumer as it looks, reserves and has claimed.
Looked(x, y) == [NoLocal EXCEPT !.over = x, !.want = y]
Reserved(r, x) == [r EXCEPT !.mine = x]
Claimed(x, y) == [NoLocal EXCEPT !.next = x, !.stop = y]

LEMMA NoLocalIs == NoLocal \in Locals
BY DEF Locals, NoLocal

LEMMA LookedIs ==
    ASSUME NEW x \in Int, NEW y \in Int
    PROVE  Looked(x, y) \in Locals /\ Looked(x, y).over = x /\ Looked(x, y).want = y
BY NoLocalIs DEF Locals, Looked

LEMMA ReservedIs ==
    ASSUME NEW r \in Locals, NEW x \in Int
    PROVE  /\ Reserved(r, x) \in Locals /\ Reserved(r, x).mine = x
           /\ Reserved(r, x).over = r.over /\ Reserved(r, x).want = r.want
BY DEF Locals, Reserved

LEMMA ClaimedIs ==
    ASSUME NEW x \in Int, NEW y \in Int
    PROVE  Claimed(x, y) \in Locals /\ Claimed(x, y).next = x /\ Claimed(x, y).stop = y
BY NoLocalIs DEF Locals, Claimed

\* A consumer that looks and finds items remembers an overcommit of now.
LEMMA CountLook ==
    ASSUME CountInv, NEW c \in Consumers, NEW max \in Nat \ {0}, Look(c, max)
    PROVE  CountInv'
<1>1. PICK w \in Nat \ {0} : local' = [local EXCEPT ![c] = Looked(overcommit, w)]
  <2>1. PICK seen \in Int : seen = tail - (optimistic - overcommit) /\ seen > 0
    BY DEF Look, CountInv, CountTypes
  <2>2. PICK w \in Nat \ {0} : w = IF seen < max THEN seen ELSE max
    BY <2>1
  <2> QED BY <2>1, <2>2 DEF Look, Looked
<1>2. PICK r \in Locals : r = Looked(overcommit, w) /\ r.over = overcommit /\ r.want = w
  <2>1. overcommit \in Int /\ w \in Int
    BY DEF CountInv, CountTypes
  <2> QED BY <2>1, LookedIs
<1>3. /\ local' = [local EXCEPT ![c] = r] /\ consumer[c] = "idle"
      /\ consumer' = [consumer EXCEPT ![c] = "reserve"]
      /\ UNCHANGED <<tail, head, optimistic, overcommit>>
  BY <1>1, <1>2 DEF Look, At, counters
<1>4. CountTypes'
  <2>1. consumer' \in [Consumers -> ConsumerPlaces]
    <3>1. consumer \in [Consumers -> ConsumerPlaces]
      BY DEF CountInv, CountTypes
    <3> QED BY <3>1, <1>3 DEF ConsumerPlaces
  <2>2. local' \in [Consumers -> Locals]
    <3>1. local \in [Consumers -> Locals]
      BY DEF CountInv, CountTypes
    <3> QED BY <3>1, <1>3
  <2> QED BY <2>1, <2>2, <1>3 DEF CountInv, CountTypes
<1>5. Claiming' = Claiming /\ c \notin Claiming /\ \A d \in Claiming : local'[d] = local[d]
  BY <1>3 DEF Claiming, CountInv, CountTypes
<1>6. LocalsReserve'
  <2> SUFFICES ASSUME NEW d \in Consumers
               PROVE  /\ consumer'[d] \in {"reserve", "claim"} =>
                           local'[d].over \in Nat /\ local'[d].want \in Nat \ {0} /\ local'[d].over <= overcommit
                      /\ consumer'[d] = "claim" =>
                           local'[d].mine \in Nat /\ local'[d].mine + local'[d].want <= optimistic
    BY <1>3 DEF LocalsReserve
  <2>1. CASE d = c
    BY <2>1, <1>2, <1>3 DEF CountInv, CountTypes
  <2>2. CASE d # c
    BY <2>2, <1>3 DEF CountInv, CountTypes, LocalsReserve
  <2> QED BY <2>1, <2>2
<1>7. PlacesApart'
  BY <1>5 DEF CountInv, PlacesApart
<1>8. Pending' = Pending
  BY <1>5 DEF Pending, Places
<1>9. PlacesCounted'
  BY <1>3, <1>8 DEF CountInv, PlacesCounted
<1>10. PICK e \in Nat : Edge(e)
  BY DEF CountInv
<1>11. Edge(e)'
  BY <1>3, <1>5, <1>8, <1>10 DEF Edge, PendingBelow
<1> QED BY <1>4, <1>6, <1>7, <1>9, <1>11 DEF CountInv

\* Its reservation is beyond all others, and beyond the edge.
LEMMA CountReserve == ASSUME CountInv, NEW c \in Consumers, Reserve(c) PROVE CountInv'
<1>1. /\ optimistic \in Nat /\ overcommit \in Nat /\ head \in Nat /\ tail \in Nat
      /\ local[c] \in Locals /\ local[c].want \in Nat \ {0} /\ local[c].over \in Nat
      /\ local[c].over <= overcommit
  BY DEF CountInv, CountTypes, LocalsReserve, Reserve, At
<1>2. PICK w \in Nat \ {0} : w = local[c].want
  BY <1>1
<1>3. PICK r \in Locals : /\ r = Reserved(local[c], optimistic)
                          /\ r.mine = optimistic /\ r.want = w /\ r.over = local[c].over
  <2>1. optimistic \in Int
    BY <1>1
  <2> QED BY <2>1, <1>1, <1>2, ReservedIs
<1>4. /\ local' = [local EXCEPT ![c] = r] /\ consumer[c] = "reserve"
      /\ consumer' = [consumer EXCEPT ![c] = "claim"]
      /\ optimistic' = optimistic + w
      /\ UNCHANGED <<tail, head, overcommit>>
  BY <1>2, <1>3 DEF Reserve, At, Reserved
<1>5. CountTypes'
  <2>1. consumer' \in [Consumers -> ConsumerPlaces]
    <3>1. consumer \in [Consumers -> ConsumerPlaces]
      BY DEF CountInv, CountTypes
    <3> QED BY <3>1, <1>4 DEF ConsumerPlaces
  <2>2. local' \in [Consumers -> Locals]
    <3>1. local \in [Consumers -> Locals]
      BY DEF CountInv, CountTypes
    <3> QED BY <3>1, <1>4
  <2> QED BY <2>1, <2>2, <1>1, <1>4 DEF CountInv, CountTypes
<1>6. /\ Claiming' = Claiming \cup {c} /\ c \notin Claiming
      /\ \A d \in Claiming : local'[d] = local[d]
      /\ local'[c] = r
  BY <1>4 DEF Claiming, CountInv, CountTypes
<1>7. \A d \in Claiming : /\ local[d].mine \in Nat /\ local[d].want \in Nat \ {0}
                          /\ local[d].mine + local[d].want <= optimistic
  BY DEF Claiming, CountInv, LocalsReserve
<1>8. LocalsReserve'
  <2> SUFFICES ASSUME NEW d \in Consumers
               PROVE  /\ consumer'[d] \in {"reserve", "claim"} =>
                           local'[d].over \in Nat /\ local'[d].want \in Nat \ {0} /\ local'[d].over <= overcommit
                      /\ consumer'[d] = "claim" =>
                           local'[d].mine \in Nat /\ local'[d].mine + local'[d].want <= optimistic'
    BY <1>4 DEF LocalsReserve
  <2>1. CASE d = c
    <3>1. local'[d].over = local[c].over /\ local'[d].want = w /\ local'[d].mine = optimistic
      BY <2>1, <1>3, <1>6
    <3> QED BY <3>1, <1>1, <1>2, <1>4
  <2>2. CASE d # c
    <3>1. consumer'[d] = consumer[d] /\ local'[d] = local[d]
      BY <2>2, <1>4 DEF CountInv, CountTypes
    <3>2. consumer[d] = "claim" => local[d].mine + local[d].want \in Int
      BY DEF CountInv, LocalsReserve
    <3> QED BY <3>1, <3>2, <1>1, <1>4 DEF CountInv, LocalsReserve
  <2> QED BY <2>1, <2>2
<1>9. PlacesApart'
  <2> SUFFICES ASSUME NEW x \in Claiming \cup {c}, NEW y \in Claiming \cup {c}, x # y
               PROVE  \/ local'[x].mine + local'[x].want <= local'[y].mine
                      \/ local'[y].mine + local'[y].want <= local'[x].mine
    BY <1>6 DEF PlacesApart
  <2>1. CASE x = c
    BY <2>1, <1>3, <1>6, <1>7
  <2>2. CASE y = c
    BY <2>2, <1>3, <1>6, <1>7
  <2>3. CASE x # c /\ y # c
    BY <2>3, <1>6 DEF CountInv, PlacesApart
  <2> QED BY <2>1, <2>2, <2>3
<1>10. DEFINE new == optimistic .. optimistic + w - 1
<1>11. Pending' = Pending \cup new
  <2>1. Pending' = UNION { local'[d].mine .. local'[d].mine + local'[d].want - 1 : d \in Claiming \cup {c} }
    BY <1>6 DEF Pending, Places
  <2>2. local'[c].mine = optimistic /\ local'[c].want = w
    BY <1>3, <1>6
  <2> QED BY <2>1, <2>2, <1>6 DEF Pending, Places
<1>12. Pending \cap new = {} /\ IsFiniteSet(Pending) /\ Cardinality(Pending) \in Nat
  <2>1. Pending \subseteq 0..(optimistic - 1)
    BY PendingFinite DEF CountInv
  <2> QED BY <2>1, <1>1, PendingFinite DEF CountInv
<1>13. IsFiniteSet(new) /\ Cardinality(new) = w
  <2>1. PICK z \in Int : z = optimistic + w - 1
    BY <1>1
  <2>2. IsFiniteSet(optimistic..z) /\ Cardinality(optimistic..z) = IF optimistic > z THEN 0 ELSE z - optimistic + 1
    <3>1. optimistic \in Int
      BY <1>1
    <3> QED BY FS_Interval, <3>1
  <2> QED BY <2>1, <2>2, <1>1
<1> HIDE DEF new
<1>14. Cardinality(Pending') = Cardinality(Pending) + w
  <2>1. Cardinality(Pending \cup new) = Cardinality(Pending) + Cardinality(new) - Cardinality(Pending \cap new)
    BY <1>12, <1>13, FS_Union
  <2> QED BY <2>1, <1>11, <1>12, <1>13, FS_EmptySet
<1>15. PlacesCounted'
  BY <1>1, <1>4, <1>12, <1>14 DEF CountInv, PlacesCounted
<1>16. \A m \in Nat : m <= optimistic => PendingBelow(m)' = PendingBelow(m)
  BY <1>1, <1>11 DEF PendingBelow, new
<1>17. PICK e0 \in Nat : Edge(e0)
  BY DEF CountInv
<1>18. PICK e \in Nat : e <= optimistic /\ Edge(e)
  <2>1. CASE e0 <= optimistic
    BY <2>1, <1>17
  <2>2. CASE e0 > optimistic
    <3>1. PendingBelow(optimistic) = PendingBelow(e0)
      <4>1. Pending \subseteq 0..(optimistic - 1)
        BY PendingFinite DEF CountInv
      <4> QED BY <4>1, <2>2, <1>1 DEF PendingBelow
    <3>2. Edge(optimistic)
      BY <3>1, <2>2, <1>7, <1>17, <1>1 DEF Edge
    <3> QED BY <3>2, <1>1
  <2> QED BY <2>1, <2>2, <1>1
<1>19. Edge(e)'
  <2>1. head' + Cardinality(PendingBelow(e)') <= tail'
    BY <1>4, <1>16, <1>18 DEF Edge
  <2>2. \A d \in Claiming \cup {c} : local'[d].mine >= e \/ local'[d].mine + local'[d].want <= e
    <3>1. local'[c].mine >= e
      BY <1>1, <1>3, <1>6, <1>18
    <3> QED BY <3>1, <1>6, <1>18 DEF Edge
  <2>3. ASSUME NEW d \in Claiming \cup {c}, local'[d].mine >= e
        PROVE  head + Cardinality(Pending' \cap (0..(local'[d].mine - 1))) <= local'[d].mine - local'[d].over
    <3>1. CASE d = c
      <4>1. PendingBelow(optimistic) = Pending
        BY PendingFinite DEF PendingBelow, CountInv
      <4>2. Pending' \cap (0..(local'[d].mine - 1)) = Pending
        BY <4>1, <3>1, <1>1, <1>3, <1>6, <1>16 DEF PendingBelow
      <4>3. head + Cardinality(Pending) = optimistic - overcommit
        <5>1. PICK n \in Nat : n = Cardinality(Pending)
          BY <1>12
        <5> QED BY <5>1, <1>1 DEF CountInv, PlacesCounted
      <4>4. local'[d].mine = optimistic /\ local'[d].over = local[c].over
        BY <3>1, <1>3, <1>6
      <4>5. head + Cardinality(Pending) <= optimistic - local[c].over
        BY <4>3, <1>1
      <4> QED BY <4>2, <4>4, <4>5
    <3>2. CASE d \in Claiming
      <4>1. local[d].mine \in Nat /\ local[d].mine <= optimistic
        BY <3>2, <1>7, <1>1
      <4>2. PendingBelow(local[d].mine)' = Pending' \cap (0..(local[d].mine' - 1))
        BY DEF PendingBelow
      <4>3. Pending' \cap (0..(local'[d].mine - 1)) = PendingBelow(local[d].mine)
        BY <3>2, <4>1, <1>6, <1>11, <1>1 DEF PendingBelow, new
      <4> QED BY <4>3, <3>2, <2>3, <1>6, <1>18 DEF Edge
    <3> QED BY <3>1, <3>2
  <2> QED BY <2>1, <2>2, <2>3, <1>4, <1>6 DEF Edge, PendingBelow
<1> QED BY <1>5, <1>8, <1>9, <1>15, <1>18, <1>19 DEF CountInv

\* What a claim brings a consumer: nothing, or items up to the new head.
LEMMA ClaimIs ==
    ASSUME CountInv, NEW c \in Consumers, Claim(c)
    PROVE  \E a \in Nat, w \in Nat \ {0}, mine \in Nat, over \in Nat :
             /\ w = local[c].want /\ mine = local[c].mine /\ over = local[c].over
             /\ a = Actual(c) /\ a <= w /\ (a > 0 => mine - over + a <= tail)
<1>1. PICK w \in Nat \ {0}, mine \in Nat, over \in Nat :
         w = local[c].want /\ mine = local[c].mine /\ over = local[c].over
  BY DEF Claim, CountInv, LocalsReserve
<1>2. PICK left \in Int : left = tail - (mine - over)
  BY DEF CountInv, CountTypes
<1>3. PICK a \in Nat : a = IF left <= 0 THEN 0 ELSE IF w < left THEN w ELSE left
  BY <1>2
<1>4. a = Actual(c)
  BY <1>1, <1>2, <1>3 DEF Actual
<1>5. a <= w /\ (a > 0 => a <= left)
  BY <1>3
<1>6. a > 0 => mine - over + a <= tail
  BY <1>2, <1>5 DEF CountInv, CountTypes
<1> QED BY <1>1, <1>4, <1>5, <1>6

\* Its claim takes what is there before the tail, gives back the rest and
\* may move the edge.
LEMMA CountClaim == ASSUME CountInv, NEW c \in Consumers, Claim(c) PROVE CountInv'
<1>1. PICK a \in Nat, w \in Nat \ {0}, mine \in Nat, over \in Nat :
         /\ w = local[c].want /\ mine = local[c].mine /\ over = local[c].over
         /\ a = Actual(c) /\ a <= w /\ (a > 0 => mine - over + a <= tail)
  BY ClaimIs
<1>2. /\ optimistic \in Nat /\ overcommit \in Nat /\ head \in Nat /\ tail \in Nat
      /\ consumer \in [Consumers -> ConsumerPlaces] /\ local \in [Consumers -> Locals]
  BY DEF CountInv, CountTypes
<1>3. /\ consumer[c] = "claim" /\ head' = head + a /\ overcommit' = overcommit + w - a
      /\ UNCHANGED <<tail, optimistic>>
  BY <1>1 DEF Claim
<1>4. PICK r \in Locals, p \in {"idle", "index"} :
         local' = [local EXCEPT ![c] = r] /\ consumer' = [consumer EXCEPT ![c] = p]
  <2>1. CASE a = 0
    BY <2>1, <1>1, NoLocalIs DEF Claim, Gone
  <2>2. CASE a # 0
    <3>1. local' = [local EXCEPT ![c] = Claimed(head, head')]
      BY <2>2, <1>1 DEF Claim, Claimed
    <3>2. Claimed(head, head') \in Locals
      BY <1>1, <1>2, <1>3, ClaimedIs
    <3>3. consumer' = [consumer EXCEPT ![c] = "index"]
      BY <2>2, <1>1 DEF Claim, At
    <3> QED BY <3>1, <3>2, <3>3
  <2> QED BY <2>1, <2>2
<1>5. CountTypes'
  <2>1. consumer' \in [Consumers -> ConsumerPlaces] /\ local' \in [Consumers -> Locals]
    BY <1>2, <1>4 DEF ConsumerPlaces
  <2> QED BY <2>1, <1>1, <1>2, <1>3 DEF CountTypes
<1>6. Claiming' = Claiming \ {c} /\ c \in Claiming /\ \A d \in Claiming \ {c} : local'[d] = local[d]
  BY <1>2, <1>3, <1>4 DEF Claiming
<1>7. \A d \in Claiming : /\ local[d].mine \in Nat /\ local[d].want \in Nat \ {0} /\ local[d].over \in Nat
                          /\ local[d].mine + local[d].want <= optimistic
  BY DEF Claiming, CountInv, LocalsReserve
<1>8. LocalsReserve'
  <2> SUFFICES ASSUME NEW d \in Consumers
               PROVE  /\ consumer'[d] \in {"reserve", "claim"} =>
                           local'[d].over \in Nat /\ local'[d].want \in Nat \ {0} /\ local'[d].over <= overcommit'
                      /\ consumer'[d] = "claim" =>
                           local'[d].mine \in Nat /\ local'[d].mine + local'[d].want <= optimistic'
    BY DEF LocalsReserve
  <2>1. CASE d = c
    BY <2>1, <1>2, <1>4
  <2>2. CASE d # c
    <3>1. consumer'[d] = consumer[d] /\ local'[d] = local[d]
      BY <2>2, <1>2, <1>4
    <3>2. overcommit <= overcommit'
      BY <1>1, <1>2, <1>3
    <3> QED BY <3>1, <3>2, <1>2, <1>3, <1>5 DEF CountInv, LocalsReserve, CountTypes
  <2> QED BY <2>1, <2>2
<1>9. PlacesApart'
  BY <1>6 DEF CountInv, PlacesApart
<1>10. PICK rest : rest = UNION { Places(d) : d \in Claiming \ {c} }
  OBVIOUS
<1>11. Pending' = rest
  BY <1>6, <1>10 DEF Pending, Places
\* The numbers pending below a place, before and after.
<1>12. ASSUME NEW m \in Nat, mine >= m \/ mine + w <= m
       PROVE  \E n \in Nat, k \in Nat : /\ n = Cardinality(PendingBelow(m))
                                        /\ k = Cardinality(rest \cap (0..(m - 1)))
                                        /\ k = IF mine >= m THEN n ELSE n - w
  <2>1. Cardinality(PendingBelow(m)) \in Nat
    BY PendingFinite DEF CountInv
  <2>2. /\ Cardinality(rest \cap (0..(m - 1))) \in Nat
        /\ Cardinality(rest \cap (0..(m - 1))) =
             IF mine >= m THEN Cardinality(PendingBelow(m)) ELSE Cardinality(PendingBelow(m)) - w
    BY <1>1, <1>6, <1>10, <1>12, TakenOut DEF CountInv
  <2> QED BY <2>1, <2>2
<1>13. PlacesCounted'
  <2>1. mine + w <= optimistic
    BY <1>1, <1>6, <1>7
  <2>2. PICK n \in Nat, k \in Nat : /\ n = Cardinality(PendingBelow(optimistic))
                                    /\ k = Cardinality(rest \cap (0..(optimistic - 1)))
                                    /\ k = IF mine >= optimistic THEN n ELSE n - w
    BY <2>1, <1>2, <1>12
  <2>3. PendingBelow(optimistic) = Pending /\ rest \cap (0..(optimistic - 1)) = rest
    <3>1. Pending \subseteq 0..(optimistic - 1) /\ rest \subseteq Pending
      BY <1>10, PendingFinite DEF CountInv, Pending
    <3> QED BY <3>1 DEF PendingBelow
  <2>4. head + overcommit + n = optimistic
    BY <2>2, <2>3 DEF CountInv, PlacesCounted
  <2>5. head' + overcommit' + k = optimistic
    <3>1. k = n - w
      BY <2>1, <2>2, <1>2
    <3>2. head' = head + a /\ overcommit' = overcommit + w - a
      BY <1>3
    <3> QED BY <3>1, <3>2, <2>4, <1>2
  <2> QED BY <2>2, <2>3, <2>5, <1>3, <1>11 DEF PlacesCounted
<1>14. PICK e \in Nat : Edge(e)
  BY DEF CountInv
\* From the edge on, what the others have counted before their places.
<1>15. ASSUME NEW d \in Claiming \ {c}, local[d].mine >= e, NEW n \in Nat,
              n = Cardinality(rest \cap (0..(local[d].mine - 1))), a = 0 \/ mine < local[d].mine
       PROVE  head + a + n <= local[d].mine - local[d].over
  <2>1. PICK m \in Nat : m = local[d].mine
    BY <1>7
  <2>2. mine >= m \/ mine + w <= m
    <3>1. local[d].want \in Nat \ {0}
      BY <1>7
    <3> QED BY <3>1, <2>1, <1>1, <1>6 DEF CountInv, PlacesApart
  <2>3. PICK n0 \in Nat, k \in Nat : /\ n0 = Cardinality(PendingBelow(m))
                                     /\ k = Cardinality(rest \cap (0..(m - 1)))
                                     /\ k = IF mine >= m THEN n0 ELSE n0 - w
    BY <2>2, <1>12
  <2>4. head + n0 <= m - local[d].over
    BY <2>1, <2>3, <1>14, <1>15 DEF Edge
  <2>5. n = k /\ a + k <= n0
    BY <2>1, <2>3, <1>1, <1>15
  <2>6. local[d].over \in Nat
    BY <1>7
  <2> QED BY <2>1, <2>4, <2>5, <2>6, <1>2
<1>16. \E f \in Nat : Edge(f)'
  <2>1. CASE a = 0 \/ mine < e
    <3>1. mine >= e \/ mine + w <= e
      BY <1>1, <1>6, <1>14 DEF Edge
    <3>2. PICK n \in Nat, k \in Nat : /\ n = Cardinality(PendingBelow(e))
                                      /\ k = Cardinality(rest \cap (0..(e - 1)))
                                      /\ k = IF mine >= e THEN n ELSE n - w
      BY <3>1, <1>12
    <3>3. head' + k <= tail
      <4>1. head + n <= tail
        BY <3>2, <1>14 DEF Edge
      <4>2. a + k <= n
        BY <2>1, <3>2, <1>1
      <4> QED BY <4>1, <4>2, <1>2, <1>3
    <3>4. ASSUME NEW d \in Claiming \ {c}, local[d].mine >= e
          PROVE  head' + Cardinality(rest \cap (0..(local[d].mine - 1))) <= local[d].mine - local[d].over
      <4>1. PICK m \in Nat : m = local[d].mine
        BY <1>7
      <4>2. mine >= m \/ mine + w <= m
        <5>1. local[d].want \in Nat \ {0}
          BY <1>7
        <5> QED BY <5>1, <4>1, <1>1, <1>6 DEF CountInv, PlacesApart
      <4>3. PICK n0 \in Nat : n0 = Cardinality(rest \cap (0..(m - 1)))
        BY <4>2, <1>12
      <4>4. a = 0 \/ mine < m
        BY <2>1, <3>4, <4>1
      <4> QED BY <4>1, <4>3, <4>4, <3>4, <1>3, <1>15
    <3>5. Edge(e)'
      BY <3>2, <3>3, <3>4, <1>3, <1>6, <1>11, <1>14 DEF Edge, PendingBelow
    <3> QED BY <3>5
  <2>2. CASE a > 0 /\ mine >= e
    <3>1. PICK n \in Nat, k \in Nat : /\ n = Cardinality(PendingBelow(mine))
                                      /\ k = Cardinality(rest \cap (0..(mine - 1)))
                                      /\ k = n
      BY <1>1, <1>12
    <3>2. head + n <= mine - over
      BY <2>2, <3>1, <1>1, <1>6, <1>14 DEF Edge
    <3>3. head' + k <= tail
      BY <2>2, <3>1, <3>2, <1>1, <1>2, <1>3
    <3>4. \A d \in Claiming \ {c} : local[d].mine >= mine + w \/ local[d].mine + local[d].want <= mine
      BY <1>1, <1>6 DEF CountInv, PlacesApart
    <3>5. ASSUME NEW d \in Claiming \ {c}, local[d].mine >= mine
          PROVE  head' + Cardinality(rest \cap (0..(local[d].mine - 1))) <= local[d].mine - local[d].over
      <4>1. PICK m \in Nat : m = local[d].mine /\ m >= mine + w
        BY <3>4, <3>5, <1>1, <1>7
      <4>2. PICK n0 \in Nat : n0 = Cardinality(rest \cap (0..(m - 1)))
        BY <4>1, <1>12
      <4>3. mine < m /\ m >= e
        BY <2>2, <4>1, <1>1
      <4> QED BY <4>1, <4>2, <4>3, <1>3, <1>15
    <3>6. \A d \in Claiming \ {c} : local[d].mine >= mine \/ local[d].mine + local[d].want <= mine
      BY <3>4, <1>1, <1>7
    <3>7. Edge(mine)'
      BY <3>1, <3>3, <3>5, <3>6, <1>3, <1>6, <1>11 DEF Edge, PendingBelow
    <3> QED BY <3>7
  <2> QED BY <2>1, <2>2, <1>1
<1> QED BY <1>5, <1>8, <1>9, <1>13, <1>16 DEF CountInv

-----------------------------------------------------------------------------
\* Blocks are numbered by the items they hold: item i has its place in the
\* block Ord(i), whose first item is First(Ord(i)).

\* The first item of a number, and the number of an item.
First(x) == BlockSize * x
Ord(i) == i \div BlockSize

LEMMA SizeIs == BlockSize \in Nat /\ BlockSize >= 2 /\ Offsets = 0..(BlockSize - 1)
BY BaseAssumption DEF Offsets

LEMMA FirstIs ==
    ASSUME NEW x \in Int
    PROVE  /\ First(x) \in Int /\ First(x + 1) = First(x) + BlockSize
           /\ First(x - 1) = First(x) - BlockSize
           /\ x = 0 => First(x) = 0
<1>1. BlockSize \in Nat
  BY SizeIs
<1>2. BlockSize * (x + 1) = BlockSize * x + BlockSize
  BY <1>1
<1>3. BlockSize * (x - 1) = BlockSize * x - BlockSize
  BY <1>1
<1> QED BY <1>1, <1>2, <1>3 DEF First

LEMMA FirstAdd ==
    ASSUME NEW x \in Int, NEW y \in Int
    PROVE  First(x + y) = First(x) + First(y) /\ First(x - y) = First(x) - First(y)
<1>1. BlockSize \in Nat
  BY SizeIs
<1>2. BlockSize * (x + y) = BlockSize * x + BlockSize * y
  BY <1>1
<1>3. BlockSize * (x - y) = BlockSize * x - BlockSize * y
  BY <1>1
<1> QED BY <1>2, <1>3 DEF First

LEMMA OrdIs ==
    ASSUME NEW i \in Int
    PROVE  \E x \in Int, o \in Offsets :
             /\ x = Ord(i) /\ o = i % BlockSize
             /\ i = First(x) + o /\ Base(i) = First(x)
<1>1. BlockSize \in Nat /\ BlockSize >= 2
  BY SizeIs
<1>2. PICK x \in Int : x = i \div BlockSize
  BY <1>1
<1>3. PICK o \in 0..(BlockSize - 1) : o = i % BlockSize
  BY <1>1
<1>4. i = BlockSize * x + o
  BY <1>1, <1>2, <1>3
<1>5. PICK a \in Int : a = BlockSize * x
  BY <1>1
<1>6. i - o = a
  BY <1>4, <1>5
<1>7. Base(i) = a
  BY <1>3, <1>6 DEF Base
<1>8. o \in Offsets /\ x = Ord(i) /\ First(x) = a /\ i = a + o
  BY <1>2, <1>3, <1>4, <1>5 DEF Offsets, Ord, First
<1> QED BY <1>3, <1>7, <1>8

\* Multiples keep the order.
LEMMA FirstLess ==
    ASSUME NEW x \in Int, NEW y \in Int, x < y
    PROVE  First(x) + BlockSize <= First(y)
<1>1. BlockSize \in Nat /\ BlockSize >= 2
  BY SizeIs
<1>2. PICK d \in Nat : d = y - x - 1
  OBVIOUS
<1>3. BlockSize * d >= 0
  BY <1>1
<1>4. First(d) >= 0 /\ First(d) \in Int
  BY <1>1, <1>3 DEF First
<1>5. y = (x + 1) + d
  BY <1>2
<1>6. First((x + 1) + d) = First(x + 1) + First(d)
  BY FirstAdd
<1>7. First(x + 1) = First(x) + BlockSize /\ First(x) \in Int
  BY FirstIs
<1> QED BY <1>1, <1>4, <1>5, <1>6, <1>7

LEMMA OrdOf ==
    ASSUME NEW x \in Int, NEW o \in Offsets
    PROVE  /\ First(x) + o \in Int
           /\ Ord(First(x) + o) = x /\ (First(x) + o) % BlockSize = o
<1>1. BlockSize \in Nat /\ BlockSize >= 2 /\ o \in 0..(BlockSize - 1)
  BY SizeIs
<1>2. First(x) \in Int
  BY FirstIs
<1>3. PICK i \in Int : i = First(x) + o
  BY <1>1, <1>2
<1>4. \E y \in Int, p \in Offsets :
         /\ y = Ord(i) /\ p = i % BlockSize
         /\ i = First(y) + p /\ Base(i) = First(y)
  BY OrdIs
<1>5. PICK y \in Int, p \in 0..(BlockSize - 1) :
         y = Ord(i) /\ p = i % BlockSize /\ i = First(y) + p
  BY <1>4 DEF Offsets
<1>6. First(y) \in Int
  BY FirstIs
<1>7. ~ x < y
  <2>1. x < y => First(x) + BlockSize <= First(y)
    BY FirstLess
  <2> QED BY <2>1, <1>1, <1>2, <1>3, <1>5, <1>6
<1>8. ~ y < x
  <2>1. y < x => First(y) + BlockSize <= First(x)
    BY FirstLess
  <2> QED BY <2>1, <1>1, <1>2, <1>3, <1>5, <1>6
<1>9. x = y
  BY <1>7, <1>8
<1>10. o = p
  BY <1>9, <1>1, <1>2, <1>3, <1>5
<1> QED BY <1>3, <1>5, <1>9, <1>10

\* An item is at or after the first of a block when its own is that or a later one.
LEMMA OrdAt ==
    ASSUME NEW i \in Int, NEW x \in Int
    PROVE  /\ Ord(i) \in Int /\ First(x) \in Int
           /\ First(x) <= i <=> x <= Ord(i)
           /\ First(Ord(i)) \in Int /\ First(Ord(i)) <= i /\ i < First(Ord(i)) + BlockSize
<1>1. \E y \in Int, p \in Offsets :
         /\ y = Ord(i) /\ p = i % BlockSize
         /\ i = First(y) + p /\ Base(i) = First(y)
  BY OrdIs
<1>2. PICK y \in Int, p \in Int :
         y = Ord(i) /\ p >= 0 /\ p < BlockSize /\ i = First(y) + p
  BY <1>1, SizeIs
<1>3. First(x) \in Int /\ First(y) \in Int
  BY FirstIs
<1>4. CASE x <= y
  <2>1. First(x) <= First(y)
    <3>1. x < y => First(x) + BlockSize <= First(y)
      BY FirstLess
    <3> QED BY <3>1, <1>3, <1>4, SizeIs
  <2> QED BY <2>1, <1>2, <1>3, <1>4, SizeIs
<1>5. CASE y < x
  <2>1. First(y) + BlockSize <= First(x)
    BY <1>5, FirstLess
  <2> QED BY <2>1, <1>2, <1>3, <1>5, SizeIs
<1> QED BY <1>2, <1>4, <1>5

\* Later items have no smaller numbers.
LEMMA OrdMono ==
    ASSUME NEW i \in Int, NEW j \in Int, i <= j
    PROVE  Ord(i) <= Ord(j) /\ Ord(i) \in Int /\ Ord(j) \in Int
<1>1. PICK x \in Int : x = Ord(i)
  BY OrdAt
<1>2. First(x) \in Int /\ First(x) <= i
  BY <1>1, OrdAt
<1>3. First(x) <= j <=> x <= Ord(j)
  BY OrdAt
<1>4. Ord(j) \in Int
  BY OrdAt
<1> QED BY <1>1, <1>2, <1>3, <1>4

\* The item before the first of a block is in the block before.
LEMMA OrdStep ==
    ASSUME NEW i \in Int
    PROVE  Ord(i - 1) = IF i % BlockSize = 0 THEN Ord(i) - 1 ELSE Ord(i)
<1>1. \E x \in Int, o \in Offsets :
         /\ x = Ord(i) /\ o = i % BlockSize
         /\ i = First(x) + o /\ Base(i) = First(x)
  BY OrdIs
<1>2. PICK x \in Int, o \in 0..(BlockSize - 1) :
         x = Ord(i) /\ o = i % BlockSize /\ i = First(x) + o
  BY <1>1 DEF Offsets
<1>3. BlockSize \in Nat /\ BlockSize >= 2
  BY SizeIs
<1>4. CASE o = 0
  <2>1. BlockSize - 1 \in Offsets
    BY <1>3, SizeIs
  <2>2. First(x - 1) = First(x) - BlockSize /\ First(x) \in Int
    BY FirstIs
  <2>3. i - 1 = First(x - 1) + (BlockSize - 1)
    BY <2>2, <1>2, <1>3, <1>4
  <2>4. Ord(First(x - 1) + (BlockSize - 1)) = x - 1
    BY <2>1, OrdOf
  <2> QED BY <2>3, <2>4, <1>2, <1>4
<1>5. CASE o # 0
  <2>1. o - 1 \in Offsets
    BY <1>3, <1>5, SizeIs
  <2>2. First(x) \in Int
    BY FirstIs
  <2>3. i - 1 = First(x) + (o - 1)
    BY <2>2, <1>2
  <2>4. Ord(First(x) + (o - 1)) = x
    BY <2>1, OrdOf
  <2> QED BY <2>3, <2>4, <1>2, <1>5
<1> QED BY <1>4, <1>5

\* As many blocks lie between two first items as their numbers say.
LEMMA OrdHops ==
    ASSUME NEW x \in Int, NEW y \in Int
    PROVE  (First(x) - First(y)) \div BlockSize = x - y
<1>1. 0 \in Offsets
  BY SizeIs
<1>2. PICK d \in Int : d = x - y
  OBVIOUS
<1>3. Ord(First(d) + 0) = d
  BY <1>1, OrdOf
<1>4. First(x) - First(y) = First(d) + 0
  <2>1. First(x - y) = First(x) - First(y) /\ First(d) \in Int
    BY FirstAdd, FirstIs
  <2> QED BY <2>1, <1>2
<1> QED BY <1>2, <1>3, <1>4 DEF Ord

\* Slots of an index, counted round.
LEMMA SlotAdd ==
    ASSUME NEW n \in Nat, n >= 1, NEW a \in Int, NEW d \in Int
    PROVE  ((a % n) + d) % n = (a + d) % n /\ a % n \in 0..(n - 1)
<1>1. PICK q \in Int, r \in 0..(n - 1) : q = a \div n /\ r = a % n
  OBVIOUS
<1>2. a = n * q + r
  BY <1>1
<1>3. PICK b \in Int : b = r + d
  OBVIOUS
<1>4. PICK p \in Int, s \in 0..(n - 1) : p = b \div n /\ s = b % n
  OBVIOUS
<1>5. b = n * p + s
  BY <1>4
<1>6. a + d = n * (q + p) + s
  <2>1. n * (q + p) = n * q + n * p
    OBVIOUS
  <2>2. PICK u \in Int, v \in Int : u = n * q /\ v = n * p
    OBVIOUS
  <2> QED BY <2>1, <2>2, <1>2, <1>3, <1>5
<1>7. (n * (q + p) + s) % n = s
  <2>1. PICK z \in Int : z = q + p
    OBVIOUS
  <2>2. (n * z + s) % n = s
    OBVIOUS
  <2> QED BY <2>1, <2>2
<1> QED BY <1>1, <1>3, <1>4, <1>6, <1>7

LEMMA SmallMod == ASSUME NEW m \in Nat, NEW s \in 0..(m - 1) PROVE s % m = s
OBVIOUS

\* Less than one round apart, two numbers have different slots.
LEMMA SlotApart ==
    ASSUME NEW n \in Nat, n >= 1, NEW a \in Int, NEW b \in Int, a < b, b < a + n
    PROVE  a % n # b % n
<1> SUFFICES ASSUME a % n = b % n PROVE FALSE
  OBVIOUS
<1>1. PICK r \in 0..(n - 1) : r = a % n
  OBVIOUS
<1>2. PICK d \in Int : d = b - a
  OBVIOUS
<1>3. ((a % n) + d) % n = (a + d) % n
  BY SlotAdd
<1>4. (r + d) % n = r
  BY <1>1, <1>2, <1>3
<1>5. d > 0 /\ d < n
  BY <1>2
<1>6. PICK s \in Int : s = r + d
  OBVIOUS
<1>7. CASE s < n
  <2>1. s % n = s
    BY <1>7, <1>6, <1>5
  <2> QED BY <2>1, <1>4, <1>5, <1>6
<1>8. CASE s >= n
  <2>1. PICK u \in 0..(n - 1) : u = s - n
    <3>1. s - n \in 0..(n - 1)
      BY <1>5, <1>6, <1>8
    <3> QED BY <3>1
  <2>2. PICK z \in Int : z = 1
    OBVIOUS
  <2>3. (n * z + u) % n = u
    OBVIOUS
  <2>4. s = n * z + u
    BY <2>1, <2>2, <1>6
  <2>5. s % n = u
    BY <2>3, <2>4
  <2> QED BY <2>1, <2>5, <1>4, <1>5, <1>6
<1> QED BY <1>6, <1>7, <1>8

-----------------------------------------------------------------------------
\* What is where in the blocks and in an index, in terms of R and q: R[x] is the
\* block that last had the items of number x, and (x + q) % size its slot.

\* What a block, an entry and an index are made of.
BlockRecords == [next : Int, empty : SUBSET Offsets, cells : [Offsets -> Int]]
EntryRecords == [base : Int, block : Int]
Headers == { h \in [size : Nat \ {0}, front : Int,
                    entries : UNION { [0..(n - 1) -> EntryRecords] : n \in Nat }] :
             DOMAIN h.entries = 0..(h.size - 1) }

\* The list is a circle, from the oldest block to the newest.
Linked(R, bl, low, top, x) ==
    R[x] \in 1..Len(bl) /\ bl[R[x]].next = IF x = top THEN R[low] ELSE R[x + 1]
Apart(R, low, top) == \A x, y \in low..top : R[x] = R[y] => x = y
Links(R, bl, low, top) == Apart(R, low, top) /\ \A x \in low..top : Linked(R, bl, low, top, x)

\* The index shows the blocks up to the last one entered.
Shown(R, q, h, low, last) ==
    \A x \in low..last : h.entries[(x + q) % h.size] = [base |-> First(x), block |-> R[x]]

\* What a consumer finds for number x, from the slot s on.
Found(h, s, x) ==
    h.entries[(s + ((First(x) - h.entries[s].base) \div BlockSize)) % h.size].block

\* The oldest block becomes the newest: the circle is turned by one.
LEMMA LinksReuse ==
    ASSUME NEW R \in [Int -> Int], NEW bl, NEW low \in Int, NEW top \in Int, low <= top,
           Links(R, bl, low, top), NEW S, S = [R EXCEPT ![top + 1] = R[low]]
    PROVE  Links(S, bl, low + 1, top + 1)
<1>1. S[top + 1] = R[low] /\ \A x \in low..top : S[x] = R[x]
  OBVIOUS
<1>2. Apart(R, low, top) /\ \A x \in low..top : Linked(R, bl, low, top, x)
  BY DEF Links
<1>3. Apart(S, low + 1, top + 1)
  BY <1>1, <1>2 DEF Apart
<1>4. ASSUME NEW x \in (low + 1)..(top + 1)
      PROVE  Linked(S, bl, low + 1, top + 1, x)
  <2>1. CASE x = top + 1
    <3>1. Linked(R, bl, low, top, low)
      BY <1>2
    <3>2. CASE low = top
      <4>1. S[x] = R[low] /\ S[low + 1] = R[low]
        BY <2>1, <3>2, <1>1
      <4> QED BY <4>1, <2>1, <3>1, <3>2 DEF Linked
    <3>3. CASE low # top
      <4>1. S[x] = R[low] /\ S[low + 1] = R[low + 1]
        BY <2>1, <3>3, <1>1
      <4> QED BY <4>1, <2>1, <3>1, <3>3 DEF Linked
    <3> QED BY <3>2, <3>3
  <2>2. CASE x # top + 1
    <3>1. Linked(R, bl, low, top, x) /\ S[x] = R[x]
      BY <2>2, <1>1, <1>2
    <3>2. S[x + 1] = IF x = top THEN R[low] ELSE R[x + 1]
      BY <2>2, <1>1
    <3> QED BY <2>2, <3>1, <3>2 DEF Linked
  <2> QED BY <2>1, <2>2
<1> QED BY <1>3, <1>4 DEF Links

\* A new block comes between the newest and the oldest.
Spliced(R, bl, new, low, top) ==
    /\ Len(new) = Len(bl) + 1
    /\ new[Len(bl) + 1].next = IF low = top + 1 THEN Len(bl) + 1 ELSE R[low]
    /\ \A i \in 1..Len(bl) :
         new[i].next = IF low <= top /\ i = R[top] THEN Len(bl) + 1 ELSE bl[i].next

\* The circle with one block more.
LEMMA LinksInsert ==
    ASSUME NEW R \in [Int -> Int], NEW bl, NEW low \in Int, NEW top \in Int, low <= top + 1,
           Links(R, bl, low, top), NEW b \in Nat, b = Len(bl) + 1, Len(bl) \in Nat,
           NEW new, Spliced(R, bl, new, low, top), NEW S, S = [R EXCEPT ![top + 1] = b]
    PROVE  Links(S, new, low, top + 1)
<1>0. /\ Len(new) = b /\ new[b].next = IF low = top + 1 THEN b ELSE R[low]
      /\ \A i \in 1..Len(bl) : new[i].next = IF low <= top /\ i = R[top] THEN b ELSE bl[i].next
  BY DEF Spliced
<1>1. S[top + 1] = b /\ \A x \in low..top : S[x] = R[x]
  OBVIOUS
<1>2. Apart(R, low, top) /\ \A x \in low..top : Linked(R, bl, low, top, x)
  BY DEF Links
<1>3. \A x \in low..top : S[x] = R[x] /\ R[x] \in 1..Len(bl)
  BY <1>1, <1>2 DEF Linked
<1>4. Apart(S, low, top + 1)
  <2> SUFFICES ASSUME NEW x \in low..(top + 1), NEW y \in low..(top + 1), S[x] = S[y]
               PROVE  x = y
    BY DEF Apart
  <2>1. \A z \in low..(top + 1) : z = top + 1 \/ z \in low..top
    OBVIOUS
  <2>2. CASE x \in low..top /\ y \in low..top
    <3>1. R[x] = R[y]
      BY <2>2, <1>3
    <3> QED BY <2>2, <3>1, <1>2 DEF Apart
  <2>3. CASE x \in low..top /\ y = top + 1
    BY <2>3, <1>1, <1>3
  <2>4. CASE y \in low..top /\ x = top + 1
    BY <2>4, <1>1, <1>3
  <2> QED BY <2>1, <2>2, <2>3, <2>4
<1>5. ASSUME NEW x \in low..(top + 1)
      PROVE  Linked(S, new, low, top + 1, x)
  <2>1. CASE x = top + 1
    <3>1. new[b].next = S[low]
      BY <1>0, <1>1
    <3>2. Linked(S, new, low, top + 1, top + 1)
      BY <3>1, <1>0, <1>1 DEF Linked
    <3> QED BY <2>1, <3>2
  <2>2. CASE x # top + 1
    <3>1. S[x] = R[x] /\ R[x] \in 1..Len(bl) /\ x \in low..top
      <4>1. x \in low..top
        BY <2>2
      <4> QED BY <4>1, <1>3
    <3>2. new[R[x]].next = S[x + 1]
      <4>1. CASE x = top
        <5>1. new[R[x]].next = b
          <6>1. low <= top /\ R[x] = R[top]
            BY <4>1, <3>1
          <6> QED BY <6>1, <3>1, <1>0
        <5> QED BY <5>1, <4>1, <1>1
      <4>2. CASE x # top
        <5>1. R[x] # R[top]
          BY <4>2, <3>1, <1>2 DEF Apart
        <5>2. Linked(R, bl, low, top, x)
          BY <3>1, <1>2
        <5>3. bl[R[x]].next = R[x + 1]
          BY <5>2, <4>2 DEF Linked
        <5>4. S[x + 1] = R[x + 1]
          BY <4>2, <3>1, <1>1
        <5>5. new[R[x]].next = bl[R[x]].next
          BY <5>1, <3>1, <1>0
        <5> QED BY <5>3, <5>4, <5>5
      <4> QED BY <4>1, <4>2
    <3> QED BY <2>2, <3>1, <3>2, <1>0 DEF Linked
  <2> QED BY <2>1, <2>2
<1> QED BY <1>4, <1>5 DEF Links

\* The circle depends on nothing but the links.
LEMMA LinksKept ==
    ASSUME NEW R, NEW bl, NEW new, NEW low \in Int, NEW top \in Int, Links(R, bl, low, top),
           Len(new) = Len(bl), \A i \in 1..Len(bl) : new[i].next = bl[i].next
    PROVE  Links(R, new, low, top)
<1> SUFFICES ASSUME NEW x \in low..top PROVE Linked(R, new, low, top, x)
  BY DEF Links
<1>1. Linked(R, bl, low, top, x)
  BY DEF Links
<1>2. R[x] \in 1..Len(bl)
  BY <1>1 DEF Linked
<1>3. new[R[x]].next = bl[R[x]].next
  BY <1>2
<1> QED BY <1>1, <1>2, <1>3 DEF Linked

LEMMA HeaderIs ==
    ASSUME NEW h \in Headers
    PROVE  /\ h.size \in Nat /\ h.size >= 1 /\ h.front \in Int
           /\ h.entries \in [0..(h.size - 1) -> EntryRecords]
           /\ DOMAIN h.entries = 0..(h.size - 1)
           /\ h = [size |-> h.size, front |-> h.front, entries |-> h.entries]
BY DEF Headers

LEMMA BeforeLast ==
    ASSUME NEW a \in Int, NEW b \in Int, NEW i \in a..(b + 1), i # b + 1
    PROVE  i \in a..b
OBVIOUS

\* One more entry, at the next slot, of an index with room for it.
LEMMA ShownEnter ==
    ASSUME NEW R \in [Int -> Int], NEW q \in Int, NEW h \in Headers, NEW low \in Int, NEW last \in Int,
           Shown(R, q, h, low, last), last + 1 - low < h.size, NEW s, s = (last + 1 + q) % h.size,
           NEW g, g.size = h.size,
           g.entries = [h.entries EXCEPT ![s] = [base |-> First(last + 1), block |-> R[last + 1]]]
    PROVE  Shown(R, q, g, low, last + 1)
<1>1. PICK n \in Nat : n = h.size /\ n >= 1
  BY HeaderIs
<1>2. PICK z \in Int : z = last + 1 + q
  OBVIOUS
<1>3. s \in 0..(n - 1) /\ h.entries \in [0..(n - 1) -> EntryRecords]
  <2>1. z % n \in 0..(n - 1)
    BY <1>1
  <2> QED BY <2>1, <1>1, <1>2, HeaderIs
<1>4. ASSUME NEW x \in low..(last + 1)
      PROVE  g.entries[(x + q) % n] = [base |-> First(x), block |-> R[x]]
  <2>1. CASE x = last + 1
    <3>1. g.entries[s] = [base |-> First(last + 1), block |-> R[last + 1]]
      BY <1>3
    <3> QED BY <3>1, <2>1, <1>1
  <2>2. CASE x # last + 1
    <3>1. PICK y \in Int : y = x + q
      OBVIOUS
    <3>2. y < z /\ z < y + n
      BY <2>2, <3>1, <1>1, <1>2
    <3>3. y % n # z % n
      BY <3>2, <1>1, SlotApart
    <3>4. (x + q) % n # s /\ (x + q) % n \in 0..(n - 1)
      BY <3>1, <3>3, <1>1, <1>2
    <3>5. g.entries[(x + q) % n] = h.entries[(x + q) % n]
      BY <3>4, <1>3
    <3>6. x \in low..last
      BY <2>2, BeforeLast
    <3>7. h.entries[(x + q) % h.size] = [base |-> First(x), block |-> R[x]]
      BY <3>6 DEF Shown
    <3> QED BY <3>5, <3>7, <1>1
  <2> QED BY <2>1, <2>2
<1> QED BY <1>1, <1>4 DEF Shown

\* From any entry of the index the consumer's division leads to any other.
LEMMA FoundIs ==
    ASSUME NEW R \in [Int -> Int], NEW q \in Int, NEW h \in Headers, NEW low \in Int, NEW last \in Int,
           Shown(R, q, h, low, last), NEW x \in low..last, NEW y \in low..last,
           NEW s, s = (y + q) % h.size
    PROVE  Found(h, s, x) = R[x]
<1>1. PICK n \in Nat : n = h.size /\ n >= 1
  BY HeaderIs
<1>2. h.entries[s] = [base |-> First(y), block |-> R[y]]
  BY DEF Shown
<1>3. (First(x) - h.entries[s].base) \div BlockSize = x - y
  BY <1>2, OrdHops
<1>4. (s + (x - y)) % n = (x + q) % n
  <2>1. PICK a \in Int, d \in Int : a = y + q /\ d = x - y
    OBVIOUS
  <2>2. ((a % n) + d) % n = (a + d) % n
    BY <1>1, SlotAdd
  <2>3. a + d = x + q
    BY <2>1
  <2> QED BY <2>1, <2>2, <2>3, <1>1
<1>5. h.entries[(x + q) % n].block = R[x]
  <2>1. h.entries[(x + q) % n] = [base |-> First(x), block |-> R[x]]
    BY <1>1 DEF Shown
  <2> QED BY <2>1
<1>6. Found(h, s, x) = h.entries[(s + (x - y)) % n].block
  BY <1>1, <1>3 DEF Found
<1> QED BY <1>4, <1>5, <1>6

\* The entries copied into an index of twice the size, from the oldest on.
LEMMA ShownGrown ==
    ASSUME NEW R \in [Int -> Int], NEW q \in Int, NEW h \in Headers, NEW low \in Int, NEW last \in Int,
           Shown(R, q, h, low, last), last + 1 - low = h.size, NEW f, f = (last + 1 + q) % h.size,
           NEW g, g.size = 2 * h.size,
           \A s \in 0..(h.size - 1) : g.entries[s] = h.entries[(f - h.size + s) % h.size]
    PROVE  Shown(R, 0 - low, g, low, last)
<1>1. PICK n \in Nat : n = h.size /\ n >= 1
  BY HeaderIs
<1>2. ASSUME NEW x \in low..last
      PROVE  g.entries[(x + (0 - low)) % g.size] = [base |-> First(x), block |-> R[x]]
  <2>1. PICK s \in 0..(n - 1) : s = x - low
    BY <1>1
  <2>2. (x + (0 - low)) % g.size = s
    <3>1. PICK m \in Nat : m = 2 * n /\ m = g.size /\ s < m /\ m >= 1
      BY <1>1, <2>1
    <3>2. s % m = s
      <4>1. s \in 0..(m - 1)
        BY <3>1
      <4> QED BY <4>1, SmallMod
    <3>3. x + (0 - low) = s
      BY <2>1
    <3> QED BY <3>1, <3>2, <3>3
  <2>3. (f - n + s) % n = (x + q) % n
    <3>1. PICK a \in Int, d \in Int : a = last + 1 + q /\ d = s - n
      OBVIOUS
    <3>2. ((a % n) + d) % n = (a + d) % n
      BY <1>1, SlotAdd
    <3>3. a + d = x + q
      BY <3>1, <2>1, <1>1
    <3>4. PICK u \in Int : u = a % n
      BY <1>1
    <3>5. f = u
      BY <3>1, <3>4, <1>1
    <3>6. f - n + s = u + d
      BY <3>1, <3>5
    <3> QED BY <3>2, <3>3, <3>4, <3>6
  <2>4. h.entries[(x + q) % n] = [base |-> First(x), block |-> R[x]]
    BY <1>1 DEF Shown
  <2> QED BY <2>1, <2>2, <2>3, <2>4, <1>1
<1> QED BY <1>2 DEF Shown

-----------------------------------------------------------------------------
\* The consumers that have claimed items; the items that are theirs are still in
\* their blocks, and what they have not copied has not been taken.

\* The consumers with items, and from which item on they need the block.
Busy == { c \in Consumers : consumer[c] \in {"index", "copy", "release"} }
Owed(c) == IF consumer[c] = "release" THEN End(c) ELSE local[c].next

\* What two consumers have claimed is apart, and behind the head.
RangesApart ==
    /\ \A c \in Busy : 0 <= local[c].next /\ local[c].next < local[c].stop /\ local[c].stop <= head
    /\ \A c, d \in Busy : c # d => local[c].stop <= local[d].next \/ local[d].stop <= local[c].next

\* No item taken is one that a consumer has still to take.
TakenOnce ==
    \A t \in taken : /\ t[1] \in Nat /\ t[1] < head
                     /\ \A c \in Busy : t[1] < Owed(c) \/ local[c].stop <= t[1]

\* No consumer will look for the item at i any more.
Free(i) == i < head /\ \A c \in Busy : i < local[c].next \/ local[c].stop <= i

\* The locals of an enqueue_bulk.
Bulks == [kind : {"bulk"}, n : Nat \ {0}, need : Nat, chain : Seq(Int), start : Int,
          slots0 : Int, front0 : Int]

\* The blocks still to come, and those that have come.
Bulk ==
    /\ op \in Bulks
    /\ op.need + Len(op.chain) = Ord(tail + op.n - 1) - Ord(tail - 1)
    /\ producer = "new" => op.need >= 1
    /\ producer \in {"front", "publish"} => op.need = 0
    /\ 0 <= slotsUsed - op.slots0 /\ slotsUsed - op.slots0 <= Len(op.chain)
    /\ tail > 0 => op.slots0 > 0

\* Where the producer is, with which locals.
Control ==
    \/ producer = "idle" /\ op = NoOp
    \/ producer \in {"new", "entry"} /\ op = One /\ tail % BlockSize = 0
    \/ producer = "publish" /\ op = One
    \/ producer \in {"reuse", "new", "front", "publish"} /\ Bulk

\* The types of the blocks and the indexes.
Shapes == /\ blocks \in Seq(BlockRecords) /\ indexes \in Seq(Headers) /\ indexes # <<>>
          /\ tailBlock \in Int /\ slotsUsed \in Int /\ front \in Int

Current == indexes[Len(indexes)]

\* The numbers of the newest block, of the last one entered, of the last one
\* whose flags tell of its items, and of the oldest.
Top == IF op.kind = "bulk" THEN Ord(tail - 1) + Len(op.chain)
       ELSE IF producer \in {"entry", "publish"} THEN Ord(tail) ELSE Ord(tail - 1)
Last == IF producer = "entry" THEN Top - 1 ELSE Top
Marked == IF op.kind = "bulk" /\ producer # "publish" THEN Ord(tail - 1) ELSE Top
Low == Top + 1 - Len(blocks)

\* The blocks the index has room for, the newest of them the tail block.
Sized(R) ==
    /\ Low >= 0 /\ slotsUsed = Len(blocks) /\ slotsUsed <= Size
    /\ IF slotsUsed = 0 THEN tailBlock = 0 /\ Top = -1 ELSE tailBlock = R[Top]
    /\ producer = "new" /\ op.kind = "one" => slotsUsed < Size

\* The front is the slot after the last entry; the one that consumers see is
\* that of an entry they can start from.
Fronts(q) ==
    /\ front = (Last + 1 + q) % Size
    /\ tail > 0 => \E y \in Ord(tail - 1)..Last : Current.front = (y + q) % Size
    /\ producer = "publish" => Current.front = (Last + q) % Size

\* Each item before t is in the block of its number.
Cells(R, bl, low, top, t) ==
    \A x \in low..top, o \in Offsets :
        First(x) + o < t => bl[R[x]].cells[o] = First(x) + o + 1

\* A flag that is set tells of an item that is free.
Flags(R, bl, low, marked) ==
    \A x \in low..marked, o \in Offsets : o \in bl[R[x]].empty => Free(First(x) + o)

\* All items before the oldest block's are free: their blocks were reused.
Floor(low) == \A i \in Nat : i < First(low) => Free(i)

\* A consumer that has read the current index starts from a slot of it not
\* before its own items; one that has read an older one finds them there.
ReadsNew(q, c) == \E y \in Ord(local[c].stop - 1)..Last : local[c].slot = (y + q) % Size
ReadsOld(R, c) == \A x \in Ord(local[c].next)..Ord(local[c].stop - 1) :
                    Found(indexes[local[c].header], local[c].slot, x) = R[x]
Reads(R, q) ==
    \A c \in Busy : consumer[c] # "index" =>
        /\ local[c].header \in 1..Len(indexes)
        /\ IF local[c].header = Len(indexes) THEN ReadsNew(q, c) ELSE ReadsOld(R, c)

\* The blocks that an enqueue_bulk has taken so far.
Chained(R) ==
    op.kind = "bulk" =>
        /\ \A k \in 1..Len(op.chain) : op.chain[k] = R[Ord(tail - 1) + k]
        /\ tail % BlockSize # 0 => op.start = R[Ord(tail - 1)]

\* The numbering R of the blocks, q slots on in the index.
Ring(R, q) ==
    /\ R \in [Int -> Int] /\ q \in Int
    /\ Sized(R) /\ Links(R, blocks, Low, Top) /\ Shown(R, q, Current, Low, Last) /\ Fronts(q)
    /\ Cells(R, blocks, Low, Top, tail) /\ Flags(R, blocks, Low, Marked) /\ Floor(Low)
    /\ Reads(R, q) /\ Chained(R)

\* What concerns the consumers and the counters alone.
Counts == CountInv /\ RangesApart /\ TakenOnce

\* How these numbers lie.
LEMMA OpIs ==
    ASSUME CountTypes, Control
    PROVE  /\ producer \in {"idle", "new", "entry", "publish", "reuse", "front"}
           /\ \/ op = NoOp /\ op.kind = "none" /\ producer = "idle"
              \/ op = One /\ op.kind = "one" /\ op.n = 1 /\ producer \in {"new", "entry", "publish"}
              \/ op.kind = "bulk" /\ Bulk /\ producer \in {"reuse", "new", "front", "publish"}
           /\ producer = "entry" => tail % BlockSize = 0 /\ op.kind = "one"
           /\ producer = "new" /\ op.kind = "one" => tail % BlockSize = 0
<1>1. NoOp.kind = "none" /\ One.kind = "one" /\ One.n = 1
  BY DEF NoOp, One
<1>2. Bulk => op.kind = "bulk"
  BY DEF Bulk, Bulks
<1> QED BY <1>1, <1>2 DEF Control

\* In which order the numbers are.
LEMMA NumbersIs ==
    ASSUME CountTypes, Control, Shapes
    PROVE  /\ Ord(tail - 1) \in Int /\ Ord(tail) \in Int /\ Top \in Int /\ Last \in Int
           /\ Marked \in Int /\ Low \in Int /\ Len(blocks) \in Nat
           /\ Ord(tail - 1) <= Last /\ Last <= Top /\ Top <= Last + 1
           /\ Ord(tail - 1) <= Marked /\ Marked <= Top
           /\ producer # "entry" => Last = Top
           /\ Low = Top + 1 - Len(blocks)
<1>1. Ord(tail - 1) \in Int /\ Ord(tail) \in Int /\ Ord(tail - 1) <= Ord(tail)
  BY OrdMono DEF CountTypes
<1>2. Len(blocks) \in Nat
  BY LenProperties DEF Shapes
<1>3. op.kind = "bulk" => Len(op.chain) \in Nat
  <2>1. op.kind = "bulk" => op.chain \in Seq(Int)
    BY OpIs DEF Bulk, Bulks
  <2> QED BY <2>1, LenProperties
<1>4. Top \in Int /\ Ord(tail - 1) <= Top
  BY <1>1, <1>3 DEF Top
<1>5. producer = "entry" => Top = Ord(tail) /\ Ord(tail - 1) = Ord(tail) - 1
  <2>1. ASSUME producer = "entry" PROVE tail % BlockSize = 0 /\ op.kind = "one"
    BY <2>1, OpIs
  <2>2. tail \in Int
    BY DEF CountTypes
  <2>3. Ord(tail - 1) = IF tail % BlockSize = 0 THEN Ord(tail) - 1 ELSE Ord(tail)
    BY <2>2, OrdStep
  <2> QED BY <2>1, <2>3 DEF Top
<1>6. Last \in Int /\ Ord(tail - 1) <= Last /\ Last <= Top /\ Top <= Last + 1
  BY <1>1, <1>4, <1>5 DEF Last
<1>7. Marked \in Int /\ Ord(tail - 1) <= Marked /\ Marked <= Top
  BY <1>1, <1>4 DEF Marked
<1> QED BY <1>1, <1>2, <1>4, <1>6, <1>7 DEF Low, Last

\* The items that are looked for are in blocks of the ring.
LEMMA WantedIs ==
    ASSUME CountInv, RangesApart, Control, Shapes, Floor(Low), NEW c \in Busy
    PROVE  /\ local[c].next \in Nat /\ local[c].stop \in Nat
           /\ Ord(local[c].next) \in Int /\ Ord(local[c].stop - 1) \in Int
           /\ Low <= Ord(local[c].next) /\ Ord(local[c].next) <= Ord(local[c].stop - 1)
           /\ Ord(local[c].stop - 1) <= Ord(tail - 1)
<1>1. PICK a \in Nat, b \in Nat : a = local[c].next /\ b = local[c].stop /\ a < b /\ b <= head
  <2>1. local[c].next \in Int /\ local[c].stop \in Int
    BY DEF Busy, CountInv, CountTypes, Locals
  <2>2. head \in Nat
    BY DEF CountInv, CountTypes
  <2> QED BY <2>1, <2>2 DEF RangesApart
<1>2. head <= tail /\ head \in Nat /\ tail \in Nat
  BY CountHeads
<1>3. Ord(a) <= Ord(b - 1) /\ Ord(a) \in Int /\ Ord(b - 1) \in Int
  BY <1>1, OrdMono
<1>4. Ord(b - 1) <= Ord(tail - 1)
  BY <1>1, <1>2, OrdMono
<1>5. ~ Free(a)
  BY <1>1 DEF Free
<1>6. ~ a < First(Low)
  BY <1>1, <1>5 DEF Floor
<1>7. Low \in Int /\ First(Low) \in Int
  BY NumbersIs, FirstIs DEF CountInv
<1>8. Low <= Ord(a)
  <2>1. First(Low) <= a
    BY <1>1, <1>6, <1>7
  <2>2. First(Low) <= a <=> Low <= Ord(a)
    <3>1. a \in Int
      OBVIOUS
    <3> QED BY <3>1, <1>7, OrdAt
  <2> QED BY <2>1, <2>2
<1> QED BY <1>1, <1>3, <1>4, <1>8

\* The oldest block's items are before the next one to be published.
LEMMA LowIs ==
    ASSUME CountInv, Control, Shapes, Floor(Low)
    PROVE  Low <= Ord(tail) /\ Low <= Ord(tail - 1) + 1
<1>1. head <= tail /\ head \in Nat /\ tail \in Nat
  BY CountHeads
<1>2. Low \in Int /\ First(Low) \in Int
  BY NumbersIs, FirstIs DEF CountInv
<1>3. First(Low) <= tail
  <2>1. CASE First(Low) > 0
    <3>1. First(Low) - 1 \in Nat /\ First(Low) - 1 < First(Low)
      BY <2>1, <1>2
    <3>2. Free(First(Low) - 1)
      BY <3>1 DEF Floor
    <3> QED BY <3>2, <1>1, <1>2 DEF Free
  <2> QED BY <2>1, <1>1, <1>2
<1>4. Low <= Ord(tail) /\ Ord(tail) \in Int
  BY <1>1, <1>2, <1>3, OrdAt
<1>5. Ord(tail - 1) = IF tail % BlockSize = 0 THEN Ord(tail) - 1 ELSE Ord(tail)
  BY <1>1, OrdStep
<1> QED BY <1>2, <1>4, <1>5

-----------------------------------------------------------------------------
\* A step of the producer leaves the consumers alone.
Still == UNCHANGED <<head, consumer, local>>
Alone == UNCHANGED tail /\ Still

LEMMA StillIs ==
    ASSUME Still
    PROVE  /\ head' = head /\ consumer' = consumer /\ local' = local
           /\ Busy' = Busy /\ \A i : Free(i)' <=> Free(i)
BY DEF Still, Busy, Free

LEMMA AloneIs ==
    ASSUME Alone
    PROVE  /\ tail' = tail /\ head' = head /\ consumer' = consumer /\ local' = local
           /\ Busy' = Busy /\ \A i : Free(i)' <=> Free(i)
BY StillIs DEF Alone

\* What consumers find is still found as the producer enters more.
LEMMA ReadsKept ==
    ASSUME CountInv, RangesApart, Control, Shapes, Floor(Low), NEW R, NEW q \in Int, Reads(R, q),
           Still, Len(indexes') = Len(indexes), Size' = Size,
           \A k \in 1..(Len(indexes) - 1) : indexes'[k] = indexes[k],
           Last \in Int, Last' \in Int, Last <= Last',
           NEW S, \A x \in Int : x <= Ord(tail - 1) => S[x] = R[x]
    PROVE  Reads(S, q)'
<1>1. consumer' = consumer /\ local' = local /\ Busy' = Busy
  BY StillIs
<1>2. ASSUME NEW c \in Busy, consumer[c] # "index"
      PROVE  /\ local[c].header \in 1..Len(indexes')
             /\ IF local[c].header = Len(indexes') THEN ReadsNew(q, c)' ELSE ReadsOld(S, c)'
  <2>1. local[c].header \in 1..Len(indexes)
    BY <1>2 DEF Reads
  <2>2. PICK a \in Int, b \in Int : a = Ord(local[c].next) /\ b = Ord(local[c].stop - 1) /\ b <= Ord(tail - 1)
    BY WantedIs
  <2>3. Ord(tail - 1) \in Int
    BY NumbersIs DEF CountInv
  <2>4. CASE local[c].header = Len(indexes)
    <3>1. ReadsNew(q, c)
      BY <1>2, <2>4 DEF Reads
    <3>2. PICK y \in b..Last : local[c].slot = (y + q) % Size
      BY <3>1, <2>2 DEF ReadsNew
    <3>3. y \in b..Last'
      BY <3>2
    <3>4. \E z \in Ord(local'[c].stop - 1)..Last' : local'[c].slot = (z + q) % Size'
      BY <3>2, <3>3, <2>2, <1>1
    <3>5. ReadsNew(q, c)'
      BY <3>4 DEF ReadsNew
    <3> QED BY <3>5, <2>1, <2>4
  <2>5. CASE local[c].header # Len(indexes)
    <3>1. ReadsOld(R, c)
      BY <1>2, <2>5 DEF Reads
    <3>2. indexes'[local[c].header] = indexes[local[c].header]
      <4>1. Len(indexes) \in Nat
        BY LenProperties DEF Shapes
      <4>2. local[c].header \in 1..(Len(indexes) - 1)
        BY <4>1, <2>1, <2>5
      <4> QED BY <4>2
    <3>3. \A x \in a..b : S[x] = R[x]
      BY <2>2, <2>3
    <3>4. \A x \in a..b : Found(indexes[local[c].header], local[c].slot, x) = R[x]
      BY <3>1, <2>2 DEF ReadsOld
    <3>5. \A x \in Ord(local'[c].next)..Ord(local'[c].stop - 1) :
            Found(indexes'[local'[c].header], local'[c].slot, x) = S[x]
      BY <3>2, <3>3, <3>4, <2>2, <1>1
    <3>6. ReadsOld(S, c)'
      BY <3>5 DEF ReadsOld
    <3> QED BY <3>6, <2>1, <2>5
  <2> QED BY <2>4, <2>5
<1> QED BY <1>1, <1>2 DEF Reads

\* There is one more index, after those there were.
Longer == /\ Len(indexes') = Len(indexes) + 1
          /\ \A k \in 1..Len(indexes) : indexes'[k] = indexes[k]

\* A reader of the index that is replaced still finds its blocks in it.
LEMMA ReadsGrown ==
    ASSUME CountInv, RangesApart, Control, Shapes, Floor(Low), NEW R \in [Int -> Int], NEW q \in Int,
           Reads(R, q), Shown(R, q, Current, Low, Last), Alone, NEW p \in Int, Longer
    PROVE  Reads(R, p)'
<1>1. consumer' = consumer /\ local' = local /\ Busy' = Busy
  BY AloneIs
<1>2. ASSUME NEW c \in Busy, consumer[c] # "index"
      PROVE  local[c].header \in 1..Len(indexes') /\ local[c].header # Len(indexes') /\ ReadsOld(R, c)'
  <2>0. PICK n \in Nat : n = Len(indexes)
    BY LenProperties DEF Shapes
  <2>1. local[c].header \in 1..n
    BY <1>2, <2>0 DEF Reads
  <2>2. PICK a \in Int, b \in Int : /\ a = Ord(local[c].next) /\ b = Ord(local[c].stop - 1)
                                    /\ b <= Ord(tail - 1) /\ Low <= a /\ a <= b
    BY WantedIs
  <2>3. \A x \in a..b : Found(indexes[local[c].header], local[c].slot, x) = R[x]
    <3>1. CASE local[c].header # Len(indexes)
      <4>1. ReadsOld(R, c)
        BY <1>2, <3>1 DEF Reads
      <4> QED BY <4>1, <2>2 DEF ReadsOld
    <3>2. CASE local[c].header = Len(indexes)
      <4>1. ReadsNew(q, c)
        BY <1>2, <3>2 DEF Reads
      <4>2. PICK y \in b..Last : local[c].slot = (y + q) % Size
        BY <4>1, <2>2 DEF ReadsNew
      <4>3. PICK l \in Int, m \in Int : l = Low /\ m = Last /\ b <= m
        <5>1. Low \in Int /\ Last \in Int /\ Ord(tail - 1) \in Int /\ Ord(tail - 1) <= Last
          BY NumbersIs DEF CountInv
        <5>2. b <= Last
          BY <2>2, <5>1
        <5> QED BY <5>1, <5>2
      <4>4. PICK h \in Headers : h = Current
        <5>1. n >= 1
          BY <2>1
        <5>2. indexes[n] \in Headers
          BY <5>1, <2>0, ElementOfSeq DEF Shapes
        <5> QED BY <5>2, <2>0 DEF Current
      <4>5. Size = h.size /\ Shown(R, q, h, l, m)
        BY <4>3, <4>4 DEF Size, Current
      <4>6. ASSUME NEW x \in a..b PROVE Found(h, local[c].slot, x) = R[x]
        <5>1. x \in l..m /\ y \in l..m
          BY <2>2, <4>2, <4>3
        <5> QED BY <5>1, <4>2, <4>5, FoundIs
      <4> QED BY <4>4, <4>6, <3>2 DEF Current
    <3> QED BY <3>1, <3>2
  <2>4. indexes'[local[c].header] = indexes[local[c].header] /\ Len(indexes') = n + 1
    BY <2>0, <2>1 DEF Longer
  <2>5. \A x \in Ord(local'[c].next)..Ord(local'[c].stop - 1) :
          Found(indexes'[local'[c].header], local'[c].slot, x) = R[x]
    BY <2>2, <2>3, <2>4, <1>1
  <2>6. ReadsOld(R, c)'
    BY <2>5 DEF ReadsOld
  <2>7. local[c].header \in 1..(n + 1) /\ local[c].header # n + 1
    BY <2>1
  <2> QED BY <2>4, <2>6, <2>7
<1> QED BY <1>1, <1>2 DEF Reads

\* Steps that only move the producer.
LEMMA RingKept ==
    ASSUME CountInv, RangesApart, Control, Shapes, NEW R, NEW q, Ring(R, q), Alone,
           UNCHANGED <<blocks, indexes, private>>, Top' = Top, Last' = Last,
           Marked' \in Int, Marked' <= Marked, Chained(R)',
           producer' = "new" /\ op'.kind = "one" => slotsUsed < Size,
           producer' = "publish" => tail > 0 /\ Last = Ord(tail - 1)
    PROVE  Ring(R, q)'
<1>1. /\ tail' = tail /\ Busy' = Busy /\ \A i : Free(i)' <=> Free(i)
      /\ blocks' = blocks /\ indexes' = indexes /\ tailBlock' = tailBlock
      /\ slotsUsed' = slotsUsed /\ front' = front
  BY AloneIs DEF private
<1>2. Low' = Low /\ Size' = Size /\ Current' = Current
  BY <1>1 DEF Low, Size, Current
<1>3. R \in [Int -> Int] /\ q \in Int /\ Marked \in Int /\ Low \in Int /\ Last \in Int
  BY NumbersIs DEF Ring, CountInv
<1>4. Sized(R)'
  BY <1>1, <1>2 DEF Ring, Sized
<1>5. Links(R, blocks, Low, Top)'
  BY <1>1, <1>2 DEF Ring
<1>6. Shown(R, q, Current, Low, Last)'
  BY <1>2 DEF Ring
<1>7. Fronts(q)'
  <2>1. Fronts(q)
    BY DEF Ring
  <2>2. front' = (Last' + 1 + q) % Size'
    BY <2>1, <1>1, <1>2 DEF Fronts
  <2>3. tail' > 0 => \E y \in Ord(tail' - 1)..Last' : Current'.front = (y + q) % Size'
    BY <2>1, <1>1, <1>2 DEF Fronts
  <2>4. producer' = "publish" => Current'.front = (Last' + q) % Size'
    <3> SUFFICES ASSUME producer' = "publish" PROVE Current.front = (Last + q) % Size
      BY <1>1, <1>2
    <3>1. PICK y \in Ord(tail - 1)..Last : Current.front = (y + q) % Size
      BY <2>1 DEF Fronts
    <3>2. PICK l \in Int : l = Last /\ l = Ord(tail - 1)
      BY <1>3
    <3>3. y = l
      BY <3>2
    <3> QED BY <3>1, <3>2, <3>3
  <2> QED BY <2>2, <2>3, <2>4 DEF Fronts
<1>8. Cells(R, blocks, Low, Top, tail)'
  BY <1>1, <1>2 DEF Ring
<1>9. Flags(R, blocks, Low, Marked)'
  <2>1. Flags(R, blocks, Low, Marked)
    BY DEF Ring
  <2>2. \A x \in Low..Marked' : x \in Low..Marked
    BY <1>3
  <2>3. \A x \in Low..Marked', o \in Offsets : o \in blocks[R[x]].empty => Free(First(x) + o)
    BY <2>1, <2>2 DEF Flags
  <2> QED BY <2>3, <1>1, <1>2 DEF Flags
<1>10. Floor(Low)'
  BY <1>1, <1>2 DEF Ring, Floor
<1>11. Reads(R, q)'
  <2>1. Reads(R, q) /\ Floor(Low)
    BY DEF Ring
  <2> QED BY <2>1, <1>1, <1>2, <1>3, ReadsKept DEF Alone
<1> QED BY <1>3, <1>4, <1>5, <1>6, <1>7, <1>8, <1>9, <1>10, <1>11 DEF Ring

-----------------------------------------------------------------------------
\* The block ahead of the newest one is the oldest.
LEMMA AheadIs ==
    ASSUME CountInv, Control, Shapes, NEW R \in [Int -> Int], Sized(R), Links(R, blocks, Low, Top),
           tailBlock # 0
    PROVE  /\ Low <= Top /\ tailBlock = R[Top] /\ Ahead = R[Low] /\ Len(blocks) >= 1
           /\ \A x \in Low..Top : R[x] \in 1..Len(blocks)
           /\ tailBlock \in 1..Len(blocks)
<1>1. /\ Top \in Int /\ Low \in Int /\ Len(blocks) \in Nat /\ Low = Top + 1 - Len(blocks)
  BY NumbersIs DEF CountInv
<1>2. slotsUsed # 0 /\ tailBlock = R[Top] /\ slotsUsed = Len(blocks)
  BY DEF Sized
<1>3. Low <= Top
  BY <1>1, <1>2
<1>4. Linked(R, blocks, Low, Top, Top)
  BY <1>1, <1>3 DEF Links
<1>5. \A x \in Low..Top : R[x] \in 1..Len(blocks)
  BY DEF Links, Linked
<1>6. R[Top] \in 1..Len(blocks) /\ blocks[R[Top]].next = R[Low]
  BY <1>4 DEF Linked
<1>7. Ahead = R[Low]
  BY <1>2, <1>6 DEF Ahead
<1>8. Len(blocks) >= 1
  BY <1>1, <1>3
<1>9. tailBlock \in 1..Len(blocks)
  BY <1>2, <1>6
<1> QED BY <1>2, <1>3, <1>5, <1>7, <1>8, <1>9

\* All its flags are set: none of its items is looked for any more.
LEMMA AheadFree ==
    ASSUME CountInv, Control, Shapes, NEW R \in [Int -> Int], Sized(R), Links(R, blocks, Low, Top),
           Flags(R, blocks, Low, Marked), Floor(Low), AheadEmpty, Low <= Marked
    PROVE  Floor(Low + 1)
<1>1. tailBlock # 0 /\ blocks[Ahead].empty = Offsets
  BY DEF AheadEmpty
<1>2. blocks[R[Low]].empty = Offsets
  BY <1>1, AheadIs
<1>3. PICK l \in Int, f \in Int : l = Low /\ f = First(l) /\ First(l + 1) = f + BlockSize /\ l \in Low..Marked
  <2>1. Low \in Int /\ Marked \in Int
    BY NumbersIs DEF CountInv
  <2> QED BY <2>1, FirstIs
<1>4. \A o \in Offsets : Free(f + o)
  BY <1>2, <1>3 DEF Flags
<1>5. ASSUME NEW i \in Nat, i < f + BlockSize PROVE Free(i)
  <2>1. CASE i < f
    BY <2>1, <1>3 DEF Floor
  <2>2. CASE i >= f
    <3>1. PICK o \in Int : o = i - f
      BY <1>3
    <3>2. o \in Offsets
      <4>1. BlockSize \in Nat /\ f \in Int
        BY <1>3, SizeIs
      <4>2. i < f + BlockSize /\ i >= f
        BY <2>2, <1>5
      <4>3. o \in 0..(BlockSize - 1)
        BY <3>1, <4>1, <4>2
      <4> QED BY <4>3, SizeIs
    <3>3. f + o = i
      BY <3>1, <1>3
    <3> QED BY <3>2, <3>3, <1>4
  <2> QED BY <2>1, <2>2, <1>3
<1> QED BY <1>3, <1>5 DEF Floor

\* What is published lies before the first item of a later block.
LEMMA Beyond ==
    ASSUME CountInv, NEW x \in Int, Ord(tail - 1) < x, NEW o \in Offsets
    PROVE  ~ First(x) + o < tail
<1>1. tail \in Nat
  BY DEF CountInv, CountTypes
<1>2. First(x) \in Int /\ Ord(tail - 1) \in Int /\ (First(x) <= tail - 1 <=> x <= Ord(tail - 1))
  BY <1>1, OrdAt
<1>3. o >= 0 /\ o \in Int
  BY SizeIs
<1> QED BY <1>1, <1>2, <1>3

\* Flags may change, links and items do not.
SameBlocks == /\ Len(blocks') = Len(blocks)
              /\ \A i \in 1..Len(blocks) : /\ blocks'[i].next = blocks[i].next
                                           /\ blocks'[i].cells = blocks[i].cells

\* The ring after the oldest block was found empty and made the newest.
LEMMA RingReused ==
    ASSUME CountInv, Control, Shapes, NEW R \in [Int -> Int], NEW q \in Int, Ring(R, q), Alone,
           AheadEmpty, Low <= Marked, NEW S, S = [R EXCEPT ![Top + 1] = R[Low]],
           SameBlocks, Top' = Top + 1, Size' = Size, UNCHANGED slotsUsed, tailBlock' = Ahead,
           producer' # "new"
    PROVE  /\ S \in [Int -> Int] /\ Low' = Low + 1 /\ Sized(S)' /\ Links(S, blocks, Low, Top)'
           /\ Cells(S, blocks, Low, Top, tail)' /\ Floor(Low)'
           /\ Ahead = R[Low] /\ Low <= Top /\ R[Low] \in 1..Len(blocks)
           /\ S[Top + 1] = R[Low] /\ \A x \in Int : x <= Top => S[x] = R[x]
<1>1. /\ Sized(R) /\ Links(R, blocks, Low, Top) /\ Cells(R, blocks, Low, Top, tail)
      /\ Flags(R, blocks, Low, Marked) /\ Floor(Low) /\ tailBlock # 0
  BY DEF Ring, AheadEmpty
<1>2. /\ Top \in Int /\ Low \in Int /\ Len(blocks) \in Nat /\ Low = Top + 1 - Len(blocks)
      /\ Ord(tail - 1) \in Int /\ Ord(tail - 1) <= Top
  BY NumbersIs DEF CountInv
<1>3. /\ Low <= Top /\ tailBlock = R[Top] /\ Ahead = R[Low] /\ Len(blocks) >= 1
      /\ \A x \in Low..Top : R[x] \in 1..Len(blocks)
  BY <1>1, AheadIs
<1>4. Len(blocks') = Len(blocks)
  BY DEF SameBlocks
<1>5. Low' = Low + 1
  BY <1>2, <1>4 DEF Low
<1>6. S \in [Int -> Int] /\ S[Top + 1] = R[Low] /\ \A x \in Int : x <= Top => S[x] = R[x]
  BY <1>2
<1>7. Sized(S)'
  <2>1. Low' >= 0 /\ slotsUsed' = Len(blocks') /\ slotsUsed' <= Size'
    BY <1>1, <1>2, <1>4, <1>5 DEF Sized
  <2>2. slotsUsed' # 0 /\ tailBlock' = S[Top']
    BY <1>1, <1>3, <1>6 DEF Sized
  <2> QED BY <2>1, <2>2 DEF Sized
<1>8. Links(S, blocks, Low, Top)'
  <2>1. Links(S, blocks, Low + 1, Top + 1)
    BY <1>1, <1>2, <1>3, LinksReuse
  <2>2. Links(S, blocks', Low + 1, Top + 1)
    <3>1. \A i \in 1..Len(blocks) : blocks'[i].next = blocks[i].next
      BY DEF SameBlocks
    <3>2. Low + 1 \in Int /\ Top + 1 \in Int
      BY <1>2
    <3> QED BY <2>1, <3>1, <3>2, <1>4, LinksKept
  <2> QED BY <2>2, <1>5
<1>9. Cells(S, blocks, Low, Top, tail)'
  <2> SUFFICES ASSUME NEW x \in (Low + 1)..(Top + 1), NEW o \in Offsets, First(x) + o < tail
               PROVE  blocks'[S[x]].cells[o] = First(x) + o + 1
    BY <1>5, AloneIs DEF Cells
  <2>1. ~ Ord(tail - 1) < x
    BY Beyond
  <2>2. x \in Low..Top
    <3>1. PICK m \in Int, l \in Int, t \in Int : m = Ord(tail - 1) /\ l = Low /\ t = Top /\ m <= t
      BY <1>2
    <3>2. x \in Int /\ ~ m < x /\ l <= x
      BY <2>1, <3>1
    <3>3. x \in l..t
      BY <3>1, <3>2
    <3> QED BY <3>1, <3>3
  <2>3. S[x] = R[x] /\ R[x] \in 1..Len(blocks)
    BY <2>2, <1>3, <1>6
  <2>4. blocks[R[x]].cells[o] = First(x) + o + 1
    BY <2>2, <1>1 DEF Cells
  <2> QED BY <2>3, <2>4 DEF SameBlocks
<1>10. Floor(Low)'
  <2>1. Floor(Low + 1)
    BY <1>1, AheadFree
  <2>2. PICK l : l = Low + 1
    OBVIOUS
  <2>3. Floor(l) /\ Low' = l
    BY <2>1, <2>2, <1>5
  <2>4. \A i \in Nat : i < First(l) => Free(i)
    BY <2>3 DEF Floor
  <2>5. \A i \in Nat : i < First(Low') => Free(i)'
    BY <2>3, <2>4, AloneIs
  <2> QED BY <2>5 DEF Floor
<1>11. Low <= Top /\ Ahead = R[Low] /\ R[Low] \in 1..Len(blocks)
  <2>1. Low \in Low..Top
    BY <1>2, <1>3
  <2> QED BY <2>1, <1>3
<1> QED BY <1>5, <1>6, <1>7, <1>8, <1>9, <1>10, <1>11

LEMMA AppendIs ==
    ASSUME NEW T, NEW s \in Seq(T), NEW e \in T
    PROVE  /\ Append(s, e) \in Seq(T) /\ Len(Append(s, e)) = Len(s) + 1 /\ Len(s) \in Nat
           /\ Append(s, e)[Len(s) + 1] = e /\ \A i \in 1..Len(s) : Append(s, e)[i] = s[i]
BY AppendProperties, LenProperties

LEMMA BlockNext ==
    ASSUME NEW b \in BlockRecords, NEW x \in Int
    PROVE  /\ [b EXCEPT !.next = x] \in BlockRecords /\ [b EXCEPT !.next = x].next = x
           /\ [b EXCEPT !.next = x].empty = b.empty /\ [b EXCEPT !.next = x].cells = b.cells
BY DEF BlockRecords

LEMMA NewBlockIs ==
    ASSUME NEW x \in Int, NEW flags \in SUBSET Offsets
    PROVE  [next |-> x, empty |-> flags, cells |-> [o \in Offsets |-> 0]] \in BlockRecords
BY DEF BlockRecords

\* The list with a new block: [Len(blocks) + 1] is new, and the newest's next.
LEMMA InsertedIs ==
    ASSUME Shapes, NEW flags \in SUBSET Offsets,
           IF tailBlock = 0 THEN Len(blocks) = 0 ELSE tailBlock \in 1..Len(blocks)
    PROVE  \E new \in Seq(BlockRecords) :
             /\ new = Inserted(flags) /\ Len(new) = Len(blocks) + 1 /\ Len(blocks) \in Nat
             /\ new[Len(blocks) + 1].empty = flags
             /\ new[Len(blocks) + 1].next = IF tailBlock = 0 THEN Len(blocks) + 1 ELSE Ahead
             /\ \A i \in 1..Len(blocks) :
                  /\ new[i].empty = blocks[i].empty /\ new[i].cells = blocks[i].cells
                  /\ new[i].next = IF i = tailBlock THEN Len(blocks) + 1 ELSE blocks[i].next
<1>1. PICK n \in Nat : n = Len(blocks)
  BY LenProperties DEF Shapes
<1>2. CASE tailBlock = 0
  <2>1. PICK e \in BlockRecords : e = [next |-> n + 1, empty |-> flags, cells |-> [o \in Offsets |-> 0]]
    <3>1. n + 1 \in Int
      OBVIOUS
    <3> QED BY <3>1, NewBlockIs
  <2>2. Inserted(flags) = <<e>>
    BY <1>1, <1>2, <2>1 DEF Inserted
  <2>3. <<e>> \in Seq(BlockRecords) /\ Len(<<e>>) = 1 /\ <<e>>[1] = e
    OBVIOUS
  <2>4. n = 0 /\ e.empty = flags /\ e.next = n + 1
    BY <1>1, <1>2, <2>1
  <2>5. ~ \E i : i \in 1..Len(blocks)
    BY <2>4, <1>1
  <2>6. Len(blocks) + 1 = 1 /\ Len(blocks) \in Nat
    BY <2>4, <1>1
  <2>7. PICK new \in Seq(BlockRecords) : new = <<e>>
    BY <2>3
  <2>8. new = Inserted(flags) /\ Len(new) = 1 /\ new[1] = e
    BY <2>7, <2>2, <2>3
  <2> QED BY <1>1, <1>2, <2>4, <2>5, <2>6, <2>8
<1>3. CASE tailBlock # 0
  <2>1. tailBlock \in 1..n /\ blocks \in [1..n -> BlockRecords] /\ blocks \in Seq(BlockRecords)
    BY <1>1, <1>3, LenProperties DEF Shapes
  <2>2. blocks[tailBlock] \in BlockRecords
    BY <2>1
  <2>3. Ahead \in Int
    BY <2>2 DEF Ahead, BlockRecords
  <2>4. PICK e \in BlockRecords : e = [next |-> Ahead, empty |-> flags, cells |-> [o \in Offsets |-> 0]]
    BY <2>3, NewBlockIs
  <2>5. PICK t \in BlockRecords : /\ t = [blocks[tailBlock] EXCEPT !.next = n + 1]
                                  /\ t.next = n + 1 /\ t.empty = blocks[tailBlock].empty
                                  /\ t.cells = blocks[tailBlock].cells
    <3>1. n + 1 \in Int
      OBVIOUS
    <3> QED BY <2>2, <3>1, BlockNext
  <2>6. PICK s : s = [blocks EXCEPT ![tailBlock].next = n + 1]
    OBVIOUS
  <2>7. s = [blocks EXCEPT ![tailBlock] = t]
    BY <2>1, <2>5, <2>6
  <2>8. s \in [1..n -> BlockRecords] /\ s[tailBlock] = t /\ \A i \in 1..n : i # tailBlock => s[i] = blocks[i]
    BY <2>1, <2>7
  <2>9. s \in Seq(BlockRecords) /\ Len(s) = n
    BY <2>1, <2>7, <1>1, ExceptSeq
  <2>10. Inserted(flags) = Append(s, e)
    BY <1>1, <1>3, <2>4, <2>6 DEF Inserted
  <2>11. /\ Append(s, e) \in Seq(BlockRecords) /\ Len(Append(s, e)) = n + 1
         /\ Append(s, e)[n + 1] = e /\ \A i \in 1..n : Append(s, e)[i] = s[i]
    BY <2>9, AppendIs
  <2>12. e.empty = flags /\ e.next = Ahead
    BY <2>4
  <2>13. ASSUME NEW i \in 1..n
         PROVE  /\ s[i].empty = blocks[i].empty /\ s[i].cells = blocks[i].cells
                /\ s[i].next = IF i = tailBlock THEN n + 1 ELSE blocks[i].next
    <3>1. CASE i = tailBlock
      <4>1. s[i] = t
        BY <3>1, <2>8
      <4> QED BY <4>1, <3>1, <2>5
    <3>2. CASE i # tailBlock
      <4>1. s[i] = blocks[i]
        BY <3>2, <2>8
      <4> QED BY <4>1, <3>2
    <3> QED BY <3>1, <3>2
  <2>14. PICK new : new = Inserted(flags)
    OBVIOUS
  <2>15. new \in Seq(BlockRecords) /\ Len(new) = n + 1 /\ new[n + 1] = e /\ \A i \in 1..n : new[i] = s[i]
    BY <2>10, <2>11, <2>14
  <2>16. new[n + 1].empty = flags /\ new[n + 1].next = Ahead
    BY <2>12, <2>15
  <2>17. \A i \in 1..n : /\ new[i].empty = blocks[i].empty /\ new[i].cells = blocks[i].cells
                         /\ new[i].next = IF i = tailBlock THEN n + 1 ELSE blocks[i].next
    BY <2>13, <2>15
  <2> QED BY <1>1, <1>3, <2>14, <2>15, <2>16, <2>17
<1> QED BY <1>2, <1>3

\* A new block goes into the ring.
Inserting(flags) ==
    /\ Alone /\ flags \in SUBSET Offsets /\ blocks' = Inserted(flags) /\ Top' = Top + 1
    /\ Size' = Size /\ slotsUsed < Size /\ slotsUsed' = slotsUsed + 1
    /\ tailBlock' = Len(blocks) + 1 /\ (producer' = "new" => op'.kind # "one")

\* What that leaves to show is the index.
RingWith(R, S, flags) ==
    /\ S \in [Int -> Int] /\ Low' = Low /\ Sized(S)' /\ Links(S, blocks, Low, Top)'
    /\ Cells(S, blocks, Low, Top, tail)' /\ Floor(Low)' /\ blocks' \in Seq(BlockRecords)
    /\ Low <= Top + 1 /\ \A x \in Low..Top : R[x] \in 1..Len(blocks)
    /\ S[Top + 1] = Len(blocks) + 1 /\ \A x \in Int : x <= Top => S[x] = R[x]
    /\ blocks'[Len(blocks) + 1].empty = flags
    /\ \A i \in 1..Len(blocks) : blocks'[i].empty = blocks[i].empty

\* The ring with it.
LEMMA RingInserted ==
    ASSUME CountInv, Control, Shapes, NEW R \in [Int -> Int], NEW q \in Int, Ring(R, q),
           NEW flags, Inserting(flags)
    PROVE  \E S : RingWith(R, S, flags)
<1> PICK S : S = [R EXCEPT ![Top + 1] = Len(blocks) + 1]
  OBVIOUS
<1> USE DEF Inserting
<1>1. /\ Sized(R) /\ Links(R, blocks, Low, Top) /\ Cells(R, blocks, Low, Top, tail) /\ Floor(Low)
  BY DEF Ring
<1>2. /\ Top \in Int /\ Low \in Int /\ Len(blocks) \in Nat /\ Low = Top + 1 - Len(blocks)
      /\ Ord(tail - 1) \in Int /\ Ord(tail - 1) <= Top
  BY NumbersIs DEF CountInv
<1>0. Low <= Top + 1
  BY <1>2
<1>3. /\ slotsUsed = Len(blocks) /\ Low >= 0
      /\ IF slotsUsed = 0 THEN tailBlock = 0 ELSE tailBlock = R[Top]
  BY <1>1 DEF Sized
<1>4. \A x \in Low..Top : R[x] \in 1..Len(blocks)
  BY <1>1 DEF Links, Linked
<1>5. IF tailBlock = 0 THEN Len(blocks) = 0 ELSE tailBlock \in 1..Len(blocks)
  <2>1. CASE slotsUsed = 0
    BY <2>1, <1>3
  <2>2. CASE slotsUsed # 0
    <3>1. Low <= Top /\ tailBlock = R[Top]
      BY <2>2, <1>2, <1>3
    <3>2. Top \in Low..Top
      BY <3>1, <1>2
    <3>3. tailBlock \in 1..Len(blocks)
      BY <3>1, <3>2, <1>4
    <3> QED BY <3>3, <1>2
  <2> QED BY <2>1, <2>2
<1>6. PICK new \in Seq(BlockRecords) :
             /\ new = Inserted(flags) /\ Len(new) = Len(blocks) + 1 /\ Len(blocks) \in Nat
             /\ new[Len(blocks) + 1].empty = flags
             /\ new[Len(blocks) + 1].next = IF tailBlock = 0 THEN Len(blocks) + 1 ELSE Ahead
             /\ \A i \in 1..Len(blocks) :
                  /\ new[i].empty = blocks[i].empty /\ new[i].cells = blocks[i].cells
                  /\ new[i].next = IF i = tailBlock THEN Len(blocks) + 1 ELSE blocks[i].next
  BY <1>5, InsertedIs
<1>7. Low' = Low /\ blocks' = new
  <2>1. Len(blocks') = Len(blocks) + 1
    BY <1>6
  <2> QED BY <2>1, <1>2, <1>6 DEF Low
<1>8. S \in [Int -> Int] /\ S[Top + 1] = Len(blocks) + 1 /\ \A x \in Int : x <= Top => S[x] = R[x]
  BY <1>2
<1>9. Spliced(R, blocks, new, Low, Top)
  <2>1. CASE tailBlock = 0
    <3>1. Len(blocks) = 0 /\ Low = Top + 1
      BY <2>1, <1>2, <1>5
    <3> QED BY <2>1, <3>1, <1>6 DEF Spliced
  <2>2. CASE tailBlock # 0
    <3>1. Ahead = R[Low] /\ tailBlock = R[Top] /\ Low <= Top
      BY <2>2, <1>1, AheadIs
    <3>2. Low # Top + 1
      BY <3>1, <1>2
    <3> QED BY <2>2, <3>1, <3>2, <1>6 DEF Spliced
  <2> QED BY <2>1, <2>2
<1>10. Links(S, blocks, Low, Top)'
  <2>1. PICK b \in Nat : b = Len(blocks) + 1
    <3>1. Len(blocks) + 1 \in Nat
      BY <1>2
    <3> QED BY <3>1
  <2>2. Links(S, new, Low, Top + 1)
    <3>1. S = [R EXCEPT ![Top + 1] = b]
      BY <2>1
    <3> QED BY <1>1, <1>2, <1>0, <1>9, <2>1, <3>1, LinksInsert
  <2> QED BY <2>2, <1>7
<1>11. Sized(S)'
  <2>1. Low' >= 0 /\ slotsUsed' = Len(blocks') /\ slotsUsed' <= Size'
    <3>1. slotsUsed' = slotsUsed + 1 /\ slotsUsed < Size /\ Size' = Size
      OBVIOUS
    <3>2. Size \in Int
      <4>1. Len(indexes) \in Nat /\ Len(indexes) >= 1
        BY LenProperties, EmptySeq DEF Shapes
      <4>2. Current \in Headers
        <5>1. indexes \in Seq(Headers) /\ Len(indexes) \in 1..Len(indexes)
          BY <4>1 DEF Shapes
        <5> QED BY <5>1, ElementOfSeq DEF Current
      <4>3. Current.size \in Int
        BY <4>2, HeaderIs
      <4> QED BY <4>3 DEF Size, Current
    <3>3. slotsUsed' <= Size'
      BY <3>1, <3>2, <1>2, <1>3
    <3> QED BY <3>1, <3>3, <1>2, <1>3, <1>6, <1>7
  <2>2. slotsUsed' # 0 /\ tailBlock' = S[Top']
    BY <1>2, <1>3, <1>8
  <2> QED BY <2>1, <2>2 DEF Sized
<1>12. Cells(S, blocks, Low, Top, tail)'
  <2> SUFFICES ASSUME NEW x \in Low..(Top + 1), NEW o \in Offsets, First(x) + o < tail
               PROVE  new[S[x]].cells[o] = First(x) + o + 1
    BY <1>7, AloneIs DEF Cells
  <2>1. ~ Ord(tail - 1) < x
    BY Beyond
  <2>2. x \in Low..Top
    <3>1. PICK m \in Int, l \in Int, t \in Int : m = Ord(tail - 1) /\ l = Low /\ t = Top /\ m <= t
      BY <1>2
    <3>2. x \in Int /\ ~ m < x /\ l <= x
      BY <2>1, <3>1
    <3>3. x \in l..t
      BY <3>1, <3>2
    <3> QED BY <3>1, <3>3
  <2>3. S[x] = R[x] /\ R[x] \in 1..Len(blocks)
    BY <2>2, <1>2, <1>4, <1>8
  <2>4. blocks[R[x]].cells[o] = First(x) + o + 1
    BY <2>2, <1>1 DEF Cells
  <2> QED BY <2>3, <2>4, <1>6
<1>13. Floor(Low)'
  BY <1>1, <1>7, AloneIs DEF Floor
<1> HIDE DEF Inserting
<1>14. RingWith(R, S, flags)
  BY <1>0, <1>2, <1>4, <1>6, <1>7, <1>8, <1>10, <1>11, <1>12, <1>13 DEF RingWith
<1> QED BY <1>14

-----------------------------------------------------------------------------
\* The index in use is one.
LEMMA CurrentIs ==
    ASSUME Shapes
    PROVE  /\ Current \in Headers /\ Size = Current.size /\ Size \in Nat /\ Size >= 1
           /\ Len(indexes) \in Nat /\ Len(indexes) >= 1 /\ Current = indexes[Len(indexes)]
           /\ indexes \in Seq(Headers) /\ Current.front \in Int
<1>1. Len(indexes) \in Nat /\ Len(indexes) >= 1 /\ indexes \in Seq(Headers)
  BY LenProperties, EmptySeq DEF Shapes
<1>2. Current \in Headers
  <2>1. Len(indexes) \in 1..Len(indexes)
    BY <1>1
  <2> QED BY <1>1, <2>1, ElementOfSeq DEF Current
<1> QED BY <1>1, <1>2, HeaderIs DEF Size, Current

\* The index stays, while the oldest block leaves the ring or a newest one comes.
LEMMA IndexKept ==
    ASSUME CountInv, RangesApart, Control, Shapes, NEW R \in [Int -> Int], NEW q \in Int, Ring(R, q),
           Alone, UNCHANGED <<indexes, front>>, Last' = Last, producer' # "publish",
           Low' \in Int, Low <= Low', NEW S, \A x \in Int : x <= Top => S[x] = R[x]
    PROVE  Shown(S, q, Current, Low, Last)' /\ Fronts(q)' /\ Reads(S, q)' /\ Size' = Size
<1>1. /\ Shown(R, q, Current, Low, Last) /\ Fronts(q) /\ Reads(R, q) /\ Floor(Low)
  BY DEF Ring
<1>2. /\ Low \in Int /\ Last \in Int /\ Top \in Int /\ Last <= Top /\ Ord(tail - 1) \in Int
      /\ Ord(tail - 1) <= Top
  BY NumbersIs DEF CountInv
<1>3. Size' = Size /\ Current' = Current /\ tail' = tail /\ front' = front /\ indexes' = indexes
  BY AloneIs DEF Size, Current
<1>4. Shown(S, q, Current, Low, Last)'
  <2> SUFFICES ASSUME NEW x \in Low'..Last
               PROVE  Current.entries[(x + q) % Current.size] = [base |-> First(x), block |-> S[x]]
    BY <1>3 DEF Shown
  <2>1. x \in Low..Last /\ S[x] = R[x]
    BY <1>2
  <2> QED BY <2>1, <1>1 DEF Shown
<1>5. Fronts(q)'
  BY <1>1, <1>3 DEF Fronts
<1>6. Reads(S, q)'
  <2>1. \A x \in Int : x <= Ord(tail - 1) => S[x] = R[x]
    BY <1>2
  <2>2. Last <= Last' /\ Last' \in Int
    BY <1>2
  <2> QED BY <2>1, <2>2, <1>1, <1>2, <1>3, ReadsKept DEF Alone
<1> QED BY <1>3, <1>4, <1>5, <1>6

\* The last index is changed.
LastTo(g) == [indexes EXCEPT ![Len(indexes)] = g]

LEMMA LastSet ==
    ASSUME Shapes, NEW g \in Headers
    PROVE  /\ LastTo(g) \in Seq(Headers) /\ Len(LastTo(g)) = Len(indexes)
           /\ LastTo(g)[Len(indexes)] = g /\ LastTo(g) # <<>>
           /\ \A k \in 1..(Len(indexes) - 1) : LastTo(g)[k] = indexes[k]
<1>1. PICK s \in Seq(Headers), n \in Nat : s = indexes /\ n = Len(s) /\ n >= 1
  BY CurrentIs
<1>2. n \in 1..Len(s)
  BY <1>1
<1>3. PICK t : t = [s EXCEPT ![n] = g]
  OBVIOUS
<1>4. LastTo(g) = t
  BY <1>1, <1>3 DEF LastTo
<1>5. t \in Seq(Headers) /\ Len(t) = Len(s)
  <2>1. s \in Seq(Headers)
    BY <1>1
  <2> QED BY <2>1, <1>2, <1>3, ExceptSeq
<1>6. s \in [1..n -> Headers]
  BY <1>1, LenProperties
<1>7. t[n] = g /\ \A k \in 1..(n - 1) : t[k] = s[k]
  BY <1>1, <1>3, <1>6
<1>8. t # <<>>
  BY <1>1, <1>5, EmptySeq
<1> QED BY <1>1, <1>4, <1>5, <1>7, <1>8

\* One entry of the index is written, at the front.
Entering(S, g) ==
    /\ Alone /\ g \in Headers /\ indexes' = LastTo(g) /\ g.size = Size
    /\ g.entries = [Current.entries EXCEPT ![front] = [base |-> First(Last + 1), block |-> S[Last + 1]]]
    /\ (g.front = front \/ (producer' # "publish" /\ g.front = Current.front))
    /\ front' = (front + 1) % Size /\ Last' = Last + 1 /\ Low' \in Int /\ Low <= Low'
    /\ Last + 1 - Low' < Size /\ S \in [Int -> Int]

\* The index is right for the ring.
IndexRight(S, q) ==
    /\ Shown(S, q, Current, Low, Last)' /\ Fronts(q)' /\ Reads(S, q)' /\ Size' = Size
    /\ indexes' \in Seq(Headers) /\ indexes' # <<>> /\ front' \in Int

\* An entry at the front keeps it so, before and after the front is published.
LEMMA IndexEntered ==
    ASSUME CountInv, RangesApart, Control, Shapes, NEW R \in [Int -> Int], NEW q \in Int, Ring(R, q),
           NEW S, NEW g, Entering(S, g), \A x \in Int : x <= Last => S[x] = R[x]
    PROVE  IndexRight(S, q)
<1> USE DEF Entering
<1>1. /\ Shown(R, q, Current, Low, Last) /\ Fronts(q) /\ Reads(R, q) /\ Floor(Low)
  BY DEF Ring
<1>2. /\ Low \in Int /\ Last \in Int /\ Ord(tail - 1) \in Int
      /\ Ord(tail - 1) <= Last
  BY NumbersIs DEF CountInv
<1>3. PICK n \in Nat, m \in Nat : n = Len(indexes) /\ m = Size /\ n >= 1 /\ m >= 1
  BY CurrentIs
<1>4. /\ indexes' \in Seq(Headers) /\ Len(indexes') = n /\ indexes'[n] = g /\ indexes' # <<>>
      /\ \A k \in 1..(n - 1) : indexes'[k] = indexes[k]
  BY <1>3, LastSet
<1>5. Current' = g /\ Size' = m /\ tail' = tail
  BY <1>3, <1>4, AloneIs DEF Current, Size
<1>6. PICK h \in Headers : h = Current /\ h.size = m
  BY <1>3, CurrentIs
<1>7. PICK l \in Int, k \in Int, f \in Int : l = Low' /\ k = Last /\ f = front /\ f = (k + 1 + q) % m /\ k + 1 - l < m
  <2>1. Last \in Int /\ Low' \in Int /\ front = (Last + 1 + q) % Size
    BY <1>1, <1>2 DEF Fronts
  <2>2. PICK k \in Int, l \in Int : k = Last /\ l = Low'
    BY <2>1
  <2>3. PICK u \in Int : u = k + 1 + q
    OBVIOUS
  <2>4. PICK z \in Int : z = u % m
    <3>1. m \in Nat \ {0}
      BY <1>3
    <3>2. u % m \in Int
      BY <3>1
    <3> QED BY <3>2
  <2>5. front = z /\ z = (k + 1 + q) % m
    BY <2>1, <2>2, <2>3, <2>4, <1>3
  <2>6. k + 1 - l < m
    BY <2>2, <1>3
  <2> QED BY <2>2, <2>5, <2>6
<1>8. Shown(S, q, h, l, k)
  <2> SUFFICES ASSUME NEW x \in l..k PROVE h.entries[(x + q) % h.size] = [base |-> First(x), block |-> S[x]]
    BY DEF Shown
  <2>1. PICK a \in Int : a = Low /\ a <= l
    BY <1>2, <1>7
  <2>2. x \in a..k
    BY <2>1
  <2>3. x \in Low..Last
    BY <2>1, <2>2, <1>7
  <2>4. S[x] = R[x]
    BY <1>7
  <2> QED BY <2>3, <2>4, <1>1, <1>6 DEF Shown
<1>9. Shown(S, q, g, l, k + 1)
  <2>1. g.entries = [h.entries EXCEPT ![f] = [base |-> First(k + 1), block |-> S[k + 1]]]
    BY <1>6, <1>7
  <2>2. g.size = h.size /\ f = (k + 1 + q) % h.size /\ k + 1 - l < h.size
    BY <1>3, <1>6, <1>7
  <2> QED BY <1>8, <2>1, <2>2, ShownEnter
<1>10. Shown(S, q, Current, Low, Last)'
  BY <1>5, <1>7, <1>9
<1>11. Fronts(q)'
  <2>1. front' = (Last' + 1 + q) % Size'
    <3>1. PICK a \in Int, d \in Int : a = k + 1 + q /\ d = 1
      OBVIOUS
    <3>2. ((a % m) + d) % m = (a + d) % m
      BY <1>3, SlotAdd
    <3>3. front' = (f + d) % m
      BY <3>1, <1>3, <1>7
    <3>4. f = a % m
      BY <3>1, <1>7
    <3>5. a + d = (k + 1) + 1 + q
      BY <3>1
    <3> QED BY <3>2, <3>3, <3>4, <3>5, <1>5, <1>7
  <2>2. g.front = front => Current'.front = (Last' + q) % Size'
    BY <1>5, <1>7
  <2>3. tail' > 0 => \E y \in Ord(tail' - 1)..Last' : Current'.front = (y + q) % Size'
    <3>1. CASE g.front = front
      <4>1. Last' \in Ord(tail' - 1)..Last'
        BY <1>2, <1>5
      <4> QED BY <4>1, <2>2, <3>1
    <3>2. CASE g.front = Current.front
      <4> SUFFICES ASSUME tail > 0 PROVE \E y \in Ord(tail' - 1)..Last' : Current'.front = (y + q) % Size'
        BY <1>5
      <4>1. PICK y \in Ord(tail - 1)..Last : Current.front = (y + q) % Size
        BY <1>1 DEF Fronts
      <4>2. y \in Ord(tail - 1)..(Last + 1)
        BY <1>2
      <4> QED BY <4>1, <4>2, <3>2, <1>3, <1>5
    <3> QED BY <3>1, <3>2
  <2>4. producer' = "publish" => Current'.front = (Last' + q) % Size'
    BY <2>2
  <2> QED BY <2>1, <2>3, <2>4 DEF Fronts
<1>12. Reads(S, q)'
  <2>1. \A x \in Int : x <= Ord(tail - 1) => S[x] = R[x]
    BY <1>2
  <2>2. Last <= Last' /\ Last' \in Int
    BY <1>2
  <2>3. Len(indexes') = Len(indexes) /\ Size' = Size /\ \A j \in 1..(Len(indexes) - 1) : indexes'[j] = indexes[j]
    BY <1>3, <1>4, <1>5
  <2>4. Reads(R, q) /\ Floor(Low) /\ Last \in Int
    BY <1>1, <1>2
  <2> QED BY <2>1, <2>2, <2>3, <2>4, ReadsKept DEF Alone
<1>13. front' \in Int
  <2>1. PICK u \in Int : u = f + 1
    OBVIOUS
  <2>2. u % m \in Int
    BY <1>3
  <2> QED BY <2>1, <2>2, <1>3, <1>7
<1> QED BY <1>3, <1>4, <1>5, <1>10, <1>11, <1>12, <1>13 DEF IndexRight

LEMMA EntriesIs ==
    ASSUME NEW h \in Headers, NEW f \in 0..(h.size - 1), NEW e \in EntryRecords
    PROVE  \E g \in Headers : /\ g = [h EXCEPT !.entries[f] = e]
                              /\ g.size = h.size /\ g.front = h.front
                              /\ g.entries = [h.entries EXCEPT ![f] = e]
<1>1. /\ h.size \in Nat \ {0} /\ h.front \in Int /\ h.entries \in [0..(h.size - 1) -> EntryRecords]
      /\ h = [size |-> h.size, front |-> h.front, entries |-> h.entries]
  BY HeaderIs
<1>2. PICK s \in [0..(h.size - 1) -> EntryRecords] : s = [h.entries EXCEPT ![f] = e]
  BY <1>1
<1>3. PICK g : g = [size |-> h.size, front |-> h.front, entries |-> s]
  OBVIOUS
<1>4. g = [h EXCEPT !.entries[f] = e]
  <2>1. PICK n, r, t : h = [size |-> n, front |-> r, entries |-> t] /\ t = h.entries /\ n = h.size /\ r = h.front
    BY <1>1
  <2>2. [h EXCEPT !.entries[f] = e] = [h EXCEPT !.entries = s]
    BY <1>2
  <2>3. [h EXCEPT !.entries = s] = [size |-> n, front |-> r, entries |-> s]
    BY <2>1
  <2> QED BY <2>1, <2>2, <2>3, <1>3
<1>5. g.size = h.size /\ g.front = h.front /\ g.entries = s
  BY <1>3
<1>6. g \in Headers
  <2>1. s \in UNION { [0..(n - 1) -> EntryRecords] : n \in Nat }
    BY <1>1
  <2>2. DOMAIN s = 0..(h.size - 1)
    BY <1>2
  <2> QED BY <2>1, <2>2, <1>1, <1>3 DEF Headers
<1> QED BY <1>2, <1>4, <1>5, <1>6

LEMMA FrontSet ==
    ASSUME NEW h \in Headers, NEW f \in Int
    PROVE  \E g \in Headers : /\ g = [h EXCEPT !.front = f] /\ g.size = h.size /\ g.front = f
                              /\ g.entries = h.entries
<1>1. /\ h.size \in Nat \ {0} /\ h = [size |-> h.size, front |-> h.front, entries |-> h.entries]
      /\ h.entries \in UNION { [0..(n - 1) -> EntryRecords] : n \in Nat }
      /\ DOMAIN h.entries = 0..(h.size - 1)
  BY HeaderIs DEF Headers
<1>2. PICK g : g = [size |-> h.size, front |-> f, entries |-> h.entries]
  OBVIOUS
<1>3. g = [h EXCEPT !.front = f]
  BY <1>1, <1>2
<1>4. g \in Headers
  BY <1>1, <1>2 DEF Headers
<1> QED BY <1>2, <1>3, <1>4

\* What Entered makes of the index.
LEMMA EnteredIs ==
    ASSUME Shapes, NEW base \in Int, NEW b \in Int, front \in 0..(Size - 1)
    PROVE  \E g \in Headers :
             /\ Entered(base, b) = LastTo(g)
             /\ g.size = Size /\ g.front = Current.front
             /\ g.entries = [Current.entries EXCEPT ![front] = [base |-> base, block |-> b]]
<1>1. PICK e \in EntryRecords : e = [base |-> base, block |-> b]
  BY DEF EntryRecords
<1>2. PICK h \in Headers, n \in Nat : h = Current /\ h.size = Size /\ n = Len(indexes) /\ n >= 1
                                      /\ indexes[n] = h /\ n \in DOMAIN indexes
  <2>1. Len(indexes) \in DOMAIN indexes
    BY CurrentIs, LenProperties
  <2> QED BY <2>1, CurrentIs
<1>3. PICK g \in Headers : /\ g = [h EXCEPT !.entries[front] = e]
                           /\ g.size = h.size /\ g.front = h.front
                           /\ g.entries = [h.entries EXCEPT ![front] = e]
  BY <1>2, EntriesIs
<1>4. Entered(base, b) = [indexes EXCEPT ![n] = g]
  BY <1>1, <1>2, <1>3 DEF Entered
<1>5. LastTo(g) = [indexes EXCEPT ![n] = g]
  BY <1>2 DEF LastTo
<1> QED BY <1>1, <1>2, <1>3, <1>4, <1>5

-----------------------------------------------------------------------------
\* What each step of the producer that publishes nothing has to leave.
Kept == Control' /\ Shapes' /\ \E S, p : Ring(S, p)'

\* Where the ring ends, by where the producer is.
LEMMA TopIs ==
    ASSUME CountInv, Control, Shapes
    PROVE  /\ tail \in Nat /\ Ord(tail - 1) \in Int
           /\ producer = "idle" => op = NoOp /\ Top = Ord(tail - 1) /\ Last = Top /\ Marked = Top
           /\ producer = "new" /\ op.kind = "one" => /\ op = One /\ Top = Ord(tail - 1) /\ Last = Top
                                                      /\ Marked = Top /\ tail % BlockSize = 0
           /\ producer = "entry" => /\ op = One /\ op.kind = "one" /\ Top = Ord(tail) /\ Last = Top - 1
                                    /\ Marked = Top /\ tail % BlockSize = 0
           /\ op.kind = "bulk" => /\ Bulk /\ Top = Ord(tail - 1) + Len(op.chain) /\ Last = Top
                                  /\ Len(op.chain) \in Nat
                                  /\ producer # "publish" => Marked = Ord(tail - 1)
                                  /\ producer = "publish" => Marked = Top
           /\ producer = "publish" /\ op.kind # "bulk" => op = One /\ Top = Ord(tail) /\ Last = Top /\ Marked = Top
           /\ producer \in {"idle", "entry"} => op.kind # "bulk"
           /\ producer \in {"reuse", "front"} => op.kind = "bulk"
<1>1. tail \in Nat /\ Ord(tail - 1) \in Int
  BY NumbersIs DEF CountInv, CountTypes
<1>2. /\ \/ op = NoOp /\ op.kind = "none" /\ producer = "idle"
         \/ op = One /\ op.kind = "one" /\ op.n = 1 /\ producer \in {"new", "entry", "publish"}
         \/ op.kind = "bulk" /\ Bulk /\ producer \in {"reuse", "new", "front", "publish"}
      /\ producer = "entry" => tail % BlockSize = 0 /\ op.kind = "one"
      /\ producer = "new" /\ op.kind = "one" => tail % BlockSize = 0
  BY OpIs DEF CountInv
<1>3. op.kind = "bulk" => Len(op.chain) \in Nat
  <2>1. op.kind = "bulk" => op.chain \in Seq(Int)
    BY <1>2 DEF Bulk, Bulks
  <2> QED BY <2>1, LenProperties
<1> QED BY <1>1, <1>2, <1>3 DEF Top, Last, Marked

LEMMA OpKinds == NoOp.kind = "none" /\ One.kind = "one" /\ One.n = 1
BY DEF NoOp, One

\* The next block begins where the tail is, or it is the one of the item before.
LEMMA NextOrd ==
    ASSUME CountInv
    PROVE  /\ Ord(tail - 1) = IF tail % BlockSize = 0 THEN Ord(tail) - 1 ELSE Ord(tail)
           /\ Ord(tail) \in Int /\ Ord(tail - 1) \in Int
           /\ tail % BlockSize = 0 => tail = First(Ord(tail))
           /\ tail % BlockSize # 0 => tail > 0
           /\ tail > 0 => Ord(tail - 1) >= 0
           /\ tail = 0 => Ord(tail - 1) = -1
<1>1. tail \in Nat
  BY DEF CountInv, CountTypes
<1>2. \E x \in Int, o \in Offsets :
             /\ x = Ord(tail) /\ o = tail % BlockSize
             /\ tail = First(x) + o /\ Base(tail) = First(x)
  BY <1>1, OrdIs
<1>3. Ord(tail - 1) = IF tail % BlockSize = 0 THEN Ord(tail) - 1 ELSE Ord(tail)
  BY <1>1, OrdStep
<1>4. Ord(tail - 1) \in Int
  BY <1>1, OrdAt
<1>5. First(0) = 0
  BY FirstIs
<1>6. tail > 0 => Ord(tail - 1) >= 0
  <2>1. First(0) <= tail - 1 <=> 0 <= Ord(tail - 1)
    BY <1>1, OrdAt
  <2> QED BY <2>1, <1>1, <1>5
<1>7. tail % BlockSize # 0 => tail > 0
  <2>1. 0 \in Offsets
    BY SizeIs
  <2>2. (First(0) + 0) % BlockSize = 0 /\ Ord(First(0) + 0) = 0
    BY <2>1, OrdOf
  <2> QED BY <2>2, <1>1, <1>5
<1>8. tail = 0 => Ord(tail - 1) = -1
  <2>1. 0 \in Offsets
    BY SizeIs
  <2>2. (First(0) + 0) % BlockSize = 0 /\ Ord(First(0) + 0) = 0
    BY <2>1, OrdOf
  <2>3. tail = 0 => Ord(tail) = 0 /\ tail % BlockSize = 0
    BY <2>2, <1>5
  <2> QED BY <2>3, <1>3
<1>9. tail % BlockSize = 0 => tail = First(Ord(tail))
  <2>1. PICK x \in Int, o \in Offsets : x = Ord(tail) /\ o = tail % BlockSize /\ tail = First(x) + o
    BY <1>2
  <2>2. First(x) \in Int
    BY <2>1, FirstIs
  <2> QED BY <2>1, <2>2
<1> QED BY <1>2, <1>3, <1>4, <1>6, <1>7, <1>8, <1>9

LEMMA ShapesKept ==
    ASSUME Shapes, UNCHANGED <<blocks, indexes, private>>
    PROVE  Shapes'
BY DEF Shapes, private

\* enqueue goes on in the tail block.
LEMMA ContinueKept ==
    ASSUME CountInv, RangesApart, Control, Shapes, NEW R, NEW q, Ring(R, q), Continue
    PROVE  Kept
<1>1. /\ producer = "idle" /\ tail % BlockSize # 0 /\ producer' = "publish" /\ op' = One
      /\ UNCHANGED <<blocks, indexes, private>> /\ Alone
  BY DEF Continue, Alone, Still, counters, reading
<1>2. op'.kind = "one" /\ tail' = tail
  BY <1>1, OpKinds, AloneIs
<1>3. /\ tail > 0 /\ Top = Ord(tail - 1) /\ Last = Top /\ Marked = Top /\ Top \in Int
      /\ Ord(tail - 1) = Ord(tail)
  BY <1>1, TopIs, NextOrd
<1>4. Top' = Top /\ Last' = Last /\ Marked' = Marked
  BY <1>1, <1>2, <1>3 DEF Top, Last, Marked
<1>5. Chained(R)'
  BY <1>2 DEF Chained
<1>6. Ring(R, q)'
  BY <1>1, <1>2, <1>3, <1>4, <1>5, RingKept
<1>7. Control' /\ Shapes'
  BY <1>1, <1>2, ShapesKept DEF Control
<1> QED BY <1>6, <1>7 DEF Kept

\* A refused enqueue_bulk, which BulkMayFail = FALSE rules out.
LEMMA FailsKept ==
    ASSUME CountInv, RangesApart, Control, Shapes, NEW R, NEW q, Ring(R, q), AllocationFails,
           BulkMayFail = FALSE
    PROVE  Kept
<1>1. /\ producer = "new" /\ op.kind # "bulk" /\ producer' = "idle" /\ op' = NoOp
      /\ UNCHANGED <<blocks, indexes, private>> /\ Alone
  BY DEF AllocationFails, Alone, Still, counters, reading
<1>2. op'.kind = "none" /\ tail' = tail
  BY <1>1, OpKinds, AloneIs
<1>3. Top = Ord(tail - 1) /\ Last = Top /\ Marked = Top /\ Top \in Int
  <2>1. op.kind = "one"
    BY <1>1, OpIs DEF CountInv
  <2> QED BY <2>1, <1>1, TopIs
<1>4. Top' = Top /\ Last' = Last /\ Marked' = Marked
  BY <1>1, <1>2, <1>3 DEF Top, Last, Marked
<1>5. Chained(R)'
  BY <1>2 DEF Chained
<1>6. Ring(R, q)'
  BY <1>1, <1>2, <1>3, <1>4, <1>5, RingKept
<1>7. Control' /\ Shapes'
  BY <1>1, <1>2, ShapesKept DEF Control
<1> QED BY <1>6, <1>7 DEF Kept

\* The blocks a bulk needs are as many as lie between the two items.
LEMMA NeedIs ==
    ASSUME CountInv, NEW n \in Nat, n >= 1
    PROVE  /\ (Base(tail + n - 1) - Base(tail - 1)) \div BlockSize = Ord(tail + n - 1) - Ord(tail - 1)
           /\ Ord(tail + n - 1) - Ord(tail - 1) \in Nat
           /\ Ord(tail + n - 1) - Ord(tail - 1) = 0 => tail > 0
<1>1. PICK t \in Nat : t = tail
  BY DEF CountInv, CountTypes
<1>2. PICK j \in Int, i \in Int : j = t + n - 1 /\ i = t - 1 /\ i <= j
  OBVIOUS
<1>3. \E x \in Int, o \in Offsets :
             /\ x = Ord(i) /\ o = i % BlockSize
             /\ i = First(x) + o /\ Base(i) = First(x)
  BY OrdIs
<1>4. \E x \in Int, o \in Offsets :
             /\ x = Ord(j) /\ o = j % BlockSize
             /\ j = First(x) + o /\ Base(j) = First(x)
  BY OrdIs
<1>5. PICK x \in Int : x = Ord(i) /\ Base(i) = First(x)
  BY <1>3
<1>6. PICK y \in Int : y = Ord(j) /\ Base(j) = First(y)
  BY <1>4
<1>7. (First(y) - First(x)) \div BlockSize = y - x
  BY OrdHops
<1>8. x <= y
  BY <1>2, <1>5, <1>6, OrdMono
<1>9. t = 0 => x = -1
  BY <1>1, <1>2, <1>5, NextOrd
<1>10. y >= 0
  <2>1. First(0) = 0
    BY FirstIs
  <2>2. First(0) <= j <=> 0 <= Ord(j)
    BY OrdAt
  <2> QED BY <2>1, <2>2, <1>2, <1>6
<1> QED BY <1>1, <1>2, <1>5, <1>6, <1>7, <1>8, <1>9, <1>10

BulkOp(n, need, start, slots0, front0) ==
    [kind |-> "bulk", n |-> n, need |-> need, chain |-> <<>>,
     start |-> start, slots0 |-> slots0, front0 |-> front0]

LEMMA BulkRecord ==
    ASSUME NEW n \in Nat, n >= 1, NEW need \in Nat, NEW start \in Int, NEW slots0 \in Int, NEW front0 \in Int
    PROVE  BulkOp(n, need, start, slots0, front0) \in Bulks
<1>1. <<>> \in Seq(Int)
  OBVIOUS
<1> QED BY <1>1 DEF BulkOp, Bulks

LEMMA BulkFields ==
    ASSUME NEW n, NEW need, NEW start, NEW slots0, NEW front0
    PROVE  /\ BulkOp(n, need, start, slots0, front0).kind = "bulk"
           /\ BulkOp(n, need, start, slots0, front0).n = n
           /\ BulkOp(n, need, start, slots0, front0).need = need
           /\ BulkOp(n, need, start, slots0, front0).chain = <<>>
           /\ BulkOp(n, need, start, slots0, front0).start = start
           /\ BulkOp(n, need, start, slots0, front0).slots0 = slots0
BY DEF BulkOp

\* enqueue_bulk counts the blocks it needs.
LEMMA BeginKept ==
    ASSUME CountInv, RangesApart, Control, Shapes, NEW R, NEW q, Ring(R, q), NEW n \in 1..MaxBulk, BeginBulk(n)
    PROVE  Kept
<1>0. n \in Nat /\ n >= 1 /\ tail \in Nat
  BY TopIs
<1>1. PICK need \in Nat : /\ need = Ord(tail + n - 1) - Ord(tail - 1)
                          /\ need = (Base(tail + n - 1) - Base(tail - 1)) \div BlockSize
                          /\ need = 0 => tail > 0
  BY <1>0, NeedIs
<1>2. /\ producer = "idle" /\ producer' = IF need = 0 THEN "publish" ELSE "reuse"
      /\ UNCHANGED <<blocks, indexes, private>> /\ Alone
      /\ op' = [kind |-> "bulk", n |-> n, need |-> need, chain |-> <<>>,
                     start |-> tailBlock, slots0 |-> slotsUsed, front0 |-> front]
  BY <1>1 DEF BeginBulk, Alone, Still, counters, reading
<1>3. PICK o : /\ o = op' /\ o \in Bulks
               /\ o.kind = "bulk" /\ o.n = n /\ o.need = need /\ o.chain = <<>> /\ o.start = tailBlock
               /\ o.slots0 = slotsUsed /\ Len(o.chain) = 0
  <2>1. PICK t \in Int, s \in Int, f \in Int : t = tailBlock /\ s = slotsUsed /\ f = front
    BY DEF Shapes
  <2>2. PICK m \in Nat : m = n /\ m >= 1
    BY <1>0
  <2>3. PICK o : o = BulkOp(m, need, t, s, f)
    OBVIOUS
  <2>4. /\ o \in Bulks
        /\ o.kind = "bulk" /\ o.n = m /\ o.need = need /\ o.chain = <<>> /\ o.start = t
        /\ o.slots0 = s /\ Len(o.chain) = 0
    <3>1. Len(<<>>) = 0
      OBVIOUS
    <3>2. m >= 1
      BY <2>2
    <3>3. o \in Bulks
      BY <3>2, <2>3, BulkRecord
    <3> QED BY <3>1, <3>3, <2>3, BulkFields
  <2>5. op' = o
    BY <2>1, <2>2, <2>3, <1>2 DEF BulkOp
  <2> QED BY <2>1, <2>2, <2>4, <2>5
<1>4. op' = o /\ tail' = tail
  BY <1>2, <1>3, AloneIs
<1>5. Top = Ord(tail - 1) /\ Last = Top /\ Marked = Top /\ Top \in Int
  BY <1>2, TopIs
<1>6. Top' = Top /\ Last' = Last /\ Marked' = Marked
  <2>1. Top' = Ord(tail - 1) + 0
    BY <1>3, <1>4 DEF Top
  <2>2. Top' = Top
    BY <2>1, <1>5
  <2>3. producer' # "entry"
    BY <1>2
  <2>4. Last' = Top' /\ Marked' = Top
    BY <2>2, <2>3, <1>3, <1>4, <1>5 DEF Last, Marked
  <2> QED BY <2>2, <2>4, <1>5
<1>7. tail > 0 => slotsUsed > 0 /\ tailBlock = R[Top]
  <2>1. Sized(R) /\ Len(blocks) \in Nat
    BY NumbersIs DEF Ring, CountInv
  <2>2. tail > 0 => Top # -1
    BY <1>5, NextOrd
  <2> QED BY <2>1, <2>2 DEF Sized
<1>8. Chained(R)'
  <2>1. tail % BlockSize # 0 => op'.start = R[Ord(tail - 1)]
    BY <1>3, <1>4, <1>5, <1>7, NextOrd
  <2>2. \A k \in 1..Len(op'.chain) : op'.chain[k] = R[Ord(tail - 1) + k]
    BY <1>3, <1>4
  <2> QED BY <2>1, <2>2, <1>4 DEF Chained
<1>9. Ring(R, q)'
  <2>1. producer' # "new" /\ (producer' = "publish" => tail > 0 /\ Last = Ord(tail - 1))
    BY <1>1, <1>2, <1>5
  <2> QED BY <2>1, <1>2, <1>5, <1>6, <1>8, RingKept
<1>10. Bulk'
  <2>1. op' \in Bulks /\ op'.need + Len(op'.chain) = Ord(tail' + op'.n - 1) - Ord(tail' - 1)
    BY <1>1, <1>3, <1>4
  <2>2. producer' # "new" /\ (producer' \in {"front", "publish"} => op'.need = 0)
    BY <1>2, <1>3, <1>4
  <2>3. slotsUsed' = slotsUsed /\ slotsUsed \in Int
    BY <1>2 DEF private, Shapes
  <2>4. 0 <= slotsUsed' - op'.slots0 /\ slotsUsed' - op'.slots0 <= Len(op'.chain)
    BY <2>3, <1>3, <1>4
  <2>5. tail' > 0 => op'.slots0 > 0
    BY <1>3, <1>4, <1>7
  <2> QED BY <2>1, <2>2, <2>4, <2>5 DEF Bulk
<1>11. Control' /\ Shapes'
  BY <1>2, <1>10, ShapesKept DEF Control
<1> QED BY <1>9, <1>11 DEF Kept

\* enqueue_bulk reuses no more blocks.
LEMMA NoReuseKept ==
    ASSUME CountInv, RangesApart, Control, Shapes, NEW R, NEW q, Ring(R, q), BulkNoReuse
    PROVE  Kept
<1>1. /\ producer = "reuse" /\ producer' = IF op.need = 0 THEN "front" ELSE "new"
      /\ UNCHANGED <<blocks, indexes, private, op>> /\ Alone
  BY DEF BulkNoReuse, Alone, Still, counters, reading
<1>2. op' = op /\ tail' = tail /\ slotsUsed' = slotsUsed
  BY <1>1, AloneIs DEF private
<1>3. op.kind = "bulk" /\ Bulk /\ Last = Top /\ Marked = Ord(tail - 1) /\ Marked \in Int
  BY <1>1, TopIs
<1>4. Top' = Top /\ Last' = Last /\ Marked' = Marked
  <2>1. Top' = Top
    BY <1>1, <1>2, <1>3 DEF Top
  <2>2. producer' # "entry" /\ producer' # "publish"
    BY <1>1
  <2> QED BY <2>1, <2>2, <1>2, <1>3 DEF Last, Marked
<1>5. Chained(R)'
  BY <1>2 DEF Ring, Chained
<1>6. Ring(R, q)'
  <2>1. producer' # "publish" /\ op'.kind # "one"
    BY <1>1, <1>2, <1>3
  <2> QED BY <2>1, <1>1, <1>3, <1>4, <1>5, RingKept
<1>7. Bulk'
  <2>1. op.need \in Nat
    BY <1>3 DEF Bulk, Bulks
  <2> QED BY <2>1, <1>1, <1>2, <1>3 DEF Bulk
<1>8. Control' /\ Shapes'
  BY <1>1, <1>7, ShapesKept DEF Control
<1> QED BY <1>6, <1>8 DEF Kept

-----------------------------------------------------------------------------
\* An index of twice the size takes the place of a full one.
LEMMA GrownIs ==
    ASSUME Shapes, slotsUsed = Size, NEW exposed \in Int
    PROVE  \E g \in Headers :
             /\ g = Grown(exposed) /\ g.size = 2 * Current.size /\ g.front = exposed - 1
             /\ \A s \in 0..(Current.size - 1) :
                  g.entries[s] = Current.entries[(front - Current.size + s) % Current.size]
<1>1. PICK h \in Headers, n \in Nat : h = Current /\ n = h.size /\ n >= 1 /\ slotsUsed = n
  BY CurrentIs, HeaderIs
<1>2. PICK f \in Int : f = front
  BY DEF Shapes
<1>3. h.entries \in [0..(n - 1) -> EntryRecords]
  BY <1>1, HeaderIs
<1>4. PICK e : e = [s \in 0..(2 * n - 1) |->
                      IF s < n THEN h.entries[(f - n + s) % n] ELSE [base |-> -1, block |-> 0]]
  OBVIOUS
<1>5. PICK m \in Nat : m = 2 * n /\ n < m /\ m # 0
  BY <1>1
<1>6. e \in [0..(m - 1) -> EntryRecords]
  <2>1. [base |-> -1, block |-> 0] \in EntryRecords
    BY DEF EntryRecords
  <2>2. ASSUME NEW s \in 0..(m - 1) PROVE e[s] \in EntryRecords
    <3>1. CASE s < n
      <4>1. PICK z \in Int : z = f - n + s
        OBVIOUS
      <4>2. z % n \in 0..(n - 1)
        BY <1>1
      <4>3. e[s] = h.entries[z % n]
        BY <3>1, <4>1, <1>4, <1>5
      <4> QED BY <4>2, <4>3, <1>3
    <3>2. CASE ~ s < n
      BY <3>2, <2>1, <1>4, <1>5
    <3> QED BY <3>1, <3>2
  <2>3. e = [s \in 0..(m - 1) |-> e[s]]
    BY <1>4, <1>5
  <2> QED BY <2>2, <2>3
<1>7. PICK g : g = [size |-> m, front |-> exposed - 1, entries |-> e]
  OBVIOUS
<1>8. g = Grown(exposed)
  BY <1>1, <1>2, <1>4, <1>5, <1>7 DEF Grown, Current
<1>9. g \in Headers /\ g.size = m /\ g.front = exposed - 1 /\ g.entries = e
  <2>1. e \in UNION { [0..(k - 1) -> EntryRecords] : k \in Nat } /\ DOMAIN e = 0..(m - 1)
    BY <1>6
  <2> QED BY <2>1, <1>5, <1>7 DEF Headers
<1>10. ASSUME NEW s \in 0..(n - 1) PROVE g.entries[s] = h.entries[(f - n + s) % n]
  <2>1. s \in 0..(2 * n - 1) /\ s < n
    BY <1>1
  <2> QED BY <2>1, <1>4, <1>9
<1> QED BY <1>1, <1>2, <1>5, <1>8, <1>9, <1>10

\* The ring with the new index: its slots start again from the oldest block.
LEMMA RingGrown ==
    ASSUME CountInv, RangesApart, Control, Shapes, NEW R, NEW q, Ring(R, q), Alone,
           UNCHANGED <<blocks, tailBlock, slotsUsed>>, slotsUsed = Size, NEW exposed \in Int,
           GrowIndex(exposed), Top' = Top, Last' = Last, Last = Top, Marked' = Marked, Chained(R)',
           producer' = "new",
           tail > 0 => exposed >= 1 /\ Ord(tail - 1) <= Low + exposed - 1 /\ exposed <= slotsUsed
    PROVE  Ring(R, 0 - Low)' /\ Shapes'
<1>1. /\ R \in [Int -> Int] /\ q \in Int /\ Sized(R) /\ Links(R, blocks, Low, Top)
      /\ Shown(R, q, Current, Low, Last) /\ Fronts(q) /\ Reads(R, q) /\ Floor(Low)
      /\ Cells(R, blocks, Low, Top, tail) /\ Flags(R, blocks, Low, Marked)
  BY DEF Ring
<1>2. /\ Top \in Int /\ Low \in Int /\ Len(blocks) \in Nat /\ Low = Top + 1 - Len(blocks)
      /\ Ord(tail - 1) \in Int
  BY NumbersIs DEF CountInv
<1>3. /\ tail' = tail /\ blocks' = blocks /\ slotsUsed' = slotsUsed /\ tailBlock' = tailBlock
      /\ \A i : Free(i)' <=> Free(i)
  BY AloneIs
<1>4. Low' = Low
  BY <1>3 DEF Low
<1>5. PICK h \in Headers, n \in Nat : h = Current /\ n = h.size /\ n >= 1 /\ slotsUsed = n /\ Size = n /\ n = Len(blocks)
  BY <1>1, CurrentIs, HeaderIs DEF Sized
<1>6. PICK g \in Headers :
             /\ g = Grown(exposed) /\ g.size = 2 * Current.size /\ g.front = exposed - 1
             /\ \A s \in 0..(Current.size - 1) :
                  g.entries[s] = Current.entries[(front - Current.size + s) % Current.size]
  BY GrownIs
<1>7. /\ indexes' \in Seq(Headers) /\ Len(indexes') = Len(indexes) + 1 /\ Len(indexes) \in Nat
      /\ indexes'[Len(indexes) + 1] = g /\ \A i \in 1..Len(indexes) : indexes'[i] = indexes[i]
  <2>1. indexes' = Append(indexes, g)
    BY <1>6 DEF GrowIndex
  <2>2. PICK s \in Seq(Headers) : s = indexes
    BY CurrentIs
  <2>3. /\ Append(s, g) \in Seq(Headers) /\ Len(Append(s, g)) = Len(s) + 1 /\ Len(s) \in Nat
        /\ Append(s, g)[Len(s) + 1] = g /\ \A i \in 1..Len(s) : Append(s, g)[i] = s[i]
    BY AppendIs
  <2> QED BY <2>1, <2>2, <2>3
<1>8. Current' = g /\ Size' = 2 * n /\ Longer
  <2>1. Current' = g
    BY <1>7 DEF Current
  <2>2. Size' = 2 * n
    BY <1>5, <1>6, <1>7 DEF Size
  <2>3. Longer
    BY <1>7 DEF Longer
  <2> QED BY <2>1, <2>2, <2>3
<1>9. front' = slotsUsed /\ front \in Int
  BY DEF GrowIndex, Shapes
<1>10. PICK l \in Int, k \in Int, f \in Int : /\ l = Low /\ k = Last /\ f = front /\ f = (k + 1 + q) % n
                                             /\ k + 1 - l = n
  <2>1. Last + 1 - Low = n
    BY <1>2, <1>5
  <2>2. front = (Last + 1 + q) % n
    BY <1>1, <1>5 DEF Fronts
  <2> QED BY <2>1, <2>2, <1>2, <1>9
<1>11. Shown(R, 0 - l, g, l, k)
  <2>1. Shown(R, q, h, l, k)
    BY <1>1, <1>5, <1>10
  <2>2. k + 1 - l = h.size /\ f = (k + 1 + q) % h.size /\ g.size = 2 * h.size
    BY <1>5, <1>6, <1>10
  <2>3. \A s \in 0..(h.size - 1) : g.entries[s] = h.entries[(f - h.size + s) % h.size]
    BY <1>5, <1>6, <1>10
  <2> QED BY <1>1, <2>1, <2>2, <2>3, ShownGrown
<1>12. Shown(R, 0 - Low, Current, Low, Last)'
  BY <1>4, <1>8, <1>10, <1>11
<1>13. Fronts(0 - Low)'
  <2>1. PICK m \in Nat : m = 2 * n /\ m >= 1 /\ n < m /\ Size' = m
    BY <1>5, <1>8
  <2>2. ASSUME NEW u \in 0..(m - 1) PROVE u % m = u
    BY <2>1
  <2>3. front' = (Last' + 1 + (0 - Low')) % Size'
    <3>1. n % m = n
      BY <2>1, <2>2
    <3>2. k + 1 + (0 - l) = n
      BY <1>10
    <3> QED BY <3>1, <3>2, <2>1, <1>4, <1>5, <1>9, <1>10
  <2>4. tail' > 0 => \E y \in Ord(tail' - 1)..Last' : Current'.front = (y + (0 - Low')) % Size'
    <3> SUFFICES ASSUME tail > 0 PROVE \E y \in Ord(tail - 1)..Last : g.front = (y + (0 - Low)) % m
      BY <2>1, <1>3, <1>4, <1>8
    <3>1. PICK b \in Int : b = Ord(tail - 1) /\ exposed >= 1 /\ b <= l + exposed - 1 /\ exposed <= n
      BY <1>2, <1>5, <1>10
    <3>2. PICK y \in Int : y = l + exposed - 1
      OBVIOUS
    <3>3. y \in b..k /\ exposed - 1 \in 0..(m - 1)
      BY <3>1, <3>2, <2>1, <1>10
    <3>4. y + (0 - l) = exposed - 1
      BY <3>2
    <3>5. (y + (0 - l)) % m = exposed - 1
      BY <3>3, <3>4, <2>2
    <3>6. g.front = (y + (0 - l)) % m
      BY <3>5, <1>6
    <3> QED BY <3>1, <3>3, <3>6, <1>10
  <2>5. producer' # "publish"
    OBVIOUS
  <2> QED BY <2>3, <2>4, <2>5 DEF Fronts
<1>14. Sized(R)'
  <2>1. slotsUsed' <= Size' /\ slotsUsed' < Size'
    BY <1>3, <1>5, <1>8
  <2> QED BY <2>1, <1>1, <1>3, <1>4 DEF Sized
<1>15. Reads(R, 0 - Low)'
  <2>1. PICK p \in Int : p = 0 - l
    OBVIOUS
  <2>2. Reads(R, p)'
    BY <1>1, <1>8, <2>1, ReadsGrown
  <2> QED BY <2>1, <2>2, <1>4, <1>10
<1>16. /\ Links(R, blocks, Low, Top)' /\ Cells(R, blocks, Low, Top, tail)'
  BY <1>1, <1>3, <1>4
<1>17. Flags(R, blocks, Low, Marked)' /\ Floor(Low)'
  BY <1>1, <1>3, <1>4 DEF Flags, Floor
<1>18. 0 - Low' \in Int
  BY <1>2, <1>4
<1>19. Ring(R, 0 - Low)'
  BY <1>1, <1>12, <1>13, <1>14, <1>15, <1>16, <1>17, <1>18 DEF Ring
<1>20. Shapes'
  <2>1. indexes' # <<>>
    BY <1>7, EmptySeq
  <2>2. front' \in Int
    <3>1. slotsUsed \in Int /\ front' = slotsUsed
      BY <1>9 DEF Shapes
    <3> QED BY <3>1
  <2> QED BY <2>1, <2>2, <1>3, <1>7 DEF Shapes
<1> QED BY <1>19, <1>20

\* enqueue finds no block to reuse, and grows a full index.
LEMMA NeedKept ==
    ASSUME CountInv, RangesApart, Control, Shapes, NEW R, NEW q, Ring(R, q), NeedBlock
    PROVE  Kept
<1>1. /\ producer = "idle" /\ tail % BlockSize = 0 /\ producer' = "new" /\ op' = One
      /\ UNCHANGED <<blocks, tailBlock, slotsUsed>> /\ Alone
      /\ IF slotsUsed = Size THEN GrowIndex(slotsUsed) ELSE UNCHANGED <<indexes, front>>
  BY DEF NeedBlock, StartsBlock, Alone, Still, counters, reading
<1>2. op'.kind = "one" /\ tail' = tail
  BY <1>1, OpKinds, AloneIs
<1>3. Top = Ord(tail - 1) /\ Last = Top /\ Marked = Top /\ Top \in Int
  BY <1>1, TopIs
<1>4. Top' = Top /\ Last' = Last /\ Marked' = Marked
  BY <1>1, <1>2, <1>3 DEF Top, Last, Marked
<1>5. Chained(R)'
  BY <1>2 DEF Chained
<1>6. Control'
  BY <1>1, <1>2 DEF Control
<1>7. CASE slotsUsed = Size
  <2>1. PICK e \in Int : e = slotsUsed
    BY DEF Shapes
  <2>2. /\ Sized(R) /\ Len(blocks) \in Nat /\ Low = Top + 1 - Len(blocks) /\ slotsUsed = Len(blocks)
    BY NumbersIs DEF Ring, CountInv, Sized
  <2>3. Low + e - 1 = Top
    BY <2>1, <2>2, <1>3
  <2>4. e >= 1
    BY <2>1, <1>7, CurrentIs
  <2>5. Ring(R, 0 - Low)' /\ Shapes'
    <3>1. tail > 0 => e >= 1 /\ Ord(tail - 1) <= Low + e - 1 /\ e <= slotsUsed
      BY <2>1, <2>3, <2>4, <1>3
    <3>2. GrowIndex(e)
      BY <2>1, <1>1, <1>7
    <3> QED BY <3>1, <3>2, <1>1, <1>3, <1>4, <1>5, <1>7, RingGrown
  <2> QED BY <2>5, <1>6 DEF Kept
<1>8. CASE slotsUsed # Size
  <2>1. UNCHANGED <<blocks, indexes, private>>
    BY <1>1, <1>8 DEF private
  <2>2. slotsUsed < Size
    <3>1. slotsUsed <= Size
      BY DEF Ring, Sized
    <3> QED BY <3>1, <1>8, CurrentIs DEF Shapes
  <2>3. Ring(R, q)'
    BY <2>1, <2>2, <1>1, <1>2, <1>3, <1>4, <1>5, RingKept
  <2> QED BY <2>1, <2>3, <1>6, ShapesKept DEF Kept
<1> QED BY <1>7, <1>8

\* enqueue_bulk grows a full index.
LEMMA GrowKept ==
    ASSUME CountInv, RangesApart, Control, Shapes, NEW R, NEW q, Ring(R, q), BulkGrow
    PROVE  Kept
<1>1. /\ producer = "new" /\ op.kind = "bulk" /\ producer' = "new" /\ op' = [op EXCEPT !.front0 = op.slots0]
      /\ UNCHANGED <<blocks, tailBlock, slotsUsed>> /\ Alone
      /\ slotsUsed = Size /\ GrowIndex(op.slots0)
  BY DEF BulkGrow, Alone, Still, counters, reading
<1>2. Bulk /\ Top = Ord(tail - 1) + Len(op.chain) /\ Last = Top /\ Marked = Ord(tail - 1) /\ Len(op.chain) \in Nat
      /\ Ord(tail - 1) \in Int
  BY <1>1, TopIs
<1>3. PICK o \in Bulks : o = op
  BY <1>2 DEF Bulk
<1>4. PICK e \in Int : e = o.slots0
  BY <1>3 DEF Bulks
<1>5. PICK w \in Bulks : /\ w = [o EXCEPT !.front0 = e] /\ w.kind = o.kind /\ w.n = o.n /\ w.need = o.need
                         /\ w.chain = o.chain /\ w.start = o.start /\ w.slots0 = o.slots0
  <2>1. PICK w : w = [o EXCEPT !.front0 = e]
    OBVIOUS
  <2>2. o \in Bulks /\ e \in Int
    BY <1>3, <1>4
  <2>3. w \in Bulks
    BY <2>1, <2>2 DEF Bulks
  <2>4. /\ w.kind = o.kind /\ w.n = o.n /\ w.need = o.need
        /\ w.chain = o.chain /\ w.start = o.start /\ w.slots0 = o.slots0
    BY <2>1, <2>2 DEF Bulks
  <2> QED BY <2>1, <2>3, <2>4
<1>6. op' = w /\ tail' = tail /\ slotsUsed' = slotsUsed
  BY <1>1, <1>3, <1>4, <1>5, AloneIs
<1>7. Top' = Top /\ Last' = Last /\ Marked' = Marked
  <2>1. Top' = Top
    BY <1>1, <1>2, <1>3, <1>5, <1>6 DEF Top
  <2> QED BY <2>1, <1>1, <1>2, <1>3, <1>5, <1>6 DEF Last, Marked
<1>8. Chained(R)'
  <2>1. Chained(R)
    BY DEF Ring
  <2> QED BY <2>1, <1>1, <1>3, <1>5, <1>6 DEF Chained
<1>9. Bulk'
  BY <1>1, <1>2, <1>3, <1>5, <1>6 DEF Bulk
<1>10. tail > 0 => e >= 1 /\ Ord(tail - 1) <= Low + e - 1 /\ e <= slotsUsed
  <2>1. PICK t \in Int, c \in Nat, b \in Int, s \in Nat :
          t = Top /\ c = Len(op.chain) /\ b = Ord(tail - 1) /\ s = slotsUsed /\ Low = t + 1 - s /\ t = b + c
    <3>1. /\ Sized(R) /\ Len(blocks) \in Nat /\ Low = Top + 1 - Len(blocks) /\ slotsUsed = Len(blocks) /\ Top \in Int
      BY NumbersIs DEF Ring, CountInv, Sized
    <3> QED BY <3>1, <1>2
  <2>2. 0 <= s - e /\ s - e <= c /\ (tail > 0 => e > 0)
    BY <2>1, <1>2, <1>3, <1>4 DEF Bulk
  <2>3. e \in Int
    BY <1>4
  <2>4. (e > 0 => e >= 1) /\ e <= s
    BY <2>2, <2>3
  <2>5. t - c = b
    BY <2>1
  <2>6. b <= t + 1 - s + e - 1
    BY <2>2, <2>3, <2>5
  <2> QED BY <2>1, <2>2, <2>4, <2>6
<1>11. Ring(R, 0 - Low)' /\ Shapes'
  <2>1. GrowIndex(e)
    BY <1>1, <1>3, <1>4
  <2> QED BY <2>1, <1>1, <1>2, <1>7, <1>8, <1>10, RingGrown
<1>12. Control'
  BY <1>1, <1>9 DEF Control
<1> QED BY <1>11, <1>12 DEF Kept

-----------------------------------------------------------------------------
\* The flags of one block are set.
EmptyTo(b, flags) == [blocks EXCEPT ![b].empty = flags]

LEMMA BlockEmpty ==
    ASSUME NEW b \in BlockRecords, NEW x \in SUBSET Offsets
    PROVE  /\ [b EXCEPT !.empty = x] \in BlockRecords /\ [b EXCEPT !.empty = x].next = b.next
           /\ [b EXCEPT !.empty = x].empty = x /\ [b EXCEPT !.empty = x].cells = b.cells
BY DEF BlockRecords

LEMMA EmptySet ==
    ASSUME Shapes, NEW b \in 1..Len(blocks), NEW flags \in SUBSET Offsets
    PROVE  /\ EmptyTo(b, flags) \in Seq(BlockRecords) /\ Len(EmptyTo(b, flags)) = Len(blocks)
           /\ \A i \in 1..Len(blocks) :
                /\ EmptyTo(b, flags)[i].next = blocks[i].next
                /\ EmptyTo(b, flags)[i].cells = blocks[i].cells
                /\ EmptyTo(b, flags)[i].empty = IF i = b THEN flags ELSE blocks[i].empty
<1>1. PICK n \in Nat : n = Len(blocks)
  BY LenProperties DEF Shapes
<1>2. b \in 1..n /\ blocks \in [1..n -> BlockRecords] /\ blocks \in Seq(BlockRecords)
  BY <1>1, LenProperties DEF Shapes
<1>3. blocks[b] \in BlockRecords
  BY <1>2
<1>4. PICK t \in BlockRecords : /\ t = [blocks[b] EXCEPT !.empty = flags]
                                /\ t.next = blocks[b].next /\ t.empty = flags
                                /\ t.cells = blocks[b].cells
  BY <1>3, BlockEmpty
<1>5. PICK s : s = [blocks EXCEPT ![b].empty = flags]
  OBVIOUS
<1>6. s = [blocks EXCEPT ![b] = t]
  BY <1>2, <1>4, <1>5
<1>7. s \in [1..n -> BlockRecords] /\ s[b] = t /\ \A i \in 1..n : i # b => s[i] = blocks[i]
  BY <1>2, <1>6
<1>8. s \in Seq(BlockRecords) /\ Len(s) = n
  BY <1>2, <1>6, <1>1, ExceptSeq
<1>9. \A i \in 1..n : /\ s[i].next = blocks[i].next /\ s[i].cells = blocks[i].cells
                      /\ s[i].empty = IF i = b THEN flags ELSE blocks[i].empty
  BY <1>4, <1>7
<1>10. EmptyTo(b, flags) = s
  BY <1>5 DEF EmptyTo
<1> QED BY <1>1, <1>8, <1>9, <1>10

\* enqueue reuses the oldest block.
LEMMA ReuseKept ==
    ASSUME CountInv, RangesApart, Control, Shapes, NEW R, NEW q, Ring(R, q), ReuseBlock
    PROVE  Kept
<1>1. /\ producer = "idle" /\ tail % BlockSize = 0 /\ producer' = "entry" /\ op' = One
      /\ UNCHANGED <<indexes, slotsUsed, front>> /\ Alone
      /\ AheadEmpty /\ tailBlock' = Ahead /\ blocks' = [blocks EXCEPT ![Ahead].empty = {}]
  BY DEF ReuseBlock, StartsBlock, Alone, Still, counters, reading
<1>2. op'.kind = "one" /\ tail' = tail /\ Size' = Size /\ tailBlock # 0
  BY <1>1, OpKinds, AloneIs DEF Size, AheadEmpty
<1>3. /\ Top = Ord(tail - 1) /\ Last = Top /\ Marked = Top /\ Top \in Int /\ Ord(tail) = Top + 1
  BY <1>1, TopIs, NextOrd
<1>4. Top' = Top + 1 /\ Last' = Last /\ Marked' = Top + 1
  <2>1. Top' = Top + 1
    BY <1>1, <1>2, <1>3 DEF Top
  <2>2. Last' = Top' - 1
    BY <1>1 DEF Last
  <2>3. Marked' = Top'
    BY <1>2 DEF Marked
  <2> QED BY <2>1, <2>2, <2>3, <1>3
<1>5. /\ R \in [Int -> Int] /\ q \in Int /\ Sized(R) /\ Links(R, blocks, Low, Top)
      /\ Flags(R, blocks, Low, Marked)
  BY DEF Ring
<1>6. /\ Low <= Top /\ Ahead = R[Low] /\ \A x \in Low..Top : R[x] \in 1..Len(blocks)
  BY <1>2, <1>5, AheadIs
<1>7. Low \in Int
  BY NumbersIs DEF CountInv
<1>8. PICK b \in 1..Len(blocks) : b = Ahead /\ b = R[Low]
  <2>1. Low \in Low..Top
    BY <1>3, <1>6, <1>7
  <2> QED BY <2>1, <1>6
<1>9. /\ blocks' \in Seq(BlockRecords) /\ Len(blocks') = Len(blocks)
      /\ \A i \in 1..Len(blocks) :
                /\ blocks'[i].next = blocks[i].next
                /\ blocks'[i].cells = blocks[i].cells
                /\ blocks'[i].empty = IF i = b THEN {} ELSE blocks[i].empty
  <2>1. PICK f \in SUBSET Offsets : f = {}
    OBVIOUS
  <2>2. blocks' = EmptyTo(b, f)
    BY <2>1, <1>1, <1>8 DEF EmptyTo
  <2> QED BY <2>1, <2>2, EmptySet
<1>10. SameBlocks
  BY <1>9 DEF SameBlocks
<1>11. PICK S : S = [R EXCEPT ![Top + 1] = R[Low]]
  OBVIOUS
<1>12. /\ S \in [Int -> Int] /\ Low' = Low + 1 /\ Sized(S)' /\ Links(S, blocks, Low, Top)'
       /\ Cells(S, blocks, Low, Top, tail)' /\ Floor(Low)'
       /\ S[Top + 1] = R[Low] /\ \A x \in Int : x <= Top => S[x] = R[x]
  <2>1. /\ producer' # "new" /\ Low <= Marked /\ UNCHANGED slotsUsed
        /\ Alone /\ AheadEmpty /\ tailBlock' = Ahead /\ Top' = Top + 1 /\ Size' = Size
    BY <1>1, <1>2, <1>3, <1>4, <1>6
  <2>2. R \in [Int -> Int] /\ q \in Int
    BY <1>5
  <2> QED BY <2>1, <2>2, <1>10, <1>11, RingReused
<1>13. Shown(S, q, Current, Low, Last)' /\ Fronts(q)' /\ Reads(S, q)'
  <2>0. PICK l \in Int : l = Low /\ Low' = l + 1
    BY <1>7, <1>12
  <2>1. Low' \in Int /\ Low <= Low' /\ producer' # "publish"
    BY <2>0, <1>1
  <2> QED BY <2>1, <1>1, <1>4, <1>5, <1>12, IndexKept
<1>14. Flags(S, blocks, Low, Marked)'
  <2> SUFFICES ASSUME NEW x \in (Low + 1)..(Top + 1), NEW o \in Offsets, o \in blocks'[S[x]].empty
               PROVE  Free(First(x) + o)
    BY <1>4, <1>12, <1>1, AloneIs DEF Flags
  <2>1. CASE x = Top + 1
    <3>1. S[x] = b
      BY <2>1, <1>8, <1>12
    <3>2. blocks'[b].empty = {}
      BY <1>9
    <3> QED BY <3>1, <3>2
  <2>2. CASE x # Top + 1
    <3>1. x \in Low..Top /\ Low \in Low..Top /\ x # Low
      BY <2>2, <1>3, <1>6, <1>7
    <3>2. S[x] = R[x]
      <4>1. PICK l \in Int, t \in Int : l = Low /\ t = Top /\ x \in l..t
        BY <3>1, <1>3, <1>7
      <4>2. x \in Int /\ x <= Top
        BY <4>1
      <4> QED BY <4>2, <1>12
    <3>3. R[x] # b /\ R[x] \in 1..Len(blocks)
      BY <3>1, <1>5, <1>6, <1>8 DEF Links, Apart
    <3>4. o \in blocks[R[x]].empty
      BY <3>2, <3>3, <1>9
    <3> QED BY <3>1, <3>4, <1>3, <1>5 DEF Flags
  <2> QED BY <2>1, <2>2
<1>15. Chained(S)'
  BY <1>2 DEF Chained
<1>16. Ring(S, q)'
  BY <1>5, <1>12, <1>13, <1>14, <1>15 DEF Ring
<1>17. Control'
  BY <1>1, <1>2 DEF Control
<1>18. Shapes'
  <2>1. tailBlock' \in Int
    BY <1>1, <1>8, LenProperties DEF Shapes
  <2> QED BY <2>1, <1>1, <1>9 DEF Shapes
<1> QED BY <1>16, <1>17, <1>18 DEF Kept

LEMMA EmptyRing ==
    ASSUME CountInv, Control, Shapes, NEW R \in [Int -> Int], Sized(R), Links(R, blocks, Low, Top),
           tailBlock = 0
    PROVE  Len(blocks) = 0
<1> SUFFICES ASSUME Len(blocks) # 0 PROVE FALSE
  OBVIOUS
<1>1. /\ Top \in Int /\ Low \in Int /\ Len(blocks) \in Nat /\ Low = Top + 1 - Len(blocks)
  BY NumbersIs DEF CountInv
<1>2. slotsUsed # 0 /\ tailBlock = R[Top]
  BY DEF Sized
<1>3. Top \in Low..Top
  BY <1>1
<1>4. R[Top] \in 1..Len(blocks)
  BY <1>3 DEF Links, Linked
<1> QED BY <1>1, <1>2, <1>4

\* enqueue inserts a new block.
LEMMA NewKept ==
    ASSUME CountInv, RangesApart, Control, Shapes, NEW R, NEW q, Ring(R, q), NewBlock
    PROVE  Kept
<1>1. /\ producer = "new" /\ op.kind = "one" /\ producer' = "entry" /\ op' = op
      /\ UNCHANGED <<indexes, front>> /\ Alone
      /\ blocks' = Inserted({}) /\ tailBlock' = Len(blocks') /\ slotsUsed' = slotsUsed + 1
  BY DEF NewBlock, Alone, Still, counters, reading
<1>2. op'.kind = "one" /\ tail' = tail /\ Size' = Size
  BY <1>1, AloneIs DEF Size
<1>3. /\ Top = Ord(tail - 1) /\ Last = Top /\ Marked = Top /\ Top \in Int /\ Ord(tail) = Top + 1
      /\ op = One /\ tail % BlockSize = 0
  BY <1>1, TopIs, NextOrd
<1>4. Top' = Top + 1 /\ Last' = Last /\ Marked' = Top + 1
  <2>1. Top' = Top + 1
    BY <1>1, <1>2, <1>3 DEF Top
  <2>2. Last' = Top' - 1
    BY <1>1 DEF Last
  <2>3. Marked' = Top'
    BY <1>2 DEF Marked
  <2> QED BY <2>1, <2>2, <2>3, <1>3
<1>5. /\ R \in [Int -> Int] /\ q \in Int /\ Sized(R) /\ Links(R, blocks, Low, Top)
      /\ Flags(R, blocks, Low, Marked)
  BY DEF Ring
<1>6. slotsUsed < Size /\ Low \in Int /\ Len(blocks) \in Nat
  BY <1>1, <1>5, NumbersIs DEF CountInv, Sized
<1>7. PICK new \in Seq(BlockRecords) : new = Inserted({}) /\ Len(new) = Len(blocks) + 1
  <2>1. IF tailBlock = 0 THEN Len(blocks) = 0 ELSE tailBlock \in 1..Len(blocks)
    <3>1. CASE tailBlock = 0
      BY <3>1, <1>5, EmptyRing
    <3>2. CASE tailBlock # 0
      BY <3>2, <1>5, AheadIs
    <3> QED BY <3>1, <3>2
  <2>2. {} \in SUBSET Offsets
    OBVIOUS
  <2> QED BY <2>1, <2>2, InsertedIs
<1>9. tailBlock' = Len(blocks) + 1
  BY <1>1, <1>7
<1>8. PICK S : RingWith(R, S, {})
  <2>1. Inserting({})
    BY <1>1, <1>2, <1>4, <1>6, <1>9 DEF Inserting
  <2> QED BY <2>1, <1>5, RingInserted
<1>10. /\ S \in [Int -> Int] /\ Low' = Low /\ Sized(S)' /\ Links(S, blocks, Low, Top)'
       /\ Cells(S, blocks, Low, Top, tail)' /\ Floor(Low)' /\ blocks' \in Seq(BlockRecords)
       /\ Low <= Top + 1 /\ \A x \in Low..Top : R[x] \in 1..Len(blocks)
       /\ S[Top + 1] = Len(blocks) + 1 /\ \A x \in Int : x <= Top => S[x] = R[x]
       /\ blocks'[Len(blocks) + 1].empty = {}
       /\ \A i \in 1..Len(blocks) : blocks'[i].empty = blocks[i].empty
  BY <1>8 DEF RingWith
<1>11. Shown(S, q, Current, Low, Last)' /\ Fronts(q)' /\ Reads(S, q)'
  <2>1. Low' \in Int /\ Low <= Low' /\ producer' # "publish"
    BY <1>1, <1>6, <1>10
  <2> QED BY <2>1, <1>1, <1>4, <1>5, <1>10, IndexKept
<1>12. Flags(S, blocks, Low, Marked)'
  <2> SUFFICES ASSUME NEW x \in Low..(Top + 1), NEW o \in Offsets, o \in blocks'[S[x]].empty
               PROVE  Free(First(x) + o)
    BY <1>4, <1>10, <1>1, AloneIs DEF Flags
  <2>1. CASE x = Top + 1
    BY <2>1, <1>10
  <2>2. CASE x # Top + 1
    <3>1. x \in Low..Top
      BY <2>2, <1>3, <1>6
    <3>2. S[x] = R[x] /\ R[x] \in 1..Len(blocks)
      <4>1. PICK l \in Int, t \in Int : l = Low /\ t = Top /\ x \in l..t
        BY <3>1, <1>3, <1>6
      <4>2. x \in Int /\ x <= Top
        BY <4>1
      <4> QED BY <3>1, <4>2, <1>10
    <3>3. o \in blocks[R[x]].empty
      BY <3>2, <1>10
    <3> QED BY <3>1, <3>3, <1>3, <1>5 DEF Flags
  <2> QED BY <2>1, <2>2
<1>13. Chained(S)'
  BY <1>2 DEF Chained
<1>14. Ring(S, q)'
  BY <1>5, <1>10, <1>11, <1>12, <1>13 DEF Ring
<1>15. Control'
  BY <1>1, <1>2, <1>3 DEF Control
<1>16. Shapes'
  <2>1. tailBlock' \in Int /\ slotsUsed' \in Int
    BY <1>1, <1>6, <1>9 DEF Shapes
  <2> QED BY <2>1, <1>1, <1>10 DEF Shapes
<1> QED BY <1>14, <1>15, <1>16 DEF Kept

\* enqueue enters its block and shows the entry.
LEMMA WriteKept ==
    ASSUME CountInv, RangesApart, Control, Shapes, NEW R, NEW q, Ring(R, q), WriteEntry
    PROVE  Kept
<1>1. /\ producer = "entry" /\ producer' = "publish" /\ op' = op
      /\ UNCHANGED <<blocks, tailBlock, slotsUsed>> /\ Alone
      /\ indexes' = [Entered(tail, tailBlock) EXCEPT ![Len(indexes)].front = front]
      /\ front' = (front + 1) % Size
  BY DEF WriteEntry, Alone, Still, counters, reading
<1>2. /\ op.kind = "one" /\ op = One /\ Top = Ord(tail) /\ Last = Top - 1 /\ Marked = Top /\ Top \in Int
      /\ tail % BlockSize = 0 /\ tail \in Nat
  BY <1>1, TopIs, NextOrd
<1>3. /\ tail' = tail /\ op'.kind = "one" /\ blocks' = blocks /\ slotsUsed' = slotsUsed
      /\ tailBlock' = tailBlock /\ \A i : Free(i)' <=> Free(i)
  BY <1>1, <1>2, AloneIs
<1>4. Top' = Top /\ Last' = Last + 1 /\ Marked' = Top /\ Low' = Low
  <2>1. Top' = Top
    BY <1>1, <1>2, <1>3 DEF Top
  <2>2. Last' = Top'
    BY <1>1 DEF Last
  <2>3. Marked' = Top'
    BY <1>3 DEF Marked
  <2>4. Low' = Low
    BY <2>1, <1>3 DEF Low
  <2> QED BY <2>1, <2>2, <2>3, <2>4, <1>2
<1>5. /\ R \in [Int -> Int] /\ q \in Int /\ Sized(R) /\ Links(R, blocks, Low, Top) /\ Fronts(q)
      /\ Flags(R, blocks, Low, Marked) /\ Cells(R, blocks, Low, Top, tail) /\ Floor(Low)
  BY DEF Ring
<1>6. /\ Low \in Int /\ Len(blocks) \in Nat /\ Low = Top + 1 - Len(blocks) /\ slotsUsed = Len(blocks)
      /\ slotsUsed <= Size /\ tailBlock = R[Top] /\ tailBlock \in Int
  <2>1. /\ Low \in Int /\ Len(blocks) \in Nat /\ Low = Top + 1 - Len(blocks)
    BY NumbersIs DEF CountInv
  <2>2. Top # -1
    <3>1. First(0) = 0 /\ (First(0) <= tail <=> 0 <= Ord(tail))
      BY <1>2, FirstIs, OrdAt
    <3> QED BY <3>1, <1>2
  <2> QED BY <2>1, <2>2, <1>5 DEF Sized, Shapes
<1>7. PICK f \in Int, n \in Nat : f = front /\ n = Size /\ n >= 1 /\ f \in 0..(n - 1)
  <2>0. PICK t \in Int : t = Top /\ Last = t - 1
    BY <1>2
  <2>1. PICK n \in Nat, z \in Int : n = Size /\ n >= 1 /\ z = Last + 1 + q
    BY <2>0, <1>5, CurrentIs
  <2>2. z % n \in 0..(n - 1)
    BY <2>1
  <2>3. front = z % n
    BY <2>1, <1>5 DEF Fronts
  <2> QED BY <2>1, <2>2, <2>3
<1>8. PICK g0 \in Headers :
             /\ Entered(tail, tailBlock) = LastTo(g0)
             /\ g0.size = Size /\ g0.front = Current.front
             /\ g0.entries = [Current.entries EXCEPT ![front] = [base |-> tail, block |-> tailBlock]]
  <2>1. PICK t \in Int, b \in Int : t = tail /\ b = tailBlock
    BY <1>2, <1>6
  <2>2. front \in 0..(Size - 1)
    BY <1>7
  <2>3. \E g \in Headers :
             /\ Entered(t, b) = LastTo(g)
             /\ g.size = Size /\ g.front = Current.front
             /\ g.entries = [Current.entries EXCEPT ![front] = [base |-> t, block |-> b]]
    BY <2>2, EnteredIs
  <2> QED BY <2>1, <2>3
<1>9. PICK g \in Headers : g = [g0 EXCEPT !.front = f] /\ g.size = g0.size /\ g.front = f /\ g.entries = g0.entries
  BY FrontSet
<1>10. indexes' = LastTo(g)
  <2>1. PICK m \in Nat : m = Len(indexes) /\ m >= 1 /\ m \in DOMAIN indexes
    <3>1. Len(indexes) \in DOMAIN indexes /\ Len(indexes) \in Nat /\ Len(indexes) >= 1
      BY CurrentIs, LenProperties
    <3> QED BY <3>1
  <2>2. LastTo(g0) = [indexes EXCEPT ![m] = g0] /\ LastTo(g) = [indexes EXCEPT ![m] = g]
    BY <2>1 DEF LastTo
  <2>3. indexes' = [LastTo(g0) EXCEPT ![m].front = f]
    BY <2>1, <1>1, <1>7, <1>8
  <2> QED BY <2>1, <2>2, <2>3, <1>9
<1>11. /\ Shown(R, q, Current, Low, Last)' /\ Fronts(q)' /\ Reads(R, q)' /\ Size' = Size
       /\ indexes' \in Seq(Headers) /\ indexes' # <<>> /\ front' \in Int
  <2>1. First(Last + 1) = tail /\ R[Last + 1] = tailBlock
    <3>1. Last + 1 = Top
      BY <1>2
    <3> QED BY <3>1, <1>2, <1>6, NextOrd
  <2>2. g.size = Size /\ g.front = front
    BY <1>7, <1>8, <1>9
  <2>3. g.entries = [Current.entries EXCEPT ![front] = [base |-> First(Last + 1), block |-> R[Last + 1]]]
    BY <2>1, <1>8, <1>9
  <2>4. Low' \in Int /\ Low <= Low' /\ Last + 1 - Low' < Size
    <3>1. PICK t \in Int, l \in Int, m \in Nat : /\ t = Top /\ l = Low /\ m = Len(blocks) /\ l = t + 1 - m
                                                  /\ m <= n
      BY <1>2, <1>6, <1>7
    <3>2. PICK k \in Int : k = Last /\ k = t - 1
      BY <3>1, <1>2
    <3>3. k + 1 - l < n
      BY <3>1, <3>2, <1>7
    <3>4. Last + 1 - Low' < Size
      BY <3>1, <3>2, <3>3, <1>4, <1>7
    <3>6. Low' = Low
      BY <1>4
    <3>5. Low = l
      BY <3>1
    <3>7. Low' = l
      BY <3>5, <3>6
    <3>8. Low' \in Int
      BY <3>7
    <3>9. Low <= Low'
      BY <3>5, <3>7
    <3> QED BY <3>4, <3>8, <3>9
  <2>5. \A x \in Int : x <= Last => R[x] = R[x]
    OBVIOUS
  <2>6. Entering(R, g)
    BY <2>2, <2>3, <2>4, <2>5, <1>1, <1>4, <1>5, <1>10 DEF Entering
  <2> QED BY <2>5, <2>6, <1>5, IndexEntered DEF IndexRight
<1>12. Sized(R)'
  BY <1>1, <1>3, <1>4, <1>5, <1>11 DEF Sized
<1>13. /\ Links(R, blocks, Low, Top)' /\ Cells(R, blocks, Low, Top, tail)'
  BY <1>3, <1>4, <1>5
<1>14. Flags(R, blocks, Low, Marked)' /\ Floor(Low)'
  BY <1>2, <1>3, <1>4, <1>5 DEF Flags, Floor
<1>15. Chained(R)'
  BY <1>3 DEF Chained
<1>16. Ring(R, q)'
  BY <1>5, <1>11, <1>12, <1>13, <1>14, <1>15 DEF Ring
<1>17. Control'
  BY <1>1, <1>2 DEF Control
<1>18. Shapes'
  BY <1>3, <1>11 DEF Shapes
<1> QED BY <1>16, <1>17, <1>18 DEF Kept

-----------------------------------------------------------------------------
\* enqueue_bulk puts one more block into the ring.
Chaining(o, b) == [o EXCEPT !.need = @ - 1, !.chain = Append(@, b)]

LEMMA ChainingIs ==
    ASSUME NEW o \in Bulks, NEW b \in Int, o.need >= 1
    PROVE  /\ Chaining(o, b) \in Bulks /\ Chaining(o, b).kind = "bulk"
           /\ Chaining(o, b).n = o.n /\ Chaining(o, b).need = o.need - 1
           /\ Chaining(o, b).chain = Append(o.chain, b) /\ Chaining(o, b).start = o.start
           /\ Chaining(o, b).slots0 = o.slots0
<1>1. /\ o.kind = "bulk" /\ o.n \in Nat \ {0} /\ o.need \in Nat /\ o.chain \in Seq(Int)
      /\ o.start \in Int /\ o.slots0 \in Int /\ o.front0 \in Int
      /\ o = [kind |-> "bulk", n |-> o.n, need |-> o.need, chain |-> o.chain, start |-> o.start,
              slots0 |-> o.slots0, front0 |-> o.front0]
  BY DEF Bulks
<1>2. PICK c \in Seq(Int) : c = Append(o.chain, b)
  <2>1. Append(o.chain, b) \in Seq(Int)
    BY <1>1, AppendIs
  <2> QED BY <2>1
<1>3. PICK m \in Nat : m = o.need - 1
  BY <1>1
<1>4. PICK w : w = [o EXCEPT !.need = m, !.chain = c]
  OBVIOUS
<1>7. Chaining(o, b) = w
  BY <1>1, <1>2, <1>3, <1>4 DEF Chaining
<1>5. w \in Bulks
  BY <1>2, <1>3, <1>4 DEF Bulks
<1>6. /\ w.kind = "bulk" /\ w.n = o.n /\ w.need = m /\ w.chain = c /\ w.start = o.start
      /\ w.slots0 = o.slots0
  BY <1>1, <1>2, <1>3, <1>4 DEF Bulks
<1> QED BY <1>2, <1>3, <1>5, <1>6, <1>7

\* What it does to the operation, and to the numbers.
ChainStep(b) ==
    /\ Alone /\ op.kind = "bulk" /\ producer \in {"reuse", "new"} /\ op.need >= 1 /\ b \in Int
    /\ op' = Chaining(op, b) /\ producer' \in {"reuse", "new", "front"}
    /\ (producer' = "new" => op.need >= 2) /\ (producer' = "front" => op.need = 1)
    /\ slotsUsed' \in {slotsUsed, slotsUsed + 1}
    /\ indexes' = Entered(Base(tail - 1) + BlockSize * (Len(op.chain) + 1), b)
    /\ front' = (front + 1) % Size

LEMMA ChainTop ==
    ASSUME CountInv, Control, Shapes, NEW b, ChainStep(b)
    PROVE  /\ Top' = Top + 1 /\ Last' = Last + 1 /\ Marked' = Marked /\ Marked = Ord(tail - 1)
           /\ Last = Top /\ Top = Ord(tail - 1) + Len(op.chain) /\ Len(op.chain) \in Nat
           /\ Top \in Int /\ op'.kind = "bulk" /\ Bulk'
           /\ op'.chain = Append(op.chain, b) /\ op.chain \in Seq(Int) /\ op'.start = op.start
<1>0. /\ Alone /\ op.kind = "bulk" /\ producer \in {"reuse", "new"} /\ op.need >= 1 /\ b \in Int
      /\ op' = Chaining(op, b) /\ producer' \in {"reuse", "new", "front"}
      /\ (producer' = "new" => op.need >= 2) /\ (producer' = "front" => op.need = 1)
      /\ slotsUsed' \in {slotsUsed, slotsUsed + 1} /\ tail' = tail
  BY AloneIs DEF ChainStep
<1>1. /\ Bulk /\ Top = Ord(tail - 1) + Len(op.chain) /\ Last = Top /\ Marked = Ord(tail - 1)
      /\ Len(op.chain) \in Nat /\ Ord(tail - 1) \in Int
  BY <1>0, TopIs
<1>2. PICK o \in Bulks : o = op
  BY <1>1 DEF Bulk
<1>3. PICK c \in Seq(Int) : c = o.chain
  BY <1>2 DEF Bulks
<1>4. /\ op' \in Bulks /\ op'.kind = "bulk" /\ op'.n = o.n /\ op'.need = o.need - 1
      /\ op'.chain = Append(c, b) /\ op'.start = o.start /\ op'.slots0 = o.slots0
  BY <1>0, <1>2, <1>3, ChainingIs
<1>5. Len(op'.chain) = Len(c) + 1 /\ Len(c) \in Nat
  BY <1>0, <1>3, <1>4, AppendIs
<1>6. Top' = Top + 1
  BY <1>0, <1>1, <1>2, <1>3, <1>4, <1>5 DEF Top
<1>7. Last' = Last + 1 /\ Marked' = Marked
  <2>1. producer' # "entry" /\ producer' # "publish"
    BY <1>0
  <2>2. Last' = Top'
    BY <2>1 DEF Last
  <2>3. Marked' = Ord(tail - 1)
    BY <2>1, <1>0, <1>4 DEF Marked
  <2> QED BY <2>2, <2>3, <1>1, <1>6
<1>8. Bulk'
  <2>1. o.need \in Nat /\ o.slots0 \in Int /\ slotsUsed \in Int
    BY <1>2 DEF Bulks, Shapes
  <2>2. op'.need + Len(op'.chain) = Ord(tail' + op'.n - 1) - Ord(tail' - 1)
    <3>1. o.need + Len(c) = Ord(tail + o.n - 1) - Ord(tail - 1)
      BY <1>1, <1>2, <1>3 DEF Bulk
    <3>2. op'.need + Len(op'.chain) = o.need + Len(c)
      <4>1. PICK d \in Nat, l \in Nat : d = o.need /\ l = Len(c)
        BY <2>1, <1>5
      <4>2. op'.need = d - 1 /\ Len(op'.chain) = l + 1
        BY <4>1, <1>4, <1>5
      <4>3. (d - 1) + (l + 1) = d + l
        BY <4>1
      <4> QED BY <4>1, <4>2, <4>3
    <3> QED BY <3>1, <3>2, <1>0, <1>4
  <2>3. producer' = "new" => op'.need >= 1
    BY <2>1, <1>0, <1>2, <1>4
  <2>4. producer' \in {"front", "publish"} => op'.need = 0
    BY <2>1, <1>0, <1>2, <1>4
  <2>5. 0 <= slotsUsed' - op'.slots0 /\ slotsUsed' - op'.slots0 <= Len(op'.chain)
    <3>1. 0 <= slotsUsed - o.slots0 /\ slotsUsed - o.slots0 <= Len(c)
      BY <1>1, <1>2, <1>3 DEF Bulk
    <3>2. PICK s \in Int, z \in Int, l \in Nat : s = slotsUsed /\ z = o.slots0 /\ l = Len(c)
      BY <2>1, <1>5
    <3> QED BY <3>1, <3>2, <1>0, <1>4, <1>5
  <2>6. tail' > 0 => op'.slots0 > 0
    BY <1>0, <1>1, <1>2, <1>4 DEF Bulk
  <2> QED BY <2>2, <2>3, <2>4, <2>5, <2>6, <1>4 DEF Bulk
<1>9. Top \in Int
  BY <1>1
<1> QED BY <1>1, <1>2, <1>3, <1>4, <1>6, <1>7, <1>8, <1>9

\* R and S give the same blocks to the numbers so far.
Agree(R, S, b) == /\ S \in [Int -> Int] /\ S[Top + 1] = b
                  /\ \A x \in Int : x <= Top => S[x] = R[x]
Fits == Low' \in Int /\ Low <= Low' /\ Top + 1 - Low' < Size

\* The ring after the block's entry was written.
LEMMA ChainRing ==
    ASSUME CountInv, RangesApart, Control, Shapes, NEW R, NEW q, Ring(R, q),
           NEW b, ChainStep(b), NEW S, Agree(R, S, b), Fits
    PROVE  /\ Shown(S, q, Current, Low, Last)' /\ Fronts(q)' /\ Reads(S, q)' /\ Size' = Size
           /\ indexes' \in Seq(Headers) /\ indexes' # <<>> /\ front' \in Int /\ Chained(S)'
<1>0. /\ Alone /\ producer' # "publish" /\ b \in Int /\ front' = (front + 1) % Size /\ tail' = tail
      /\ indexes' = Entered(Base(tail - 1) + BlockSize * (Len(op.chain) + 1), b)
  BY AloneIs DEF ChainStep
<1>1. /\ Last' = Last + 1 /\ Last = Top /\ Top \in Int /\ Top = Ord(tail - 1) + Len(op.chain)
      /\ Len(op.chain) \in Nat
      /\ op'.chain = Append(op.chain, b) /\ op.chain \in Seq(Int) /\ op'.start = op.start
  BY ChainTop
<1>2. tail \in Nat /\ Ord(tail - 1) \in Int
  BY TopIs
<1>3. PICK base \in Int : /\ base = Base(tail - 1) + BlockSize * (Len(op.chain) + 1)
                          /\ base = First(Last + 1)
  <2>0. PICK x \in Int, m \in Nat, t \in Int : x = Ord(tail - 1) /\ m = Len(op.chain) /\ t = Last /\ t = x + m
    BY <1>1, <1>2
  <2>1. PICK k \in Int : k = m + 1 /\ t + 1 = x + k
    BY <2>0
  <2>2. \E y \in Int, o \in Offsets :
             /\ y = Ord(tail - 1) /\ o = (tail - 1) % BlockSize
             /\ tail - 1 = First(y) + o /\ Base(tail - 1) = First(y)
    BY <1>2, OrdIs
  <2>3. Base(tail - 1) = First(x)
    BY <2>0, <2>2
  <2>4. BlockSize * k = First(k)
    BY DEF First
  <2>5. First(x + k) = First(x) + First(k) /\ First(x + k) \in Int
    BY FirstAdd, FirstIs
  <2>6. Base(tail - 1) + BlockSize * (Len(op.chain) + 1) = First(x + k)
    BY <2>0, <2>1, <2>3, <2>4, <2>5
  <2> QED BY <2>0, <2>1, <2>5, <2>6
<1>4. front \in 0..(Size - 1)
  <2>1. Fronts(q)
    BY DEF Ring
  <2>0. PICK t \in Int : t = Last /\ q \in Int
    BY <1>1 DEF Ring
  <2>2. PICK n \in Nat, z \in Int : n = Size /\ n >= 1 /\ z = Last + 1 + q
    BY <2>0, CurrentIs
  <2>3. z % n \in 0..(n - 1)
    BY <2>2
  <2>4. front = z % n
    BY <2>1, <2>2 DEF Fronts
  <2> QED BY <2>2, <2>3, <2>4
<1>5. PICK g \in Headers :
             /\ Entered(base, b) = LastTo(g)
             /\ g.size = Size /\ g.front = Current.front
             /\ g.entries = [Current.entries EXCEPT ![front] = [base |-> base, block |-> b]]
  BY <1>0, <1>4, EnteredIs
<1>6. /\ Shown(S, q, Current, Low, Last)' /\ Fronts(q)' /\ Reads(S, q)' /\ Size' = Size
      /\ indexes' \in Seq(Headers) /\ indexes' # <<>> /\ front' \in Int
  <2>1. indexes' = LastTo(g)
    BY <1>0, <1>3, <1>5
  <2>2. S[Last + 1] = b /\ S \in [Int -> Int] /\ Low' \in Int /\ Low <= Low'
    BY <1>1 DEF Agree, Fits
  <2>3. g.entries = [Current.entries EXCEPT ![front] = [base |-> First(Last + 1), block |-> S[Last + 1]]]
    BY <2>2, <1>3, <1>5
  <2>4. Last + 1 - Low' < Size /\ \A x \in Int : x <= Last => S[x] = R[x]
    BY <1>1 DEF Agree, Fits
  <2>5. R \in [Int -> Int] /\ q \in Int
    BY DEF Ring
  <2>6. Entering(S, g)
    BY <2>1, <2>2, <2>3, <2>4, <1>0, <1>1, <1>5 DEF Entering
  <2>7. \A x \in Int : x <= Last => S[x] = R[x]
    BY <2>4
  <2> QED BY <2>5, <2>6, <2>7, IndexEntered DEF IndexRight
<1>7. Chained(S)'
  <2>0. op.kind = "bulk"
    BY DEF ChainStep
  <2>1. /\ \A k \in 1..Len(op.chain) : op.chain[k] = R[Ord(tail - 1) + k]
        /\ tail % BlockSize # 0 => op.start = R[Ord(tail - 1)]
    BY <2>0 DEF Ring, Chained
  <2>2. PICK c \in Seq(Int), n \in Nat, x \in Int, t \in Int :
           c = op.chain /\ n = Len(c) /\ x = Ord(tail - 1) /\ t = Top /\ t = x + n
    BY <1>1, <1>2
  <2>7. S[t + 1] = b /\ \A y \in Int : y <= t => S[y] = R[y]
    BY <2>2 DEF Agree
  <2>3. /\ op'.chain = Append(c, b) /\ Len(Append(c, b)) = n + 1 /\ Append(c, b)[n + 1] = b
        /\ \A i \in 1..n : Append(c, b)[i] = c[i]
    <3>1. b \in Int /\ c \in Seq(Int)
      BY <1>0, <2>2
    <3>2. /\ Len(Append(c, b)) = Len(c) + 1 /\ Append(c, b)[Len(c) + 1] = b
          /\ \A i \in 1..Len(c) : Append(c, b)[i] = c[i]
      BY <3>1, AppendIs
    <3> QED BY <3>2, <2>2, <1>1
  <2>4. ASSUME NEW k \in 1..(n + 1) PROVE Append(c, b)[k] = S[x + k]
    <3>1. CASE k = n + 1
      <4>1. x + k = t + 1
        BY <3>1, <2>2
      <4> QED BY <4>1, <3>1, <2>3, <2>7
    <3>2. CASE k # n + 1
      <4>1. k \in 1..n
        BY <3>2
      <4>2. x + k \in Int /\ x + k <= t
        BY <4>1, <2>2
      <4>3. S[x + k] = R[x + k]
        BY <4>2, <2>7
      <4> QED BY <4>1, <4>3, <2>1, <2>2, <2>3
    <3> QED BY <3>1, <3>2
  <2>5. S[x] = R[x]
    BY <2>2, <2>7
  <2>6. /\ \A k \in 1..Len(op'.chain) : op'.chain[k] = S[Ord(tail' - 1) + k]
        /\ tail' % BlockSize # 0 => op'.start = S[Ord(tail' - 1)]
    BY <2>1, <2>2, <2>3, <2>4, <2>5, <1>0, <1>1
  <2> QED BY <2>6 DEF Chained
<1> QED BY <1>6, <1>7

-----------------------------------------------------------------------------
\* The next slot is one of the index, and an entry leaves its size.
LEMMA FrontIs ==
    ASSUME CountInv, Control, Shapes, NEW R, NEW q, Ring(R, q)
    PROVE  front \in 0..(Size - 1)
<1>1. PICK n \in Nat, z \in Int : n = Size /\ n >= 1 /\ z = Last + 1 + q
  <2>1. Last \in Int /\ q \in Int
    BY NumbersIs DEF CountInv, Ring
  <2> QED BY <2>1, CurrentIs
<1>2. z % n \in 0..(n - 1)
  BY <1>1
<1>3. front = z % n
  BY <1>1 DEF Ring, Fronts
<1> QED BY <1>1, <1>2, <1>3

LEMMA EnteredSize ==
    ASSUME Shapes, NEW base, NEW b, indexes' = Entered(base, b), front \in 0..(Size - 1)
    PROVE  Size' = Size
<1>1. PICK m \in Nat, h \in Headers : m = Len(indexes) /\ m >= 1 /\ m \in DOMAIN indexes /\ h = indexes[m]
  <2>1. Len(indexes) \in DOMAIN indexes /\ Len(indexes) \in Nat /\ Len(indexes) >= 1
    BY CurrentIs, LenProperties
  <2>2. Current \in Headers /\ Current = indexes[Len(indexes)]
    BY CurrentIs
  <2> QED BY <2>1, <2>2
<1>2. PICK s : s = [h EXCEPT !.entries[front] = [base |-> base, block |-> b]]
  OBVIOUS
<1>3. s.size = h.size
  BY <1>2 DEF Headers
<1>4. indexes' = [indexes EXCEPT ![m] = s]
  BY <1>1, <1>2 DEF Entered
<1>5. indexes'[m] = s
  BY <1>1, <1>4
<1>6. Len(indexes') = m
  <2>1. DOMAIN indexes' = 1..m
    BY <1>1, <1>4, LenProperties DEF Shapes
  <2> QED BY <1>1, <2>1
<1> QED BY <1>1, <1>3, <1>5, <1>6 DEF Size

\* The flags of the blocks of the chain are reset.
LEMMA FrontBlocks ==
    ASSUME Shapes,
           blocks' = [b \in DOMAIN blocks |->
                    IF \E k \in DOMAIN op.chain : op.chain[k] = b
                      THEN [blocks[b] EXCEPT !.empty = {}] ELSE blocks[b]]
    PROVE  /\ blocks' \in Seq(BlockRecords) /\ Len(blocks') = Len(blocks)
           /\ \A i \in 1..Len(blocks) :
                /\ blocks'[i].next = blocks[i].next /\ blocks'[i].cells = blocks[i].cells
                /\ blocks'[i].empty = IF \E k \in DOMAIN op.chain : op.chain[k] = i THEN {} ELSE blocks[i].empty
<1>1. PICK n \in Nat : n = Len(blocks) /\ blocks \in [1..n -> BlockRecords] /\ DOMAIN blocks = 1..n
  BY LenProperties DEF Shapes
<1>2. ASSUME NEW i \in 1..n
      PROVE  /\ blocks'[i] \in BlockRecords
             /\ blocks'[i].next = blocks[i].next /\ blocks'[i].cells = blocks[i].cells
             /\ blocks'[i].empty = IF \E k \in DOMAIN op.chain : op.chain[k] = i THEN {} ELSE blocks[i].empty
  <2>1. PICK r \in BlockRecords : r = blocks[i]
    BY <1>1
  <2>2. PICK s : s = [r EXCEPT !.empty = {}]
    OBVIOUS
  <2>3. s \in BlockRecords /\ s.next = r.next /\ s.cells = r.cells /\ s.empty = {}
    BY <2>1, <2>2 DEF BlockRecords
  <2>4. CASE \E k \in DOMAIN op.chain : op.chain[k] = i
    <3>1. blocks'[i] = s
      BY <2>1, <2>2, <2>4, <1>1
    <3> QED BY <3>1, <2>1, <2>3, <2>4
  <2>5. CASE ~ \E k \in DOMAIN op.chain : op.chain[k] = i
    <3>1. blocks'[i] = r
      BY <2>1, <2>5, <1>1
    <3> QED BY <3>1, <2>1, <2>5
  <2> QED BY <2>4, <2>5
<1>3. blocks' \in [1..n -> BlockRecords]
  BY <1>1, <1>2
<1>4. blocks' \in Seq(BlockRecords) /\ Len(blocks') = n
  BY <1>1, <1>3
<1> QED BY <1>1, <1>2, <1>4

\* enqueue_bulk reuses a block.
LEMMA BulkReuseKept ==
    ASSUME CountInv, RangesApart, Control, Shapes, NEW R, NEW q, Ring(R, q), BulkReuse
    PROVE  Kept
<1>1. /\ producer = "reuse" /\ op.need > 0 /\ AheadEmpty /\ ~ FullCircle
      /\ UNCHANGED <<blocks, slotsUsed, producer>> /\ Alone
      /\ tailBlock' = Ahead /\ front' = (front + 1) % Size
      /\ indexes' = Entered(Base(tail - 1) + BlockSize * (Len(op.chain) + 1), Ahead)
      /\ op' = Chaining(op, Ahead)
  BY DEF BulkReuse, Reusable, Chain, Chaining, Alone, Still, counters, reading
<1>2. /\ op.kind = "bulk" /\ Bulk /\ Top = Ord(tail - 1) + Len(op.chain) /\ Len(op.chain) \in Nat
      /\ Marked = Ord(tail - 1) /\ Ord(tail - 1) \in Int /\ tailBlock # 0
  BY <1>1, TopIs DEF AheadEmpty
<1>3. /\ R \in [Int -> Int] /\ q \in Int /\ Sized(R) /\ Links(R, blocks, Low, Top)
      /\ Flags(R, blocks, Low, Marked) /\ Floor(Low) /\ Chained(R)
  BY DEF Ring
<1>4. /\ Low <= Top /\ Ahead = R[Low] /\ \A x \in Low..Top : R[x] \in 1..Len(blocks)
  BY <1>2, <1>3, AheadIs
<1>5. Low \in Int /\ Top \in Int /\ Len(blocks) \in Nat /\ Low = Top + 1 - Len(blocks)
  BY NumbersIs DEF CountInv
<1>6. PICK b \in 1..Len(blocks) : b = Ahead /\ b = R[Low]
  <2>1. Low \in Low..Top
    BY <1>4, <1>5
  <2> QED BY <2>1, <1>4
<1>7. Low <= Marked
  <2>1. Low <= Ord(tail - 1) + 1
    BY <1>3, LowIs
  <2>2. CASE Low = Ord(tail - 1) + 1
    <3>1. Len(op.chain) >= 1
      BY <2>2, <1>2, <1>4
    <3>2. op.chain[1] = R[Ord(tail - 1) + 1]
      <4>1. 1 \in 1..Len(op.chain)
        BY <3>1, <1>2
      <4> QED BY <4>1, <1>2, <1>3 DEF Chained
    <3>3. op.chain[1] = Ahead
      BY <3>2, <2>2, <1>4
    <3>4. op.chain # <<>>
      BY <3>1
    <3> QED BY <3>3, <3>4, <1>1 DEF FullCircle
  <2> QED BY <2>1, <2>2, <1>2, <1>5
<1>8. ChainStep(Ahead)
  <2>1. op.need \in Nat /\ Ahead \in Int /\ slotsUsed' = slotsUsed /\ producer' = "reuse"
    BY <1>1, <1>2, <1>6 DEF Bulk, Bulks
  <2> QED BY <2>1, <1>1, <1>2 DEF ChainStep
<1>9. Top' = Top + 1 /\ Marked' = Marked /\ Bulk' /\ op'.kind = "bulk"
  BY <1>8, ChainTop
<1>10. PICK S : S = [R EXCEPT ![Top + 1] = R[Low]]
  OBVIOUS
<1>11. blocks' = blocks /\ slotsUsed' = slotsUsed /\ producer' = "reuse" /\ tail' = tail /\ Size' = Size
  <2>1. front \in 0..(Size - 1)
    BY FrontIs
  <2> QED BY <2>1, <1>1, <1>6, AloneIs, EnteredSize
<1>12. SameBlocks
  BY <1>11 DEF SameBlocks
<1>13. /\ S \in [Int -> Int] /\ Low' = Low + 1 /\ Sized(S)' /\ Links(S, blocks, Low, Top)'
       /\ Cells(S, blocks, Low, Top, tail)' /\ Floor(Low)'
       /\ S[Top + 1] = R[Low] /\ \A x \in Int : x <= Top => S[x] = R[x]
  BY <1>1, <1>3, <1>7, <1>9, <1>10, <1>11, <1>12, RingReused
<1>14. Agree(R, S, Ahead) /\ Fits
  <2>1. Agree(R, S, Ahead)
    BY <1>4, <1>13 DEF Agree
  <2>2. PICK t \in Int, l \in Int, n \in Nat, m \in Nat :
          t = Top /\ l = Low /\ n = Len(blocks) /\ l = t + 1 - n /\ m = Size /\ n <= m /\ Low' = l + 1
    BY <1>3, <1>5, <1>13, CurrentIs DEF Sized
  <2>3. l + 1 \in Int /\ l <= l + 1 /\ t + 1 - (l + 1) < m
    BY <2>2
  <2> QED BY <2>1, <2>2, <2>3 DEF Fits
<1>15. /\ Shown(S, q, Current, Low, Last)' /\ Fronts(q)' /\ Reads(S, q)' /\ Size' = Size
       /\ indexes' \in Seq(Headers) /\ indexes' # <<>> /\ front' \in Int /\ Chained(S)'
  BY <1>8, <1>14, ChainRing
<1>16. Flags(S, blocks, Low, Marked)'
  <2> SUFFICES ASSUME NEW x \in (Low + 1)..Marked, NEW o \in Offsets, o \in blocks[S[x]].empty
               PROVE  Free(First(x) + o)
    BY <1>1, <1>9, <1>11, <1>13, AloneIs DEF Flags
  <2>1. PICK l \in Int, k \in Int, t \in Int : l = Low /\ k = Marked /\ t = Top /\ k <= t
    BY <1>2, <1>5
  <2>2. x \in Int /\ x <= t /\ x \in l..k
    BY <2>1
  <2>3. S[x] = R[x]
    BY <2>1, <2>2, <1>13
  <2> QED BY <2>1, <2>2, <2>3, <1>3 DEF Flags
<1>17. Ring(S, q)'
  BY <1>3, <1>13, <1>15, <1>16 DEF Ring
<1>18. Control'
  BY <1>9, <1>11 DEF Control
<1>19. Shapes'
  <2>1. tailBlock' \in Int
    BY <1>1, <1>6
  <2> QED BY <2>1, <1>11, <1>15 DEF Shapes
<1> QED BY <1>17, <1>18, <1>19 DEF Kept

\* enqueue_bulk inserts a new block.
LEMMA BulkNewKept ==
    ASSUME CountInv, RangesApart, Control, Shapes, NEW R, NEW q, Ring(R, q), BulkNew
    PROVE  Kept
<1>1. /\ producer = "new" /\ op.kind = "bulk" /\ slotsUsed # Size
      /\ producer' = IF op.need = 1 THEN "front" ELSE "new"
      /\ slotsUsed' = slotsUsed + 1 /\ Alone /\ blocks' = Inserted(Offsets)
      /\ tailBlock' = Len(blocks) + 1 /\ front' = (front + 1) % Size
      /\ indexes' = Entered(Base(tail - 1) + BlockSize * (Len(op.chain) + 1), Len(blocks) + 1)
      /\ op' = Chaining(op, Len(blocks) + 1)
  BY DEF BulkNew, Chain, Chaining, Alone, Still, counters, reading
<1>2. /\ Bulk /\ Marked = Ord(tail - 1) /\ Ord(tail - 1) \in Int
  BY <1>1, TopIs
<1>3. /\ R \in [Int -> Int] /\ q \in Int /\ Sized(R) /\ Flags(R, blocks, Low, Marked)
  BY DEF Ring
<1>5. /\ Low \in Int /\ Top \in Int /\ Len(blocks) \in Nat /\ Low = Top + 1 - Len(blocks)
      /\ Marked \in Int /\ Marked <= Top
  BY NumbersIs DEF CountInv
<1>6. slotsUsed < Size /\ slotsUsed = Len(blocks)
  <2>1. slotsUsed <= Size /\ slotsUsed = Len(blocks)
    BY <1>3 DEF Sized
  <2> QED BY <2>1, <1>1, <1>5, CurrentIs
<1>7. PICK b \in Int : b = Len(blocks) + 1
  BY <1>5
<1>8. ChainStep(b)
  <2>1. op.need \in Nat /\ op.need >= 1
    BY <1>1, <1>2 DEF Bulk, Bulks
  <2>2. (producer' = "new" => op.need >= 2) /\ (producer' = "front" => op.need = 1)
    BY <2>1, <1>1
  <2>3. producer' \in {"reuse", "new", "front"} /\ slotsUsed' \in {slotsUsed, slotsUsed + 1}
    BY <1>1
  <2> QED BY <2>1, <2>2, <2>3, <1>1, <1>7 DEF ChainStep
<1>9. Top' = Top + 1 /\ Marked' = Marked /\ Bulk' /\ op'.kind = "bulk"
  BY <1>8, ChainTop
<1>10. Size' = Size /\ tail' = tail
  <2>1. front \in 0..(Size - 1)
    BY FrontIs
  <2> QED BY <2>1, <1>1, <1>7, AloneIs, EnteredSize
<1>11. PICK S : RingWith(R, S, Offsets)
  <2>1. Inserting(Offsets)
    BY <1>1, <1>6, <1>9, <1>10 DEF Inserting
  <2> QED BY <2>1, <1>3, RingInserted
<1>12. /\ S \in [Int -> Int] /\ Low' = Low /\ Sized(S)' /\ Links(S, blocks, Low, Top)'
       /\ Cells(S, blocks, Low, Top, tail)' /\ Floor(Low)' /\ blocks' \in Seq(BlockRecords)
       /\ \A x \in Low..Top : R[x] \in 1..Len(blocks)
       /\ S[Top + 1] = b /\ \A x \in Int : x <= Top => S[x] = R[x]
       /\ \A i \in 1..Len(blocks) : blocks'[i].empty = blocks[i].empty
  BY <1>7, <1>11 DEF RingWith
<1>14. Agree(R, S, b) /\ Fits
  <2>1. Agree(R, S, b)
    BY <1>12 DEF Agree
  <2>2. PICK t \in Int, l \in Int, n \in Nat, m \in Nat :
          t = Top /\ l = Low /\ n = Len(blocks) /\ l = t + 1 - n /\ m = Size /\ n < m /\ Low' = l
    BY <1>5, <1>6, <1>12, CurrentIs
  <2>3. l \in Int /\ l <= l /\ t + 1 - l < m
    BY <2>2
  <2> QED BY <2>1, <2>2, <2>3 DEF Fits
<1>15. /\ Shown(S, q, Current, Low, Last)' /\ Fronts(q)' /\ Reads(S, q)' /\ Size' = Size
       /\ indexes' \in Seq(Headers) /\ indexes' # <<>> /\ front' \in Int /\ Chained(S)'
  BY <1>8, <1>14, ChainRing
<1>16. Flags(S, blocks, Low, Marked)'
  <2> SUFFICES ASSUME NEW x \in Low..Marked, NEW o \in Offsets, o \in blocks'[S[x]].empty
               PROVE  Free(First(x) + o)
    BY <1>1, <1>9, <1>12, AloneIs DEF Flags
  <2>1. PICK l \in Int, k \in Int, t \in Int : l = Low /\ k = Marked /\ t = Top /\ k <= t
    BY <1>5
  <2>2. x \in Int /\ x <= t /\ x \in l..t
    BY <2>1
  <2>3. S[x] = R[x] /\ R[x] \in 1..Len(blocks)
    BY <2>1, <2>2, <1>12
  <2>4. o \in blocks[R[x]].empty
    BY <2>3, <1>12
  <2> QED BY <2>4, <1>3 DEF Flags
<1>17. Ring(S, q)'
  BY <1>3, <1>12, <1>15, <1>16 DEF Ring
<1>18. Control'
  BY <1>1, <1>9 DEF Control
<1>19. Shapes'
  <2>1. tailBlock' \in Int /\ slotsUsed' \in Int
    BY <1>1, <1>7 DEF Shapes
  <2> QED BY <2>1, <1>12, <1>15 DEF Shapes
<1> QED BY <1>17, <1>18, <1>19 DEF Kept

\* enqueue_bulk clears the flags of its blocks and shows their entries.
LEMMA FrontKept ==
    ASSUME CountInv, RangesApart, Control, Shapes, NEW R, NEW q, Ring(R, q), BulkFront
    PROVE  Kept
<1>1. /\ producer = "front" /\ producer' = "publish" /\ Alone /\ UNCHANGED <<private, op>>
      /\ blocks' = [b \in DOMAIN blocks |->
                    IF \E k \in DOMAIN op.chain : op.chain[k] = b
                      THEN [blocks[b] EXCEPT !.empty = {}] ELSE blocks[b]]
      /\ indexes' = [indexes EXCEPT ![Len(indexes)].front = (front - 1) % Size]
  BY DEF BulkFront, Alone, Still, counters, reading
<1>2. /\ op.kind = "bulk" /\ Bulk /\ Marked = Ord(tail - 1) /\ Ord(tail - 1) \in Int /\ Last = Top
      /\ Top = Ord(tail - 1) + Len(op.chain) /\ Len(op.chain) \in Nat /\ op.need = 0
  BY <1>1, TopIs DEF Bulk
<1>3. /\ op' = op /\ tail' = tail /\ slotsUsed' = slotsUsed /\ tailBlock' = tailBlock /\ front' = front
      /\ \A i : Free(i)' <=> Free(i)
  BY <1>1, AloneIs DEF private
<1>4. /\ R \in [Int -> Int] /\ q \in Int /\ Sized(R) /\ Links(R, blocks, Low, Top) /\ Fronts(q)
      /\ Flags(R, blocks, Low, Marked) /\ Cells(R, blocks, Low, Top, tail) /\ Floor(Low)
      /\ Shown(R, q, Current, Low, Last) /\ Reads(R, q) /\ Chained(R)
  BY DEF Ring
<1>5. Low \in Int /\ Top \in Int /\ Len(blocks) \in Nat /\ Low = Top + 1 - Len(blocks)
  BY NumbersIs DEF CountInv
<1>6. /\ blocks' \in Seq(BlockRecords) /\ Len(blocks') = Len(blocks)
      /\ \A i \in 1..Len(blocks) :
           /\ blocks'[i].next = blocks[i].next /\ blocks'[i].cells = blocks[i].cells
           /\ blocks'[i].empty = IF \E k \in DOMAIN op.chain : op.chain[k] = i THEN {} ELSE blocks[i].empty
  BY <1>1, FrontBlocks
<1>7. Top' = Top /\ Last' = Last /\ Marked' = Top /\ Low' = Low
  <2>1. Top' = Top
    BY <1>2, <1>3 DEF Top
  <2>2. Last' = Top' /\ Marked' = Top'
    BY <1>1 DEF Last, Marked
  <2>3. Low' = Low
    BY <2>1, <1>6 DEF Low
  <2> QED BY <2>1, <2>2, <2>3, <1>2
<1>8. PICK n \in Nat, f \in Int, u \in Int : n = Size /\ n >= 1 /\ f = front /\ u = (f - 1) % n /\ f \in 0..(n - 1)
                                           /\ u = (Last + q) % n
  <2>1. PICK n \in Nat, k \in Int : n = Size /\ n >= 1 /\ k = Last
    BY <1>2, <1>5, CurrentIs
  <2>2. PICK a \in Int, d \in Int : a = k + 1 + q /\ d = 0 - 1
    BY <1>4
  <2>3. ((a % n) + d) % n = (a + d) % n /\ a % n \in 0..(n - 1)
    BY <2>1, SlotAdd
  <2>4. front = a % n
    BY <2>1, <2>2, <1>4 DEF Fronts
  <2>5. PICK f \in 0..(n - 1) : f = front
    BY <2>3, <2>4
  <2>6. a + d = k + q /\ f + d = f - 1
    BY <2>2, <2>5, <1>4
  <2>7. (f - 1) % n = (k + q) % n
    BY <2>3, <2>4, <2>5, <2>6
  <2>8. PICK z \in Int : z = f - 1
    BY <2>5
  <2>9. z % n \in Int
    BY <2>1
  <2> QED BY <2>1, <2>5, <2>7, <2>8, <2>9
<1>9. PICK g \in Headers : /\ g = [Current EXCEPT !.front = u] /\ g.size = Current.size /\ g.front = u
                           /\ g.entries = Current.entries
  BY CurrentIs, FrontSet
<1>10. indexes' = LastTo(g)
  <2>1. PICK m \in Nat : m = Len(indexes) /\ m >= 1 /\ m \in DOMAIN indexes
    <3>1. Len(indexes) \in DOMAIN indexes /\ Len(indexes) \in Nat /\ Len(indexes) >= 1
      BY CurrentIs, LenProperties
    <3> QED BY <3>1
  <2>2. LastTo(g) = [indexes EXCEPT ![m] = g] /\ Current = indexes[m]
    BY <2>1 DEF LastTo, Current
  <2>3. indexes' = [indexes EXCEPT ![m].front = u]
    BY <2>1, <1>1, <1>8
  <2> QED BY <2>1, <2>2, <2>3, <1>9
<1>11. /\ indexes' \in Seq(Headers) /\ Len(indexes') = Len(indexes) /\ indexes' # <<>>
       /\ Current' = g /\ Size' = Size
       /\ \A k \in 1..(Len(indexes) - 1) : indexes'[k] = indexes[k]
  <2>1. /\ LastTo(g) \in Seq(Headers) /\ Len(LastTo(g)) = Len(indexes)
        /\ LastTo(g)[Len(indexes)] = g /\ LastTo(g) # <<>>
        /\ \A k \in 1..(Len(indexes) - 1) : LastTo(g)[k] = indexes[k]
    BY LastSet
  <2>2. Current' = g
    BY <2>1, <1>10 DEF Current
  <2>3. Size' = Size
    BY <2>1, <1>9, <1>10 DEF Size, Current
  <2> QED BY <2>1, <2>2, <2>3, <1>10
<1>12. Sized(R)'
  BY <1>1, <1>3, <1>4, <1>6, <1>7, <1>11 DEF Sized
<1>13. Links(R, blocks, Low, Top)'
  <2>0. PICK l \in Int, t \in Int : l = Low /\ t = Top
    BY <1>5
  <2>1. PICK new : new = blocks'
    OBVIOUS
  <2>2. Links(R, blocks, l, t)
    BY <2>0, <1>4
  <2>3. Len(new) = Len(blocks) /\ \A i \in 1..Len(blocks) : new[i].next = blocks[i].next
    BY <2>1, <1>6
  <2>4. Links(R, new, l, t)
    BY <2>2, <2>3, LinksKept
  <2> QED BY <2>0, <2>1, <2>4, <1>7
<1>14. Shown(R, q, Current, Low, Last)'
  <2>1. Shown(R, q, g, Low, Last)
    BY <1>4, <1>9 DEF Shown
  <2> QED BY <2>1, <1>7, <1>11
<1>15. Fronts(q)'
  <2>1. Current'.front = (Last' + q) % Size'
    BY <1>7, <1>8, <1>9, <1>11
  <2>2. front' = (Last' + 1 + q) % Size'
    BY <1>3, <1>4, <1>7, <1>11 DEF Fronts
  <2>3. Last' \in Ord(tail' - 1)..Last'
    BY <1>2, <1>3, <1>5, <1>7
  <2> QED BY <2>1, <2>2, <2>3 DEF Fronts
<1>16. \A x \in Low..Top : R[x] \in 1..Len(blocks)
  BY <1>4 DEF Links, Linked
<1>17. Cells(R, blocks, Low, Top, tail)'
  <2> SUFFICES ASSUME NEW x \in Low..Top, NEW o \in Offsets, First(x) + o < tail
               PROVE  blocks'[R[x]].cells[o] = First(x) + o + 1
    BY <1>3, <1>7 DEF Cells
  <2>1. blocks[R[x]].cells[o] = First(x) + o + 1
    BY <1>4 DEF Cells
  <2>2. R[x] \in 1..Len(blocks)
    BY <1>16
  <2>3. blocks'[R[x]].cells = blocks[R[x]].cells
    BY <2>2, <1>6
  <2> QED BY <2>1, <2>3
<1>18. Flags(R, blocks, Low, Marked)'
  <2> SUFFICES ASSUME NEW x \in Low..Top, NEW o \in Offsets, o \in blocks'[R[x]].empty
               PROVE  Free(First(x) + o)
    BY <1>3, <1>7 DEF Flags
  <2>1. R[x] \in 1..Len(blocks)
    BY <1>16
  <2>2. ~ \E k \in DOMAIN op.chain : op.chain[k] = R[x]
    BY <2>1, <1>6
  <2>3. o \in blocks[R[x]].empty
    BY <2>1, <1>6
  <2>4. x \in Low..Marked
    <3>1. PICK l \in Int, k \in Int, m \in Nat : l = Low /\ k = Ord(tail - 1) /\ m = Len(op.chain) /\ x \in l..(k + m)
      BY <1>2, <1>5
    <3>2. CASE x <= k
      BY <3>1, <3>2, <1>2
    <3>3. CASE x > k
      <4>1. PICK j \in Int : j = x - k
        BY <3>1
      <4>2. j \in 1..m /\ k + j = x
        BY <4>1, <3>1, <3>3
      <4>3. op.chain[j] = R[x]
        BY <4>2, <3>1, <1>2, <1>4 DEF Chained
      <4>4. j \in DOMAIN op.chain
        BY <4>2, <3>1, <1>2, LenProperties DEF Bulk, Bulks
      <4> QED BY <4>3, <4>4, <2>2
    <3> QED BY <3>1, <3>2, <3>3
  <2> QED BY <2>3, <2>4, <1>4 DEF Flags
<1>19. Floor(Low)'
  BY <1>3, <1>4, <1>7 DEF Floor
<1>20. Reads(R, q)'
  <2>1. Last \in Int /\ Last' \in Int /\ Last <= Last'
    BY <1>2, <1>5, <1>7
  <2>2. \A x \in Int : x <= Ord(tail - 1) => R[x] = R[x]
    OBVIOUS
  <2> QED BY <2>1, <2>2, <1>1, <1>4, <1>11, ReadsKept DEF Alone
<1>21. Chained(R)'
  BY <1>3, <1>4 DEF Chained
<1>22. Ring(R, q)'
  BY <1>4, <1>12, <1>13, <1>14, <1>15, <1>17, <1>18, <1>19, <1>20, <1>21 DEF Ring
<1>23. Bulk'
  BY <1>1, <1>2, <1>3 DEF Bulk
<1>24. Control' /\ Shapes'
  BY <1>1, <1>3, <1>6, <1>11, <1>23 DEF Control, Shapes
<1> QED BY <1>22, <1>24 DEF Kept

-----------------------------------------------------------------------------
\* What Filled makes of the blocks.
LEMMA FilledIs ==
    ASSUME NEW bl \in Seq(BlockRecords), NEW place, NEW first \in Int, NEW last \in Int,
           NEW new, new = Filled(bl, place, first, last)
    PROVE  /\ new \in Seq(BlockRecords) /\ Len(new) = Len(bl)
           /\ \A b \in 1..Len(bl) :
                /\ new[b].next = bl[b].next /\ new[b].empty = bl[b].empty
                /\ \A o \in Offsets :
                     /\ (\A i \in first..last : ~ (place[i] = b /\ i % BlockSize = o)) =>
                          new[b].cells[o] = bl[b].cells[o]
                     /\ \A j \in first..last :
                          /\ place[j] = b /\ j % BlockSize = o
                          /\ \A i \in first..last : place[i] = b /\ i % BlockSize = o => i = j
                          => new[b].cells[o] = 1 + j
<1>1. PICK n \in Nat : n = Len(bl) /\ DOMAIN bl = 1..n /\ bl \in [1..n -> BlockRecords]
  BY LenProperties
<1> DEFINE Here(b, o) == { i \in first..last : place[i] = b /\ i % BlockSize = o }
           Cell(b, o) == IF Here(b, o) = {} THEN bl[b].cells[o] ELSE 1 + CHOOSE i \in Here(b, o) : TRUE
<1>2. DOMAIN new = 1..n /\ \A b \in 1..n : new[b] = [bl[b] EXCEPT !.cells = [o \in Offsets |-> Cell(b, o)]]
  BY <1>1 DEF Filled
<1>3. ASSUME NEW b \in 1..n
      PROVE  /\ new[b] \in BlockRecords /\ new[b].next = bl[b].next /\ new[b].empty = bl[b].empty
             /\ new[b].cells = [o \in Offsets |-> Cell(b, o)]
  <2>1. PICK r \in BlockRecords : r = bl[b]
    BY <1>1
  <2>2. r.cells \in [Offsets -> Int]
    BY <2>1 DEF BlockRecords
  <2>3. \A o \in Offsets : Cell(b, o) \in Int
    <3> TAKE o \in Offsets
    <3>1. CASE Here(b, o) = {}
      BY <3>1, <2>1, <2>2
    <3>2. CASE Here(b, o) # {}
      <4>1. (CHOOSE i \in Here(b, o) : TRUE) \in Here(b, o)
        BY <3>2
      <4>2. PICK w \in Int : w = CHOOSE i \in Here(b, o) : TRUE
        BY <4>1
      <4> HIDE DEF Here
      <4>3. Cell(b, o) = 1 + w
        BY <4>2, <3>2
      <4> QED BY <4>2, <4>3
    <3> QED BY <3>1, <3>2
  <2> HIDE DEF Cell
  <2>4. PICK s \in [Offsets -> Int] : s = [o \in Offsets |-> Cell(b, o)]
    BY <2>3
  <2>5. PICK w : w = [r EXCEPT !.cells = s]
    OBVIOUS
  <2>6. w \in BlockRecords /\ w.next = r.next /\ w.empty = r.empty /\ w.cells = s
    BY <2>5 DEF BlockRecords
  <2>7. new[b] = w
    BY <1>2, <2>1, <2>4, <2>5
  <2> QED BY <2>1, <2>4, <2>6, <2>7
<1>4. new = [b \in 1..n |-> new[b]]
  BY <1>1 DEF Filled
<1>5. new \in Seq(BlockRecords) /\ Len(new) = n
  <2> HIDE DEF Cell
  <2>1. \A b \in 1..n : new[b] \in BlockRecords
    BY <1>3
  <2>2. new \in [1..n -> BlockRecords]
    BY <1>4, <2>1
  <2> QED BY <2>2
<1>6. ASSUME NEW b \in 1..n, NEW o \in Offsets
      PROVE  /\ (\A i \in first..last : ~ (place[i] = b /\ i % BlockSize = o)) =>
                          new[b].cells[o] = bl[b].cells[o]
             /\ \A j \in first..last :
                          /\ place[j] = b /\ j % BlockSize = o
                          /\ \A i \in first..last : place[i] = b /\ i % BlockSize = o => i = j
                          => new[b].cells[o] = 1 + j
  <2>1. new[b].cells[o] = Cell(b, o)
    <3> HIDE DEF Cell
    <3> QED BY <1>3
  <2>2. ASSUME \A i \in first..last : ~ (place[i] = b /\ i % BlockSize = o)
        PROVE  new[b].cells[o] = bl[b].cells[o]
    BY <2>1, <2>2
  <2>3. ASSUME NEW j \in first..last, place[j] = b /\ j % BlockSize = o,
               \A i \in first..last : place[i] = b /\ i % BlockSize = o => i = j
        PROVE  new[b].cells[o] = 1 + j
    <3>1. Here(b, o) = {j}
      BY <2>3
    <3>2. (CHOOSE i \in {j} : TRUE) = j
      OBVIOUS
    <3> HIDE DEF Here
    <3>3. Cell(b, o) = 1 + j
      BY <3>1, <3>2
    <3> QED BY <3>3, <2>1
  <2> QED BY <2>2, <2>3
<1> QED BY <1>1, <1>3, <1>5, <1>6

\* An item goes to the block of its number.
LEMMA BlockForIs ==
    ASSUME CountInv, Control, Shapes, NEW R, NEW q, Ring(R, q), producer = "publish",
           NEW i \in tail..(tail + op.n - 1)
    PROVE  /\ Ord(i) \in Low..Top /\ BlockFor(i) = R[Ord(i)]
<1>1. PICK t \in Nat, n \in Nat : t = tail /\ n = op.n /\ n >= 1
  <2>1. tail \in Nat
    BY TopIs
  <2>2. op.n \in Nat /\ op.n >= 1
    <3>1. \/ op = NoOp /\ op.kind = "none" /\ producer = "idle"
          \/ op = One /\ op.kind = "one" /\ op.n = 1 /\ producer \in {"new", "entry", "publish"}
          \/ op.kind = "bulk" /\ Bulk /\ producer \in {"reuse", "new", "front", "publish"}
      BY OpIs DEF CountInv
    <3>2. Bulk => op.n \in Nat \ {0}
      BY DEF Bulk, Bulks
    <3> QED BY <3>1, <3>2
  <2> QED BY <2>1, <2>2
<1>2. i \in Int /\ t <= i /\ i <= t + n - 1
  BY <1>1
<1>3. Sized(R) /\ Chained(R) /\ Floor(Low)
  BY DEF Ring
<1>4. Low <= Ord(t) /\ Low \in Int /\ Top \in Int
  BY <1>1, <1>3, LowIs, NumbersIs DEF CountInv
<1>5. Ord(t) <= Ord(i) /\ Ord(t) \in Int /\ Ord(i) \in Int /\ Ord(i) <= Ord(t + n - 1) /\ Ord(t + n - 1) \in Int
  BY <1>1, <1>2, OrdMono
<1>6. CASE op.kind # "bulk"
  <2>1. op.kind = "one" /\ op.n = 1 /\ Top = Ord(t)
    BY <1>1, <1>6, TopIs, OpKinds
  <2>2. i = t
    BY <2>1, <1>1, <1>2
  <2>3. tailBlock = R[Top]
    <3>1. t = 0 => Ord(t - 1) = -1
      BY <1>1, NextOrd
    <3>2. Top # -1
      <4>1. First(0) = 0 /\ (First(0) <= t <=> 0 <= Ord(t))
        BY FirstIs, OrdAt
      <4> QED BY <4>1, <2>1, <1>1, <1>5
    <3> QED BY <3>2, <1>3 DEF Sized
  <2>4. BlockFor(i) = tailBlock
    BY <2>1 DEF BlockFor
  <2> QED BY <2>1, <2>2, <2>3, <2>4, <1>4, <1>5
<1>7. CASE op.kind = "bulk"
  <2>1. Bulk /\ Top = Ord(t - 1) + Len(op.chain) /\ Len(op.chain) \in Nat /\ op.need = 0 /\ Ord(t - 1) \in Int
    <3>1. Bulk /\ Top = Ord(tail - 1) + Len(op.chain) /\ Len(op.chain) \in Nat /\ Ord(tail - 1) \in Int
      BY <1>7, TopIs
    <3>2. op.need = 0
      BY <3>1 DEF Bulk
    <3> QED BY <3>1, <3>2, <1>1
  <2>2. Top = Ord(t + n - 1)
    <3>1. 0 + Len(op.chain) = Ord(t + n - 1) - Ord(t - 1)
      BY <2>1, <1>1 DEF Bulk
    <3>2. PICK a \in Int, b \in Int, m \in Nat : a = Ord(t - 1) /\ b = Ord(t + n - 1) /\ m = Len(op.chain)
      BY <2>1, <1>5
    <3> QED BY <3>1, <3>2, <2>1
  <2>3. PICK k \in Nat : k = i - t + 1 /\ k >= 1 /\ t + k - 1 = i
    BY <1>2
  <2>4. (Base(i) - Base(t - 1)) \div BlockSize = Ord(i) - Ord(t - 1) /\ Ord(i) - Ord(t - 1) \in Nat
    <3>1. /\ (Base(tail + k - 1) - Base(tail - 1)) \div BlockSize = Ord(tail + k - 1) - Ord(tail - 1)
          /\ Ord(tail + k - 1) - Ord(tail - 1) \in Nat
      BY <2>3, NeedIs
    <3> QED BY <3>1, <2>3, <1>1
  <2>5. PICK h \in Nat : h = Ord(i) - Ord(t - 1) /\ h <= Len(op.chain)
    BY <2>1, <2>2, <2>4, <1>5
  <2>6. BlockFor(i) = IF h = 0 THEN op.start ELSE op.chain[h]
    BY <2>4, <2>5, <1>1, <1>7 DEF BlockFor
  <2>7. Ord(i) \in Low..Top
    BY <2>2, <1>4, <1>5
  <2>8. CASE h = 0
    <3>1. Ord(t - 1) = IF t % BlockSize = 0 THEN Ord(t) - 1 ELSE Ord(t)
      BY <1>1, NextOrd
    <3>2. t % BlockSize # 0
      BY <3>1, <2>1, <2>5, <2>8, <1>5
    <3>3. op.start = R[Ord(t - 1)]
      BY <3>2, <1>1, <1>3, <1>7 DEF Chained
    <3>4. Ord(i) = Ord(t - 1)
      BY <2>1, <2>5, <2>8, <1>5
    <3> QED BY <3>3, <3>4, <2>6, <2>7, <2>8
  <2>9. CASE h # 0
    <3>1. h \in 1..Len(op.chain)
      BY <2>1, <2>5, <2>9
    <3>2. op.chain[h] = R[Ord(t - 1) + h]
      BY <3>1, <1>1, <1>3, <1>7 DEF Chained
    <3>3. Ord(t - 1) + h = Ord(i)
      BY <2>1, <2>5, <1>5
    <3> QED BY <3>2, <3>3, <2>6, <2>7, <2>9
  <2> QED BY <2>8, <2>9
<1> QED BY <1>6, <1>7

-----------------------------------------------------------------------------
\* Each item published is in the block of its number, and no other has changed.
LEMMA PublishedCells ==
    ASSUME CountInv, Control, Shapes, NEW R, NEW q, Ring(R, q), producer = "publish",
           NEW n \in Nat, n = op.n, n >= 1, Publish
    PROVE  /\ blocks' \in Seq(BlockRecords) /\ Len(blocks') = Len(blocks)
           /\ \A i \in 1..Len(blocks) : /\ blocks'[i].next = blocks[i].next
                                        /\ blocks'[i].empty = blocks[i].empty
           /\ \A x \in Low..Top, o \in Offsets :
                First(x) + o < tail + n => blocks'[R[x]].cells[o] = First(x) + o + 1
<1>1. PICK t \in Nat, last \in Int : t = tail /\ last = t + n - 1
  <2>1. tail \in Nat
    BY TopIs
  <2> QED BY <2>1
<1>2. PICK place : place = [i \in t..last |-> BlockFor(i)]
  OBVIOUS
<1>3. PICK bl \in Seq(BlockRecords) : bl = blocks
  BY DEF Shapes
<1>4. PICK new : new = blocks' /\ new = Filled(bl, place, t, last)
  BY <1>1, <1>2, <1>3 DEF Publish
<1>5. /\ new \in Seq(BlockRecords) /\ Len(new) = Len(bl)
      /\ \A b \in 1..Len(bl) :
           /\ new[b].next = bl[b].next /\ new[b].empty = bl[b].empty
           /\ \A o \in Offsets :
                     /\ (\A i \in t..last : ~ (place[i] = b /\ i % BlockSize = o)) =>
                          new[b].cells[o] = bl[b].cells[o]
                     /\ \A j \in t..last :
                          /\ place[j] = b /\ j % BlockSize = o
                          /\ \A i \in t..last : place[i] = b /\ i % BlockSize = o => i = j
                          => new[b].cells[o] = 1 + j
  BY <1>4, FilledIs
<1>6. \A i \in t..last : Ord(i) \in Low..Top /\ place[i] = R[Ord(i)]
  <2> TAKE i \in t..last
  <2>1. i \in tail..(tail + op.n - 1)
    BY <1>1
  <2>2. Ord(i) \in Low..Top /\ BlockFor(i) = R[Ord(i)]
    BY <2>1, BlockForIs
  <2> QED BY <2>2, <1>2
<1>7. Apart(R, Low, Top) /\ \A x \in Low..Top : R[x] \in 1..Len(bl)
  BY <1>3 DEF Ring, Links, Linked
<1>8. ASSUME NEW x \in Low..Top, NEW o \in Offsets, NEW i \in t..last, place[i] = R[x], i % BlockSize = o
      PROVE  i = First(x) + o
  <2>1. Ord(i) = x
    BY <1>6, <1>7, <1>8 DEF Apart
  <2>2. i \in Int
    OBVIOUS
  <2>3. \E y \in Int, p \in Offsets :
             /\ y = Ord(i) /\ p = i % BlockSize
             /\ i = First(y) + p /\ Base(i) = First(y)
    BY <2>2, OrdIs
  <2> QED BY <2>1, <2>3, <1>8
<1>9. ASSUME NEW x \in Low..Top, NEW o \in Offsets, First(x) + o < t + n
      PROVE  new[R[x]].cells[o] = First(x) + o + 1
  <2>1. x \in Int /\ R[x] \in 1..Len(bl)
    BY <1>7
  <2>2. PICK j \in Int : j = First(x) + o /\ Ord(j) = x /\ j % BlockSize = o
    BY <2>1, OrdOf
  <2>3. CASE j < t
    <3>1. \A i \in t..last : ~ (place[i] = R[x] /\ i % BlockSize = o)
      BY <2>2, <2>3, <1>8
    <3>2. new[R[x]].cells[o] = bl[R[x]].cells[o]
      BY <3>1, <2>1, <1>5
    <3>3. Cells(R, blocks, Low, Top, tail)
      BY DEF Ring
    <3>4. bl[R[x]].cells[o] = First(x) + o + 1
      BY <3>3, <2>2, <2>3, <1>1, <1>3 DEF Cells
    <3> QED BY <3>2, <3>4
  <2>4. CASE j >= t
    <3>1. j \in t..last
      BY <2>2, <2>4, <1>1, <1>9
    <3>2. place[j] = R[x]
      BY <3>1, <2>2, <1>6
    <3>3. \A i \in t..last : place[i] = R[x] /\ i % BlockSize = o => i = j
      BY <2>2, <1>8
    <3>4. new[R[x]].cells[o] = 1 + j
      BY <3>1, <3>2, <3>3, <2>1, <2>2, <1>5
    <3> QED BY <3>4, <2>2
  <2> QED BY <2>2, <2>3, <2>4, <1>1
<1>10. \A i \in 1..Len(blocks) : blocks'[i].next = blocks[i].next /\ blocks'[i].empty = blocks[i].empty
  BY <1>3, <1>4, <1>5
<1>11. blocks' \in Seq(BlockRecords) /\ Len(blocks') = Len(blocks)
  BY <1>3, <1>4, <1>5
<1>12. \A x \in Low..Top, o \in Offsets : First(x) + o < tail + n => blocks'[R[x]].cells[o] = First(x) + o + 1
  BY <1>1, <1>4, <1>9
<1> QED BY <1>10, <1>11, <1>12

\* The items are written and the tail shows them.
LEMMA PublishKept ==
    ASSUME CountInv, RangesApart, Control, Shapes, NEW R, NEW q, Ring(R, q), Publish
    PROVE  Kept /\ tail' > tail /\ tail' \in Nat
<1>1. /\ producer = "publish" /\ producer' = "idle" /\ op' = NoOp /\ Still
      /\ UNCHANGED <<indexes, private>> /\ tail' = tail + op.n
  BY DEF Publish, Still, reading
<1>2. PICK t \in Nat, n \in Nat : t = tail /\ n = op.n /\ n >= 1
  <2>1. tail \in Nat
    BY TopIs
  <2>2. op.n \in Nat /\ op.n >= 1
    <3>1. \/ op = NoOp /\ op.kind = "none" /\ producer = "idle"
          \/ op = One /\ op.kind = "one" /\ op.n = 1 /\ producer \in {"new", "entry", "publish"}
          \/ op.kind = "bulk" /\ Bulk /\ producer \in {"reuse", "new", "front", "publish"}
      BY OpIs DEF CountInv
    <3>2. Bulk => op.n \in Nat \ {0}
      BY DEF Bulk, Bulks
    <3> QED BY <3>1, <3>2, <1>1
  <2> QED BY <2>1, <2>2
<1>3. /\ blocks' \in Seq(BlockRecords) /\ Len(blocks') = Len(blocks)
      /\ \A i \in 1..Len(blocks) : blocks'[i].next = blocks[i].next /\ blocks'[i].empty = blocks[i].empty
      /\ \A x \in Low..Top, o \in Offsets :
           First(x) + o < tail + n => blocks'[R[x]].cells[o] = First(x) + o + 1
  BY <1>1, <1>2, PublishedCells
<1>4. /\ R \in [Int -> Int] /\ q \in Int /\ Sized(R) /\ Links(R, blocks, Low, Top) /\ Fronts(q)
      /\ Flags(R, blocks, Low, Marked) /\ Floor(Low)
      /\ Shown(R, q, Current, Low, Last) /\ Reads(R, q)
  BY DEF Ring
<1>5. Low \in Int /\ Top \in Int /\ Len(blocks) \in Nat /\ Low = Top + 1 - Len(blocks)
  BY NumbersIs DEF CountInv
<1>6. Last = Top /\ Marked = Top /\ Top = Ord(t + n - 1)
  <2>1. CASE op.kind = "bulk"
    <3>1. Bulk /\ Top = Ord(t - 1) + Len(op.chain) /\ Len(op.chain) \in Nat /\ Ord(t - 1) \in Int
          /\ Last = Top /\ Marked = Top
      BY <2>1, <1>1, <1>2, TopIs
    <3>2. op.need = 0
      BY <3>1, <1>1 DEF Bulk
    <3>3. 0 + Len(op.chain) = Ord(t + n - 1) - Ord(t - 1)
      BY <3>1, <3>2, <1>2 DEF Bulk
    <3>4. Ord(t + n - 1) \in Int
      BY OrdAt
    <3>5. PICK a \in Int, b \in Int, m \in Nat : a = Ord(t - 1) /\ b = Ord(t + n - 1) /\ m = Len(op.chain)
      BY <3>1, <3>4
    <3> QED BY <3>1, <3>3, <3>5
  <2>2. CASE op.kind # "bulk"
    <3>1. op = One /\ Top = Ord(t) /\ Last = Top /\ Marked = Top
      BY <2>2, <1>1, <1>2, TopIs
    <3>2. n = 1 /\ t + n - 1 = t
      BY <3>1, <1>2, OpKinds
    <3> QED BY <3>1, <3>2
  <2> QED BY <2>1, <2>2
<1>7. op'.kind = "none" /\ tail' = t + n
  BY <1>1, <1>2, OpKinds
<1>8. Top' = Top /\ Last' = Top /\ Marked' = Top /\ Low' = Low /\ Ord(tail' - 1) = Top
  <2>1. Top' = Top /\ Ord(tail' - 1) = Top
    BY <1>1, <1>6, <1>7 DEF Top
  <2>2. Last' = Top' /\ Marked' = Top'
    BY <1>1, <1>7 DEF Last, Marked
  <2>3. Low' = Low
    BY <2>1, <1>3 DEF Low
  <2> QED BY <2>1, <2>2, <2>3
<1>9. Current' = Current /\ Size' = Size /\ indexes' = indexes /\ front' = front
      /\ slotsUsed' = slotsUsed /\ tailBlock' = tailBlock
  BY <1>1 DEF Current, Size, private
<1>10. Sized(R)'
  BY <1>1, <1>3, <1>4, <1>8, <1>9 DEF Sized
<1>11. Links(R, blocks, Low, Top)'
  <2>0. PICK l \in Int, k \in Int : l = Low /\ k = Top
    BY <1>5
  <2>1. PICK new : new = blocks'
    OBVIOUS
  <2>2. Links(R, blocks, l, k)
    BY <2>0, <1>4
  <2>3. Len(new) = Len(blocks) /\ \A i \in 1..Len(blocks) : new[i].next = blocks[i].next
    BY <2>1, <1>3
  <2>4. Links(R, new, l, k)
    BY <2>2, <2>3, LinksKept
  <2> QED BY <2>0, <2>1, <2>4, <1>8
<1>12. Shown(R, q, Current, Low, Last)'
  BY <1>4, <1>6, <1>8, <1>9
<1>13. Fronts(q)'
  <2>1. front' = (Last' + 1 + q) % Size' /\ Current'.front = (Last' + q) % Size'
    BY <1>1, <1>4, <1>6, <1>8, <1>9 DEF Fronts
  <2>2. Last' \in Ord(tail' - 1)..Last'
    BY <1>5, <1>8
  <2> QED BY <2>1, <2>2 DEF Fronts
<1>14. Cells(R, blocks, Low, Top, tail)'
  BY <1>3, <1>7, <1>8, <1>2 DEF Cells
<1>15. \A x \in Low..Top : R[x] \in 1..Len(blocks)
  BY <1>4 DEF Links, Linked
<1>16. Flags(R, blocks, Low, Marked)'
  <2> SUFFICES ASSUME NEW x \in Low..Top, NEW o \in Offsets, o \in blocks'[R[x]].empty
               PROVE  Free(First(x) + o)
    BY <1>1, <1>8, StillIs DEF Flags
  <2>1. o \in blocks[R[x]].empty
    BY <1>3, <1>15
  <2> QED BY <2>1, <1>4, <1>6 DEF Flags
<1>17. Floor(Low)'
  BY <1>1, <1>4, <1>8, StillIs DEF Floor
<1>18. Reads(R, q)'
  <2>1. Last \in Int /\ Last' \in Int /\ Last <= Last'
    BY <1>5, <1>6, <1>8
  <2>2. \A x \in Int : x <= Ord(tail - 1) => R[x] = R[x]
    OBVIOUS
  <2>3. Len(indexes') = Len(indexes) /\ Size' = Size /\ \A k \in 1..(Len(indexes) - 1) : indexes'[k] = indexes[k]
    BY <1>9
  <2> QED BY <2>1, <2>2, <2>3, <1>1, <1>4, ReadsKept
<1>19. Chained(R)'
  BY <1>7 DEF Chained
<1>20. Ring(R, q)'
  BY <1>4, <1>10, <1>11, <1>12, <1>13, <1>14, <1>16, <1>17, <1>18, <1>19 DEF Ring
<1>21. Control'
  BY <1>1 DEF Control
<1>22. Shapes'
  BY <1>3, <1>9 DEF Shapes
<1>23. tail' > tail /\ tail' \in Nat
  BY <1>2, <1>7
<1> QED BY <1>20, <1>21, <1>22, <1>23 DEF Kept

-----------------------------------------------------------------------------
\* The items of one block that a consumer has claimed.
LEMMA EndIs ==
    ASSUME CountInv, RangesApart, NEW c \in Busy
    PROVE  \E a \in Nat, b \in Nat, e \in Nat, h \in Nat, t \in Nat :
             /\ a = local[c].next /\ b = local[c].stop /\ e = End(c) /\ h = head /\ t = tail
             /\ a < e /\ e <= b /\ b <= h /\ h <= t /\ InBlock(c) = a..(e - 1)
             /\ Base(a) = First(Ord(a)) /\ \A i \in a..(e - 1) : Ord(i) = Ord(a)
<1>1. PICK a \in Nat, b \in Nat, h \in Nat, t \in Nat :
         a = local[c].next /\ b = local[c].stop /\ h = head /\ t = tail /\ a < b /\ b <= h /\ h <= t
  <2>1. local[c].next \in Int /\ local[c].stop \in Int
    BY DEF Busy, CountInv, CountTypes, Locals
  <2>2. 0 <= local[c].next /\ local[c].next < local[c].stop /\ local[c].stop <= head
    BY DEF RangesApart
  <2>3. head <= tail /\ head \in Nat /\ tail \in Nat
    BY CountHeads
  <2>4. local[c].next \in Nat /\ local[c].stop \in Nat
    BY <2>1, <2>2, <2>3
  <2> QED BY <2>2, <2>3, <2>4
<1>2. PICK x \in Int, o \in Offsets : x = Ord(a) /\ a = First(x) + o /\ Base(a) = First(x)
  <2>1. a \in Int
    OBVIOUS
  <2> QED BY <2>1, OrdIs
<1>3. PICK f \in Int, k \in Nat : f = First(x) /\ k = BlockSize /\ k >= 2 /\ a < f + k /\ f <= a
  <2>1. First(x) \in Int
    BY FirstIs
  <2>2. o \in Int /\ o >= 0 /\ o < BlockSize
    BY SizeIs
  <2> QED BY <2>1, <2>2, <1>2, SizeIs
<1>4. PICK e \in Nat : e = End(c) /\ e = IF f + k < b THEN f + k ELSE b
  <2>1. End(c) = IF f + k < b THEN f + k ELSE b
    BY <1>1, <1>2, <1>3 DEF End
  <2>2. (IF f + k < b THEN f + k ELSE b) \in Nat
    BY <1>3
  <2> QED BY <2>1, <2>2
<1>5. a < e /\ e <= b /\ e <= f + k
  BY <1>1, <1>3, <1>4
<1>6. ASSUME NEW i \in a..(e - 1) PROVE Ord(i) = x
  <2>1. i \in Int /\ a <= i /\ i < f + k
    BY <1>3, <1>5
  <2>2. x <= Ord(i) /\ Ord(i) \in Int
    BY <2>1, <1>2, OrdMono
  <2>3. First(x + 1) = f + k
    BY <1>3, FirstIs
  <2>4. First(x + 1) <= i <=> x + 1 <= Ord(i)
    BY <2>1, OrdAt
  <2> QED BY <2>1, <2>2, <2>3, <2>4, <1>3
<1>7. InBlock(c) = a..(e - 1)
  BY <1>1, <1>4 DEF InBlock
<1> QED BY <1>1, <1>2, <1>4, <1>5, <1>6, <1>7

\* What a consumer finds is the block of its next item.
LEMMA BlockOfIs ==
    ASSUME CountInv, RangesApart, Control, Shapes, NEW R, NEW q, Ring(R, q),
           NEW c \in Busy, consumer[c] # "index"
    PROVE  /\ BlockOf(c) = R[Ord(local[c].next)] /\ Ord(local[c].next) \in Low..Top
           /\ R[Ord(local[c].next)] \in 1..Len(blocks)
<1>1. /\ R \in [Int -> Int] /\ q \in Int /\ Links(R, blocks, Low, Top)
      /\ Shown(R, q, Current, Low, Last) /\ Reads(R, q) /\ Floor(Low)
  BY DEF Ring
<1>2. PICK a \in Int, b \in Int, l \in Int, m \in Int, t \in Int :
         /\ a = Ord(local[c].next) /\ b = Ord(local[c].stop - 1) /\ l = Low /\ m = Last /\ t = Top
         /\ l <= a /\ a <= b /\ b <= m /\ m <= t
  <2>1. /\ Ord(local[c].next) \in Int /\ Ord(local[c].stop - 1) \in Int
        /\ Low <= Ord(local[c].next) /\ Ord(local[c].next) <= Ord(local[c].stop - 1)
        /\ Ord(local[c].stop - 1) <= Ord(tail - 1)
    BY <1>1, WantedIs
  <2>2. Low \in Int /\ Last \in Int /\ Top \in Int /\ Ord(tail - 1) \in Int /\ Ord(tail - 1) <= Last /\ Last <= Top
    BY NumbersIs DEF CountInv
  <2> QED BY <2>1, <2>2
<1>3. PICK hd, s : hd = local[c].header /\ s = local[c].slot
  OBVIOUS
<1>4. Found(indexes[hd], s, a) = R[a]
  <2>1. CASE hd = Len(indexes)
    <3>1. ReadsNew(q, c)
      BY <2>1, <1>1, <1>3 DEF Reads
    <3>2. PICK y \in b..m : s = (y + q) % Size
      BY <3>1, <1>2, <1>3 DEF ReadsNew
    <3>3. PICK h \in Headers : h = Current /\ h = indexes[hd] /\ Size = h.size
      BY <2>1, CurrentIs
    <3>4. Shown(R, q, h, l, m)
      BY <3>3, <1>1, <1>2
    <3>5. a \in l..m /\ y \in l..m
      BY <1>2
    <3>6. s = (y + q) % h.size
      BY <3>2, <3>3
    <3>7. Found(h, s, a) = R[a]
      BY <3>4, <3>5, <3>6, <1>1, FoundIs
    <3> QED BY <3>3, <3>7
  <2>2. CASE hd # Len(indexes)
    <3>1. ReadsOld(R, c)
      BY <2>2, <1>1, <1>3 DEF Reads
    <3>2. a \in a..b
      BY <1>2
    <3> QED BY <3>1, <3>2, <1>2, <1>3 DEF ReadsOld
  <2> QED BY <2>1, <2>2
<1>5. Base(local[c].next) = First(a)
  BY <1>2, EndIs
<1>6. BlockOf(c) = Found(indexes[hd], s, a)
  BY <1>3, <1>5 DEF BlockOf, Found
<1>7. a \in Low..Top
  BY <1>2
<1>8. R[a] \in 1..Len(blocks)
  BY <1>1, <1>7 DEF Links, Linked
<1> QED BY <1>2, <1>4, <1>6, <1>7, <1>8

\* It copies the items that were enqueued there.
LEMMA CopiedIs ==
    ASSUME CountInv, RangesApart, Control, Shapes, NEW R, NEW q, Ring(R, q),
           NEW c \in Busy, consumer[c] # "index", NEW i \in InBlock(c)
    PROVE  /\ BlockOf(c) # 0 /\ blocks[BlockOf(c)].cells[i % BlockSize] = i + 1
           /\ i \in Nat /\ i < head /\ local[c].next <= i /\ i < End(c) /\ i < local[c].stop
<1>1. PICK a \in Nat, b \in Nat, e \in Nat, h \in Nat, t \in Nat :
             /\ a = local[c].next /\ b = local[c].stop /\ e = End(c) /\ h = head /\ t = tail
             /\ a < e /\ e <= b /\ b <= h /\ h <= t /\ InBlock(c) = a..(e - 1)
             /\ Base(a) = First(Ord(a)) /\ \A j \in a..(e - 1) : Ord(j) = Ord(a)
  BY EndIs
<1>2. i \in Nat /\ a <= i /\ i < e /\ i < b /\ i < h /\ i < t /\ Ord(i) = Ord(a)
  BY <1>1
<1>3. PICK x \in Int, o \in Offsets : x = Ord(i) /\ o = i % BlockSize /\ i = First(x) + o
  <2>1. i \in Int
    BY <1>2
  <2> QED BY <2>1, OrdIs
<1>4. BlockOf(c) = R[x] /\ x \in Low..Top /\ R[x] \in 1..Len(blocks)
  BY <1>1, <1>2, <1>3, BlockOfIs
<1>5. Cells(R, blocks, Low, Top, tail)
  BY DEF Ring
<1>6. blocks[R[x]].cells[o] = i + 1
  BY <1>1, <1>2, <1>3, <1>4, <1>5 DEF Cells
<1>7. BlockOf(c) # 0
  BY <1>4
<1> QED BY <1>1, <1>2, <1>3, <1>4, <1>6, <1>7

-----------------------------------------------------------------------------
\* A step of a consumer leaves the producer alone.
Consumed == UNCHANGED <<tail, enqueuing, indexes>>

\* What is free stays free.
FreeStays == \A i \in Int : Free(i) => Free(i)'

\* No flag is set but for items that are free by then.
FlagsOf(R) == \A x \in Low..Marked, o \in Offsets :
                o \in blocks'[R[x]].empty => o \in blocks[R[x]].empty \/ Free(First(x) + o)'

\* What each step of a consumer has to leave.
Goes(R, q) == Counts' /\ Control' /\ Shapes' /\ Ring(R, q)'

LEMMA ConsumedIs ==
    ASSUME Consumed
    PROVE  /\ tail' = tail /\ indexes' = indexes /\ tailBlock' = tailBlock /\ slotsUsed' = slotsUsed
           /\ front' = front /\ producer' = producer /\ op' = op
           /\ Top' = Top /\ Last' = Last /\ Marked' = Marked /\ Size' = Size /\ Current' = Current
           /\ (Bulk' <=> Bulk) /\ (Control' <=> Control)
<1>1. /\ tail' = tail /\ indexes' = indexes /\ tailBlock' = tailBlock /\ slotsUsed' = slotsUsed
      /\ front' = front /\ producer' = producer /\ op' = op
  BY DEF Consumed, enqueuing, private
<1>2. Top' = Top
  BY <1>1 DEF Top
<1>3. Last' = Last /\ Marked' = Marked
  BY <1>1, <1>2 DEF Last, Marked
<1>4. Size' = Size /\ Current' = Current
  BY <1>1 DEF Size, Current
<1>5. Bulk' <=> Bulk
  BY <1>1 DEF Bulk
<1>6. Control' <=> Control
  BY <1>1, <1>5 DEF Control
<1> QED BY <1>1, <1>2, <1>3, <1>4, <1>5, <1>6

\* The ring after a step of a consumer, from its flags and what consumers
\* find.
LEMMA RingConsumed ==
    ASSUME CountInv, Control, Shapes, NEW R, NEW q, Ring(R, q), Consumed, SameBlocks,
           FreeStays, FlagsOf(R), Reads(R, q)'
    PROVE  Ring(R, q)'
<1>1. /\ tail' = tail /\ indexes' = indexes /\ tailBlock' = tailBlock /\ slotsUsed' = slotsUsed
      /\ front' = front /\ producer' = producer /\ op' = op
      /\ Top' = Top /\ Last' = Last /\ Marked' = Marked /\ Size' = Size /\ Current' = Current
  BY ConsumedIs
<1>2. Len(blocks') = Len(blocks)
  BY DEF SameBlocks
<1>3. Low' = Low
  BY <1>1, <1>2 DEF Low
<1>4. /\ R \in [Int -> Int] /\ q \in Int /\ Sized(R) /\ Links(R, blocks, Low, Top) /\ Fronts(q)
      /\ Flags(R, blocks, Low, Marked) /\ Cells(R, blocks, Low, Top, tail) /\ Floor(Low)
      /\ Shown(R, q, Current, Low, Last) /\ Chained(R)
  BY DEF Ring
<1>5. Low \in Int /\ Top \in Int
  BY NumbersIs DEF CountInv
<1>6. Sized(R)'
  BY <1>1, <1>2, <1>3, <1>4 DEF Sized
<1>7. Links(R, blocks, Low, Top)'
  <2>0. PICK l \in Int, k \in Int : l = Low /\ k = Top
    BY <1>5
  <2>1. PICK new : new = blocks'
    OBVIOUS
  <2>2. Links(R, blocks, l, k)
    BY <2>0, <1>4
  <2>3. Len(new) = Len(blocks) /\ \A i \in 1..Len(blocks) : new[i].next = blocks[i].next
    BY <2>1 DEF SameBlocks
  <2>4. Links(R, new, l, k)
    BY <2>2, <2>3, LinksKept
  <2> QED BY <2>0, <2>1, <2>4, <1>1, <1>3
<1>8. Shown(R, q, Current, Low, Last)'
  BY <1>1, <1>3, <1>4
<1>9. Fronts(q)'
  BY <1>1, <1>4 DEF Fronts
<1>10. \A x \in Low..Top : R[x] \in 1..Len(blocks)
  BY <1>4 DEF Links, Linked
<1>11. Cells(R, blocks, Low, Top, tail)'
  <2> SUFFICES ASSUME NEW x \in Low..Top, NEW o \in Offsets, First(x) + o < tail
               PROVE  blocks'[R[x]].cells[o] = First(x) + o + 1
    BY <1>1, <1>3 DEF Cells
  <2>1. blocks[R[x]].cells[o] = First(x) + o + 1
    BY <1>4 DEF Cells
  <2>2. R[x] \in 1..Len(blocks)
    BY <1>10
  <2>3. blocks'[R[x]].cells = blocks[R[x]].cells
    BY <2>2 DEF SameBlocks
  <2> QED BY <2>1, <2>3
<1>12. Flags(R, blocks, Low, Marked)'
  <2> SUFFICES ASSUME NEW x \in Low..Marked, NEW o \in Offsets, o \in blocks'[R[x]].empty
               PROVE  Free(First(x) + o)'
    BY <1>1, <1>3 DEF Flags
  <2>1. o \in blocks[R[x]].empty \/ Free(First(x) + o)'
    BY DEF FlagsOf
  <2>2. First(x) + o \in Int
    <3>1. Marked \in Int /\ x \in Int
      BY <1>5, NumbersIs DEF CountInv
    <3> QED BY <3>1, OrdOf
  <2>3. o \in blocks[R[x]].empty => Free(First(x) + o)
    BY <1>4 DEF Flags
  <2> QED BY <2>1, <2>2, <2>3 DEF FreeStays
<1>13. Floor(Low)'
  <2>1. \A i \in Nat : i < First(Low) => Free(i)
    BY <1>4 DEF Floor
  <2>2. \A i \in Nat : i < First(Low) => Free(i)'
    BY <2>1 DEF FreeStays
  <2> QED BY <2>2, <1>3 DEF Floor
<1>14. Chained(R)'
  BY <1>1, <1>4 DEF Chained
<1> QED BY <1>4, <1>6, <1>7, <1>8, <1>9, <1>11, <1>12, <1>13, <1>14 DEF Ring

\* A consumer goes on with the index it has read, or reads it now.
GoesOn(d) == /\ d \in Busy /\ consumer[d] # "index"
             /\ local'[d].header = local[d].header /\ local'[d].slot = local[d].slot
             /\ local'[d].stop = local[d].stop
             /\ local'[d].next \in Int /\ local[d].next <= local'[d].next
ReadsNow(d) == /\ d \in Busy /\ local'[d].stop = local[d].stop
               /\ local'[d].header = Len(indexes) /\ local'[d].slot = Current.front

\* They find what they found.
LEMMA ReadsConsumed ==
    ASSUME CountInv, RangesApart, Control, Shapes, NEW R, NEW q, Ring(R, q), Consumed,
           \A d \in Busy' : consumer'[d] # "index" => GoesOn(d) \/ ReadsNow(d)
    PROVE  Reads(R, q)'
<1>1. indexes' = indexes /\ Last' = Last /\ Size' = Size
  BY ConsumedIs
<1>2. Reads(R, q) /\ Fronts(q) /\ Floor(Low)
  BY DEF Ring
<1>3. ASSUME NEW d \in Busy', consumer'[d] # "index", GoesOn(d)
      PROVE  /\ local'[d].header \in 1..Len(indexes)
             /\ IF local'[d].header = Len(indexes) THEN ReadsNew(q, d)' ELSE ReadsOld(R, d)'
  <2>1. d \in Busy /\ consumer[d] # "index" /\ local'[d].header = local[d].header
        /\ local'[d].slot = local[d].slot /\ local'[d].stop = local[d].stop
    BY <1>3 DEF GoesOn
  <2>2. /\ local[d].header \in 1..Len(indexes)
        /\ IF local[d].header = Len(indexes) THEN ReadsNew(q, d) ELSE ReadsOld(R, d)
    BY <2>1, <1>2 DEF Reads
  <2>3. ReadsNew(q, d) => ReadsNew(q, d)'
    BY <2>1, <1>1 DEF ReadsNew
  <2>4. ReadsOld(R, d) => ReadsOld(R, d)'
    <3> SUFFICES ASSUME ReadsOld(R, d), NEW x \in Ord(local'[d].next)..Ord(local[d].stop - 1)
                 PROVE  Found(indexes[local[d].header], local[d].slot, x) = R[x]
      BY <2>1, <1>1 DEF ReadsOld
    <3>1. PICK a \in Int, b \in Int : a = local[d].next /\ b = local'[d].next /\ a <= b
      <4>1. local[d].next \in Int
        BY <2>1, <1>2, WantedIs
      <4> QED BY <4>1, <1>3 DEF GoesOn
    <3>2. Ord(a) <= Ord(b) /\ Ord(a) \in Int /\ Ord(b) \in Int
      BY <3>1, OrdMono
    <3>3. Ord(local[d].stop - 1) \in Int
      BY <2>1, <1>2, WantedIs
    <3>4. x \in Ord(local[d].next)..Ord(local[d].stop - 1)
      BY <3>1, <3>2, <3>3
    <3> QED BY <3>4 DEF ReadsOld
  <2> QED BY <2>1, <2>2, <2>3, <2>4
<1>4. ASSUME NEW d \in Busy', ReadsNow(d)
      PROVE  local'[d].header \in 1..Len(indexes) /\ local'[d].header = Len(indexes) /\ ReadsNew(q, d)'
  <2>1. d \in Busy /\ local'[d].stop = local[d].stop
        /\ local'[d].header = Len(indexes) /\ local'[d].slot = Current.front
    BY <1>4 DEF ReadsNow
  <2>2. Len(indexes) \in 1..Len(indexes)
    BY CurrentIs
  <2>3. PICK b \in Int, t \in Int : b = Ord(local[d].stop - 1) /\ t = Ord(tail - 1) /\ b <= t
    <3>1. Ord(tail - 1) \in Int
      BY NumbersIs DEF CountInv
    <3> QED BY <3>1, <2>1, <1>2, WantedIs
  <2>4. tail > 0
    BY <2>1, EndIs
  <2>5. PICK y \in t..Last : Current.front = (y + q) % Size
    BY <2>3, <2>4, <1>2 DEF Fronts
  <2>6. y \in b..Last
    BY <2>3, <2>5
  <2>7. ReadsNew(q, d)'
    BY <2>1, <2>3, <2>5, <2>6, <1>1 DEF ReadsNew
  <2> QED BY <2>1, <2>2, <2>7
<1> QED BY <1>1, <1>3, <1>4 DEF Reads

-----------------------------------------------------------------------------
\* Where a consumer has items, and the others are left alone.
InUse == {"index", "copy", "release"}
OthersStay(c) == \A d \in Consumers \ {c} : consumer'[d] = consumer[d] /\ local'[d] = local[d]

\* A consumer that has claimed nothing, before and after its step.
Quiet(c) == /\ c \in Consumers /\ OthersStay(c) /\ Consumed /\ UNCHANGED <<head, taken, blocks>>
            /\ consumer[c] \notin InUse /\ consumer'[c] \notin InUse

\* Its step leaves the ring and the items.
LEMMA QuietKept ==
    ASSUME Counts, Control, Shapes, NEW R, NEW q, Ring(R, q), NEW c, Quiet(c), CountInv'
    PROVE  Goes(R, q) /\ UNCHANGED <<tail, head, taken>>
<1>1. /\ CountInv /\ RangesApart /\ TakenOnce
  BY DEF Counts
<1>2. Busy' = Busy /\ c \notin Busy
  BY DEF Quiet, Busy, OthersStay, InUse
<1>3. \A d \in Busy : consumer'[d] = consumer[d] /\ local'[d] = local[d]
  BY <1>2 DEF Quiet, OthersStay, Busy
<1>4. head' = head /\ taken' = taken /\ blocks' = blocks /\ Consumed /\ tail' = tail
  BY ConsumedIs DEF Quiet
<1>5. RangesApart'
  BY <1>1, <1>2, <1>3, <1>4 DEF RangesApart
<1>6. \A d \in Busy : Owed(d)' = Owed(d)
  BY <1>3 DEF Owed, End
<1>7. TakenOnce'
  BY <1>1, <1>2, <1>3, <1>4, <1>6 DEF TakenOnce
<1>8. FreeStays
  BY <1>2, <1>3, <1>4 DEF FreeStays, Free
<1>9. SameBlocks /\ FlagsOf(R)
  BY <1>4 DEF SameBlocks, FlagsOf
<1>10. Reads(R, q)'
  <2>1. ASSUME NEW d \in Busy', consumer'[d] # "index" PROVE GoesOn(d)
    <3>1. d \in Busy /\ consumer[d] # "index" /\ local'[d] = local[d]
      BY <2>1, <1>2, <1>3
    <3>2. local[d].next \in Nat
      BY <3>1, <1>1, EndIs
    <3> QED BY <3>1, <3>2 DEF GoesOn
  <2> QED BY <2>1, <1>1, <1>4, ReadsConsumed
<1>11. Ring(R, q)'
  BY <1>1, <1>4, <1>8, <1>9, <1>10, RingConsumed
<1>12. Control'
  BY <1>4, ConsumedIs
<1>13. Shapes'
  BY <1>4, ConsumedIs DEF Shapes
<1> QED BY <1>4, <1>5, <1>7, <1>11, <1>12, <1>13 DEF Goes, Counts

\* A consumer looks at the counters.
LEMMA LookKept ==
    ASSUME Counts, Control, Shapes, NEW R, NEW q, Ring(R, q), NEW c \in Consumers,
           NEW max \in Nat \ {0}, Look(c, max), UNCHANGED <<blocks, indexes, enqueuing>>
    PROVE  Goes(R, q) /\ UNCHANGED <<tail, head, taken>>
<1>1. CountInv'
  BY CountLook DEF Counts
<1>2. consumer \in [Consumers -> ConsumerPlaces] /\ local \in [Consumers -> Locals]
  BY DEF Counts, CountInv, CountTypes
<1>3. /\ consumer[c] = "idle" /\ consumer' = [consumer EXCEPT ![c] = "reserve"]
      /\ \E r : local' = [local EXCEPT ![c] = r]
      /\ UNCHANGED <<tail, head, taken>>
  BY DEF Look, At, counters
<1>4. OthersStay(c)
  BY <1>2, <1>3 DEF OthersStay
<1>5. consumer'[c] = "reserve"
  BY <1>2, <1>3
<1>6. Consumed
  BY <1>3 DEF Consumed
<1>7. Quiet(c)
  BY <1>3, <1>4, <1>5, <1>6 DEF Quiet, InUse
<1> QED BY <1>1, <1>7, QuietKept

\* A consumer reserves.
LEMMA ReserveKept ==
    ASSUME Counts, Control, Shapes, NEW R, NEW q, Ring(R, q), NEW c \in Consumers,
           Reserve(c), UNCHANGED <<blocks, indexes, enqueuing>>
    PROVE  Goes(R, q) /\ UNCHANGED <<tail, head, taken>>
<1>1. CountInv'
  BY CountReserve DEF Counts
<1>2. consumer \in [Consumers -> ConsumerPlaces] /\ local \in [Consumers -> Locals]
  BY DEF Counts, CountInv, CountTypes
<1>3. /\ consumer[c] = "reserve" /\ consumer' = [consumer EXCEPT ![c] = "claim"]
      /\ local' = [local EXCEPT ![c].mine = optimistic]
      /\ UNCHANGED <<tail, head, taken>>
  BY DEF Reserve, At
<1>4. OthersStay(c)
  BY <1>2, <1>3 DEF OthersStay
<1>5. consumer'[c] = "claim"
  BY <1>2, <1>3
<1>6. Consumed
  BY <1>3 DEF Consumed
<1>7. Quiet(c)
  BY <1>3, <1>4, <1>5, <1>6 DEF Quiet, InUse
<1> QED BY <1>1, <1>7, QuietKept

LEMMA HeadsNext == CountInv' => (head <= tail)'
BY CountHeads, PTL

\* A consumer claims items, which the abstract head passes, or gives up.
LEMMA ClaimKept ==
    ASSUME Counts, Control, Shapes, NEW R, NEW q, Ring(R, q), NEW c \in Consumers,
           Claim(c), UNCHANGED <<blocks, indexes, enqueuing>>
    PROVE  /\ Goes(R, q) /\ UNCHANGED <<tail, taken>>
           /\ head' # head => head' \in (head + 1)..tail
<1>1. CountInv'
  BY CountClaim DEF Counts
<1>2. /\ consumer \in [Consumers -> ConsumerPlaces] /\ local \in [Consumers -> Locals]
      /\ CountInv /\ RangesApart /\ TakenOnce /\ head \in Nat /\ tail \in Nat
  BY DEF Counts, CountInv, CountTypes
<1>3. PICK a \in Nat : a = Actual(c)
  BY <1>2, ClaimIs
<1>4. consumer[c] = "claim" /\ head' = head + a /\ UNCHANGED <<tail, taken>>
  BY <1>3 DEF Claim
<1>5. Consumed
  BY <1>4 DEF Consumed
<1>6. head' <= tail
  BY <1>1, <1>4, HeadsNext
<1>7. CASE a = 0
  <2>1. consumer' = [consumer EXCEPT ![c] = "idle"] /\ local' = [local EXCEPT ![c] = NoLocal]
    BY <1>3, <1>7 DEF Claim, Gone
  <2>2. OthersStay(c) /\ consumer'[c] = "idle"
    BY <2>1, <1>2 DEF OthersStay
  <2>3. head' = head
    BY <1>2, <1>4, <1>7
  <2>4. Quiet(c)
    BY <2>2, <2>3, <1>4, <1>5 DEF Quiet, InUse
  <2> QED BY <2>3, <2>4, <1>1, QuietKept
<1>8. CASE a # 0
  <2>1. PICK h \in Nat, k \in Nat : h = head /\ k = head' /\ h < k
    BY <1>2, <1>4, <1>8
  <2>2. PICK r : r = Claimed(h, k)
    OBVIOUS
  <2>3. consumer' = [consumer EXCEPT ![c] = "index"] /\ local' = [local EXCEPT ![c] = r]
    BY <2>1, <2>2, <1>3, <1>8 DEF Claim, At, Claimed
  <2>4. OthersStay(c) /\ consumer'[c] = "index" /\ local'[c] = r
    BY <2>3, <1>2 DEF OthersStay
  <2>5. r.next = h /\ r.stop = k
    BY <2>1, <2>2, ClaimedIs
  <2>6. Busy' = Busy \cup {c} /\ c \notin Busy
    BY <2>4, <1>4 DEF Busy, OthersStay
  <2>7. \A d \in Busy : consumer'[d] = consumer[d] /\ local'[d] = local[d]
    BY <2>4, <2>6 DEF OthersStay, Busy
  <2>8. \A d \in Busy : \E x \in Nat, y \in Nat : x = local[d].next /\ y = local[d].stop /\ x < y /\ y <= h
    <3> TAKE d \in Busy
    <3> QED BY <2>1, <1>2, EndIs
  <2>9. RangesApart'
    <3>1. ASSUME NEW d \in Busy'
          PROVE  0 <= local'[d].next /\ local'[d].next < local'[d].stop /\ local'[d].stop <= head'
      <4>1. CASE d = c
        BY <4>1, <2>1, <2>4, <2>5
      <4>2. CASE d # c
        <5>1. d \in Busy /\ local'[d] = local[d]
          BY <4>2, <3>1, <2>6, <2>7
        <5> QED BY <5>1, <2>1, <2>8
      <4> QED BY <4>1, <4>2
    <3>2. ASSUME NEW d \in Busy', NEW e \in Busy', d # e
          PROVE  local'[d].stop <= local'[e].next \/ local'[e].stop <= local'[d].next
      <4>1. CASE d = c
        <5>1. e \in Busy /\ local'[e] = local[e]
          BY <4>1, <3>2, <2>6, <2>7
        <5> QED BY <5>1, <4>1, <2>4, <2>5, <2>8
      <4>2. CASE e = c
        <5>1. d \in Busy /\ local'[d] = local[d]
          BY <4>2, <3>2, <2>6, <2>7
        <5> QED BY <5>1, <4>2, <2>4, <2>5, <2>8
      <4>3. CASE d # c /\ e # c
        <5>1. d \in Busy /\ e \in Busy /\ local'[d] = local[d] /\ local'[e] = local[e]
          BY <4>3, <3>2, <2>6, <2>7
        <5> QED BY <5>1, <3>2, <1>2 DEF RangesApart
      <4> QED BY <4>1, <4>2, <4>3
    <3> QED BY <3>1, <3>2 DEF RangesApart
  <2>10. TakenOnce'
    <3> SUFFICES ASSUME NEW t \in taken
                 PROVE  /\ t[1] \in Nat /\ t[1] < head'
                        /\ \A d \in Busy' : t[1] < Owed(d)' \/ local'[d].stop <= t[1]
      BY <1>4 DEF TakenOnce
    <3>1. t[1] \in Nat /\ t[1] < h
      BY <2>1, <1>2 DEF TakenOnce
    <3>2. ASSUME NEW d \in Busy' PROVE t[1] < Owed(d)' \/ local'[d].stop <= t[1]
      <4>1. CASE d = c
        <5>1. Owed(d)' = h
          BY <4>1, <2>4, <2>5 DEF Owed
        <5> QED BY <5>1, <3>1
      <4>2. CASE d # c
        <5>1. d \in Busy /\ local'[d] = local[d] /\ consumer'[d] = consumer[d]
          BY <4>2, <3>2, <2>6, <2>7
        <5>2. Owed(d)' = Owed(d)
          BY <5>1 DEF Owed, End
        <5> QED BY <5>1, <5>2, <1>2 DEF TakenOnce
      <4> QED BY <4>1, <4>2
    <3> QED BY <3>1, <3>2, <2>1
  <2>11. FreeStays
    <3> SUFFICES ASSUME NEW i \in Int, Free(i) PROVE Free(i)'
      BY DEF FreeStays
    <3>1. i < h /\ \A d \in Busy : i < local[d].next \/ local[d].stop <= i
      BY <2>1 DEF Free
    <3>2. \A d \in Busy' : i < local'[d].next \/ local'[d].stop <= i
      <4> TAKE d \in Busy'
      <4>1. CASE d = c
        BY <4>1, <3>1, <2>4, <2>5
      <4>2. CASE d # c
        <5>1. d \in Busy /\ local'[d] = local[d]
          BY <4>2, <2>6, <2>7
        <5> QED BY <5>1, <3>1
      <4> QED BY <4>1, <4>2
    <3>3. i < head'
      BY <3>1, <2>1
    <3> QED BY <3>2, <3>3 DEF Free
  <2>12. SameBlocks /\ FlagsOf(R)
    BY DEF SameBlocks, FlagsOf
  <2>13. Reads(R, q)'
    <3>1. ASSUME NEW d \in Busy', consumer'[d] # "index" PROVE GoesOn(d)
      <4>1. d \in Busy /\ consumer[d] # "index" /\ local'[d] = local[d]
        BY <3>1, <2>4, <2>6, <2>7
      <4>2. local[d].next \in Nat
        BY <4>1, <2>8
      <4> QED BY <4>1, <4>2 DEF GoesOn
    <3> QED BY <3>1, <1>2, <1>5, ReadsConsumed
  <2>14. Ring(R, q)'
    BY <1>2, <1>5, <2>11, <2>12, <2>13, RingConsumed
  <2>15. Control' /\ Shapes'
    BY <1>5, ConsumedIs DEF Shapes
  <2>16. head' \in (head + 1)..tail
    BY <2>1, <1>2, <1>6
  <2> QED BY <1>1, <1>4, <2>9, <2>10, <2>14, <2>15, <2>16 DEF Goes, Counts
<1> QED BY <1>7, <1>8

-----------------------------------------------------------------------------
\* The locals of a consumer that reads the index, or goes to the next block.
Loaded(r, x, y) == [r EXCEPT !.header = x, !.slot = y]
Advanced(r, x) == [r EXCEPT !.next = x]

LEMMA LoadedIs ==
    ASSUME NEW r \in Locals, NEW x \in Int, NEW y \in Int
    PROVE  /\ Loaded(r, x, y) \in Locals /\ Loaded(r, x, y).header = x /\ Loaded(r, x, y).slot = y
           /\ Loaded(r, x, y).next = r.next /\ Loaded(r, x, y).stop = r.stop
BY DEF Locals, Loaded

LEMMA AdvancedIs ==
    ASSUME NEW r \in Locals, NEW x \in Int
    PROVE  /\ Advanced(r, x) \in Locals /\ Advanced(r, x).next = x /\ Advanced(r, x).stop = r.stop
           /\ Advanced(r, x).header = r.header /\ Advanced(r, x).slot = r.slot
BY DEF Locals, Advanced

\* A consumer with items it has claimed goes on, or is done.
Works(c) == /\ c \in Busy /\ OthersStay(c) /\ Consumed /\ UNCHANGED <<head, optimistic, overcommit>>
            /\ consumer' \in [Consumers -> ConsumerPlaces] /\ local' \in [Consumers -> Locals]
            /\ consumer'[c] \in InUse \cup {"idle"}

\* It does not touch the counters.
LEMMA WorksCount == ASSUME CountInv, NEW c, Works(c) PROVE CountInv'
<1>1. tail' = tail /\ tail \in Nat
  BY ConsumedIs DEF Works, CountInv, CountTypes
<1>2. \A d \in Consumers : consumer'[d] \in {"reserve", "claim"} =>
        consumer'[d] = consumer[d] /\ local'[d] = local[d]
  BY DEF Works, OthersStay, InUse
<1>3. \A d \in Consumers : consumer[d] = "claim" => consumer'[d] = "claim"
  BY DEF Works, OthersStay, Busy
<1>4. Elsewhere
  BY <1>1, <1>2, <1>3 DEF Elsewhere, Works
<1> QED BY <1>4, CountElsewhere

\* It goes on with the same items.
Stays(c) == /\ Works(c) /\ consumer'[c] \in InUse /\ UNCHANGED blocks
            /\ local'[c].next = local[c].next /\ local'[c].stop = local[c].stop

LEMMA StaysIs ==
    ASSUME Counts, NEW c, Stays(c)
    PROVE  /\ Busy' = Busy /\ c \in Busy /\ c \in Consumers
           /\ \A d \in Busy : local'[d].next = local[d].next /\ local'[d].stop = local[d].stop
           /\ \A d \in Busy : d # c => consumer'[d] = consumer[d] /\ local'[d] = local[d]
           /\ \A d \in Busy : End(d)' = End(d)
<1>1. c \in Busy /\ c \in Consumers
  BY DEF Stays, Works, Busy
<1>2. Busy' = Busy
  BY <1>1 DEF Stays, Works, OthersStay, Busy, InUse
<1>3. \A d \in Busy : d # c => consumer'[d] = consumer[d] /\ local'[d] = local[d]
  BY DEF Stays, Works, OthersStay, Busy
<1>4. \A d \in Busy : local'[d].next = local[d].next /\ local'[d].stop = local[d].stop
  BY <1>3 DEF Stays
<1>5. \A d \in Busy : End(d)' = End(d)
  BY <1>4 DEF End
<1> QED BY <1>1, <1>2, <1>3, <1>4, <1>5

LEMMA StaysKept ==
    ASSUME Counts, Control, Shapes, NEW R, NEW q, Ring(R, q), NEW c, Stays(c),
           TakenOnce', GoesOn(c) \/ ReadsNow(c)
    PROVE  Goes(R, q)
<1>1. CountInv /\ RangesApart /\ CountInv'
  BY WorksCount DEF Counts, Stays
<1>2. head' = head /\ blocks' = blocks /\ Consumed
  BY DEF Stays, Works
<1>3. /\ Busy' = Busy
      /\ \A d \in Busy : local'[d].next = local[d].next /\ local'[d].stop = local[d].stop
      /\ \A d \in Busy : d # c => consumer'[d] = consumer[d] /\ local'[d] = local[d]
  BY StaysIs
<1>4. RangesApart'
  BY <1>1, <1>2, <1>3 DEF RangesApart
<1>5. FreeStays
  BY <1>2, <1>3 DEF FreeStays, Free
<1>6. SameBlocks /\ FlagsOf(R)
  BY <1>2 DEF SameBlocks, FlagsOf
<1>7. Reads(R, q)'
  <2>1. ASSUME NEW d \in Busy', consumer'[d] # "index" PROVE GoesOn(d) \/ ReadsNow(d)
    <3>1. CASE d = c
      BY <3>1
    <3>2. CASE d # c
      <4>1. d \in Busy /\ consumer[d] # "index" /\ local'[d] = local[d]
        BY <3>2, <2>1, <1>3
      <4>2. local[d].next \in Nat
        BY <4>1, <1>1, EndIs
      <4>3. GoesOn(d)
        BY <4>1, <4>2 DEF GoesOn
      <4> QED BY <4>3
    <3> QED BY <3>1, <3>2
  <2> QED BY <2>1, <1>1, <1>2, ReadsConsumed
<1>8. Ring(R, q)'
  BY <1>1, <1>2, <1>5, <1>6, <1>7, RingConsumed
<1>9. Control' /\ Shapes'
  BY <1>2, ConsumedIs DEF Shapes
<1> QED BY <1>1, <1>4, <1>8, <1>9 DEF Goes, Counts

\* A consumer reads the index and its front.
LEMMA LoadKept ==
    ASSUME Counts, Control, Shapes, NEW R, NEW q, Ring(R, q), NEW c \in Consumers, LoadIndex(c)
    PROVE  Goes(R, q) /\ UNCHANGED <<tail, head, taken>>
<1>1. /\ consumer \in [Consumers -> ConsumerPlaces] /\ local \in [Consumers -> Locals]
      /\ CountInv /\ RangesApart /\ TakenOnce
  BY DEF Counts, CountInv, CountTypes
<1>2. PICK x \in Int, y \in Int : x = Len(indexes) /\ y = Current.front
  BY CurrentIs
<1>3. PICK r \in Locals : /\ r = Loaded(local[c], x, y) /\ r.header = x /\ r.slot = y
                          /\ r.next = local[c].next /\ r.stop = local[c].stop
  BY <1>1, LoadedIs
<1>4. local' = [local EXCEPT ![c] = r]
  <2>1. local' = [local EXCEPT ![c].header = x, ![c].slot = y]
    BY <1>2 DEF LoadIndex, Current
  <2> QED BY <2>1, <1>1, <1>3 DEF Loaded
<1>5. /\ consumer[c] = "index" /\ consumer' = [consumer EXCEPT ![c] = "copy"]
      /\ UNCHANGED <<tail, head, optimistic, overcommit, blocks, indexes, enqueuing, taken>>
  BY DEF LoadIndex, At, counters
<1>6. c \in Busy /\ local'[c] = r /\ consumer'[c] = "copy" /\ OthersStay(c)
  BY <1>1, <1>4, <1>5 DEF Busy, OthersStay
<1>7. consumer' \in [Consumers -> ConsumerPlaces] /\ local' \in [Consumers -> Locals]
  BY <1>1, <1>4, <1>5 DEF ConsumerPlaces
<1>8. Consumed
  BY <1>5 DEF Consumed
<1>9. Stays(c)
  BY <1>3, <1>5, <1>6, <1>7, <1>8 DEF Stays, Works, InUse
<1>10. TakenOnce'
  <2>1. /\ Busy' = Busy
        /\ \A d \in Busy : local'[d].next = local[d].next /\ local'[d].stop = local[d].stop
        /\ \A d \in Busy : d # c => consumer'[d] = consumer[d]
        /\ \A d \in Busy : End(d)' = End(d)
    BY <1>9, StaysIs
  <2>2. \A d \in Busy : Owed(d)' = Owed(d)
    BY <2>1, <1>5, <1>6 DEF Owed
  <2> QED BY <2>1, <2>2, <1>1, <1>5 DEF TakenOnce
<1>11. ReadsNow(c)
  BY <1>2, <1>3, <1>6 DEF ReadsNow
<1> QED BY <1>5, <1>9, <1>10, <1>11, StaysKept

\* What a copy brings: the items claimed, which nobody has taken before.
Delivers(c) == /\ taken \subseteq taken' /\ taken' # taken
               /\ \A d \in taken' \ taken :
                    /\ d[1] \in 0..(head - 1) /\ d[2] = d[1] + 1
                    /\ \A e \in taken : e[1] # d[1]

\* A consumer copies the items of a block, which are those it claimed.
LEMMA CopyKept ==
    ASSUME Counts, Control, Shapes, NEW R, NEW q, Ring(R, q), NEW c \in Consumers, Copy(c)
    PROVE  Goes(R, q) /\ UNCHANGED <<tail, head>> /\ Delivers(c)
<1>1. /\ consumer \in [Consumers -> ConsumerPlaces] /\ local \in [Consumers -> Locals]
      /\ CountInv /\ RangesApart /\ TakenOnce
  BY DEF Counts, CountInv, CountTypes
<1>2. /\ consumer[c] = "copy" /\ consumer' = [consumer EXCEPT ![c] = "release"] /\ local' = local
      /\ UNCHANGED <<tail, head, optimistic, overcommit, blocks, indexes, enqueuing>>
  BY DEF Copy, At, counters
<1>3. c \in Busy /\ consumer'[c] = "release" /\ OthersStay(c)
  BY <1>1, <1>2 DEF Busy, OthersStay
<1>4. consumer' \in [Consumers -> ConsumerPlaces] /\ local' \in [Consumers -> Locals]
  BY <1>1, <1>2 DEF ConsumerPlaces
<1>5. Consumed
  BY <1>2 DEF Consumed
<1>6. Stays(c)
  BY <1>2, <1>3, <1>4, <1>5 DEF Stays, Works, InUse
<1>7. PICK a \in Nat, b \in Nat, e \in Nat, h \in Nat :
             /\ a = local[c].next /\ b = local[c].stop /\ e = End(c) /\ h = head
             /\ a < e /\ e <= b /\ b <= h /\ InBlock(c) = a..(e - 1)
  BY <1>1, <1>3, EndIs
<1>8. taken' = taken \cup { <<i, i + 1>> : i \in a..(e - 1) }
  <2>1. \A i \in InBlock(c) : BlockOf(c) # 0 /\ blocks[BlockOf(c)].cells[i % BlockSize] = i + 1
    BY <1>1, <1>2, <1>3, CopiedIs
  <2>2. taken' = taken \cup { <<i, IF BlockOf(c) = 0 THEN 0 ELSE
                                     blocks[BlockOf(c)].cells[i % BlockSize]>> : i \in InBlock(c) }
    BY DEF Copy
  <2> QED BY <2>1, <2>2, <1>7
<1>9. \A t \in taken : t[1] \in Nat /\ t[1] < h /\ (t[1] < a \/ b <= t[1])
  <2>1. Owed(c) = a
    BY <1>2, <1>7 DEF Owed
  <2> QED BY <2>1, <1>1, <1>3, <1>7 DEF TakenOnce
<1>10. Delivers(c)
  <2>1. <<a, a + 1>> \in taken'
    <3>1. a \in a..(e - 1)
      BY <1>7
    <3> QED BY <3>1, <1>8
  <2>2. <<a, a + 1>> \notin taken
    <3>1. <<a, a + 1>>[1] = a
      OBVIOUS
    <3> QED BY <3>1, <1>7, <1>9
  <2>3. ASSUME NEW d \in taken' \ taken
        PROVE  d[1] \in 0..(head - 1) /\ d[2] = d[1] + 1 /\ \A t \in taken : t[1] # d[1]
    <3>1. PICK i \in a..(e - 1) : d = <<i, i + 1>>
      BY <2>3, <1>8
    <3>2. d[1] = i /\ d[2] = i + 1
      BY <3>1
    <3>3. i \in 0..(head - 1) /\ a <= i /\ i < b
      BY <1>7
    <3>4. ASSUME NEW t \in taken PROVE t[1] # i
      BY <3>3, <1>7, <1>9
    <3> QED BY <3>2, <3>3, <3>4
  <2> QED BY <2>1, <2>2, <2>3, <1>8 DEF Delivers
<1>11. TakenOnce'
  <2>1. /\ Busy' = Busy
        /\ \A d \in Busy : local'[d].next = local[d].next /\ local'[d].stop = local[d].stop
        /\ \A d \in Busy : d # c => consumer'[d] = consumer[d]
        /\ \A d \in Busy : End(d)' = End(d)
    BY <1>6, StaysIs
  <2>2. \A d \in Busy : d # c => Owed(d)' = Owed(d)
    BY <2>1 DEF Owed
  <2>3. Owed(c)' = e
    BY <2>1, <1>3, <1>7 DEF Owed
  <2>4. ASSUME NEW t \in taken
        PROVE  /\ t[1] \in Nat /\ t[1] < head
               /\ \A d \in Busy : t[1] < Owed(d)' \/ local'[d].stop <= t[1]
    <3>1. t[1] \in Nat /\ t[1] < head
      BY <1>7, <1>9
    <3>2. ASSUME NEW d \in Busy PROVE t[1] < Owed(d)' \/ local'[d].stop <= t[1]
      <4>1. CASE d = c
        BY <4>1, <2>1, <2>3, <1>7, <1>9
      <4>2. CASE d # c
        BY <4>2, <2>1, <2>2, <1>1 DEF TakenOnce
      <4> QED BY <4>1, <4>2
    <3> QED BY <3>1, <3>2
  <2>5. ASSUME NEW t, NEW i \in a..(e - 1), t = <<i, i + 1>>
        PROVE  /\ t[1] \in Nat /\ t[1] < head
               /\ \A d \in Busy : t[1] < Owed(d)' \/ local'[d].stop <= t[1]
    <3>1. t[1] = i /\ i \in Nat /\ a <= i /\ i < e /\ i < h /\ i < b
      BY <2>5, <1>7
    <3>2. ASSUME NEW d \in Busy PROVE i < Owed(d)' \/ local'[d].stop <= i
      <4>1. CASE d = c
        BY <4>1, <3>1, <2>3
      <4>2. CASE d # c
        <5>1. PICK x \in Nat, y \in Nat, z \in Nat : x = local[d].next /\ y = local[d].stop /\ z = End(d) /\ x < z
          BY <1>1, EndIs
        <5>2. b <= x \/ y <= a
          BY <4>2, <5>1, <1>1, <1>3, <1>7 DEF RangesApart
        <5>3. Owed(d)' \in {x, z}
          BY <4>2, <5>1, <2>2 DEF Owed
        <5> QED BY <5>1, <5>2, <5>3, <3>1, <2>1
      <4> QED BY <4>1, <4>2
    <3> QED BY <3>1, <3>2, <1>7
  <2>6. \A t \in taken' : t \in taken \/ \E i \in a..(e - 1) : t = <<i, i + 1>>
    BY <1>8
  <2> QED BY <2>1, <2>4, <2>5, <2>6, <1>2 DEF TakenOnce
<1>12. GoesOn(c)
  BY <1>2, <1>3, <1>7 DEF GoesOn
<1> QED BY <1>2, <1>6, <1>10, <1>11, <1>12, StaysKept

-----------------------------------------------------------------------------
\* More flags of one block are set.
Flagged(bl, b, flags) == [bl EXCEPT ![b].empty = @ \cup flags]

LEMMA MoreFlags ==
    ASSUME NEW bl \in Seq(BlockRecords), NEW b \in 1..Len(bl), NEW flags \in SUBSET Offsets,
           NEW new, new = Flagged(bl, b, flags)
    PROVE  /\ new \in Seq(BlockRecords) /\ Len(new) = Len(bl)
           /\ \A i \in 1..Len(bl) : /\ new[i].next = bl[i].next /\ new[i].cells = bl[i].cells
                                    /\ i # b => new[i].empty = bl[i].empty
           /\ new[b].empty = bl[b].empty \cup flags
<1>1. PICK n \in Nat : n = Len(bl) /\ bl \in [1..n -> BlockRecords] /\ b \in 1..n
  BY LenProperties
<1>2. PICK r \in BlockRecords : r = bl[b]
  BY <1>1
<1>3. PICK f \in SUBSET Offsets : f = r.empty \cup flags
  BY <1>2 DEF BlockRecords
<1>4. PICK s : s = [r EXCEPT !.empty = f]
  OBVIOUS
<1>5. s \in BlockRecords /\ s.next = r.next /\ s.cells = r.cells /\ s.empty = f
  BY <1>4 DEF BlockRecords
<1>6. new = [bl EXCEPT ![b] = s]
  BY <1>1, <1>2, <1>3, <1>4 DEF Flagged
<1>7. new \in Seq(BlockRecords) /\ Len(new) = n
  <2>1. new \in Seq(BlockRecords) /\ Len(new) = Len(bl)
    BY <1>5, <1>6, ExceptSeq
  <2> QED BY <2>1, <1>1
<1>8. new[b] = s /\ \A i \in 1..n : i # b => new[i] = bl[i]
  BY <1>1, <1>6
<1> QED BY <1>1, <1>2, <1>3, <1>5, <1>7, <1>8

\* A consumer sets their flags, after which the block may be reused.
LEMMA EmptyKept ==
    ASSUME Counts, Control, Shapes, NEW R, NEW q, Ring(R, q), NEW c \in Consumers, SetManyEmpty(c)
    PROVE  Goes(R, q) /\ UNCHANGED <<tail, head, taken>>
<1>1. /\ consumer \in [Consumers -> ConsumerPlaces] /\ local \in [Consumers -> Locals]
      /\ CountInv /\ RangesApart /\ TakenOnce
  BY DEF Counts, CountInv, CountTypes
<1>2. /\ consumer[c] = "release" /\ c \in Busy
      /\ UNCHANGED <<tail, head, optimistic, overcommit, indexes, enqueuing, taken>>
  BY DEF SetManyEmpty, NextBlock, counters, Busy
<1>3. PICK a \in Nat, b \in Nat, e \in Nat, h \in Nat :
             /\ a = local[c].next /\ b = local[c].stop /\ e = End(c) /\ h = head
             /\ a < e /\ e <= b /\ b <= h /\ InBlock(c) = a..(e - 1)
             /\ \A i \in a..(e - 1) : Ord(i) = Ord(a)
  BY <1>1, <1>2, EndIs
<1>4. PICK x \in Int, n \in Nat : /\ x = Ord(a) /\ n = Len(blocks) /\ x \in Low..Top
                                  /\ BlockOf(c) = R[x] /\ R[x] \in 1..n
  <2>1. a \in Int
    OBVIOUS
  <2>2. Ord(a) \in Int
    BY <2>1, OrdAt
  <2>3. Len(blocks) \in Nat
    BY NumbersIs, <1>1 DEF CountInv
  <2>4. BlockOf(c) = R[Ord(a)] /\ Ord(a) \in Low..Top /\ R[Ord(a)] \in 1..Len(blocks)
    BY <1>1, <1>2, <1>3, BlockOfIs
  <2> QED BY <2>2, <2>3, <2>4
<1>5. PICK flags \in SUBSET Offsets : flags = { i % BlockSize : i \in a..(e - 1) }
  <2>1. \A i \in a..(e - 1) : i % BlockSize \in Offsets
    <3> TAKE i \in a..(e - 1)
    <3>1. i \in Int
      OBVIOUS
    <3> QED BY <3>1, OrdIs
  <2> QED BY <2>1
<1>6. PICK new : /\ new = blocks' /\ new \in Seq(BlockRecords) /\ Len(new) = n
                 /\ \A i \in 1..n : /\ new[i].next = blocks[i].next /\ new[i].cells = blocks[i].cells
                                    /\ i # R[x] => new[i].empty = blocks[i].empty
                 /\ new[R[x]].empty = blocks[R[x]].empty \cup flags
  <2>1. PICK bl \in Seq(BlockRecords), y \in Int : bl = blocks /\ y = R[x] /\ y \in 1..Len(bl) /\ Len(bl) = n
    BY <1>4 DEF Shapes
  <2>2. PICK new : new = Flagged(bl, y, flags)
    OBVIOUS
  <2>3. blocks' = new
    BY <2>1, <2>2, <1>3, <1>4, <1>5 DEF SetManyEmpty, Flagged
  <2>4. /\ new \in Seq(BlockRecords) /\ Len(new) = Len(bl)
        /\ \A i \in 1..Len(bl) : /\ new[i].next = bl[i].next /\ new[i].cells = bl[i].cells
                                 /\ i # y => new[i].empty = bl[i].empty
        /\ new[y].empty = bl[y].empty \cup flags
    BY <2>1, <2>2, MoreFlags
  <2> QED BY <2>1, <2>3, <2>4
<1>7. PICK r \in Locals, p \in {"idle", "copy"} :
        /\ local' = [local EXCEPT ![c] = r] /\ consumer' = [consumer EXCEPT ![c] = p]
        /\ p = "copy" => /\ e < b /\ r.next = e /\ r.stop = b
                         /\ r.header = local[c].header /\ r.slot = local[c].slot
        /\ p = "idle" => e = b
  <2>1. CASE e = b
    <3>1. consumer' = [consumer EXCEPT ![c] = "idle"] /\ local' = [local EXCEPT ![c] = NoLocal]
      BY <2>1, <1>3 DEF SetManyEmpty, NextBlock, Gone
    <3> QED BY <3>1, <2>1, NoLocalIs
  <2>2. CASE e # b
    <3>1. local' = [local EXCEPT ![c].next = e] /\ consumer' = [consumer EXCEPT ![c] = "copy"]
      BY <2>2, <1>3 DEF SetManyEmpty, NextBlock, At
    <3>2. PICK r \in Locals : /\ r = Advanced(local[c], e) /\ r.next = e /\ r.stop = local[c].stop
                              /\ r.header = local[c].header /\ r.slot = local[c].slot
      BY <1>1, AdvancedIs
    <3>3. local' = [local EXCEPT ![c] = r]
      BY <3>1, <3>2, <1>1 DEF Advanced
    <3>4. e < b /\ "copy" \in {"idle", "copy"} /\ "copy" # "idle"
      BY <2>2, <1>3
    <3> QED BY <3>1, <3>2, <3>3, <3>4, <1>3
  <2> QED BY <2>1, <2>2
<1>8. OthersStay(c) /\ consumer'[c] = p /\ local'[c] = r
  BY <1>1, <1>7 DEF OthersStay
<1>9. consumer' \in [Consumers -> ConsumerPlaces] /\ local' \in [Consumers -> Locals]
  BY <1>1, <1>7 DEF ConsumerPlaces
<1>10. Consumed
  BY <1>2 DEF Consumed
<1>11. Works(c) /\ CountInv'
  <2>1. Works(c)
    BY <1>2, <1>7, <1>8, <1>9, <1>10 DEF Works, InUse
  <2> QED BY <2>1, <1>1, WorksCount
<1>12. Busy' = IF p = "copy" THEN Busy ELSE Busy \ {c}
  BY <1>2, <1>7, <1>8 DEF Busy, OthersStay
<1>13. \A d \in Busy : d # c => consumer'[d] = consumer[d] /\ local'[d] = local[d]
  BY <1>8 DEF Busy, OthersStay
<1>14. c \in Busy' => e < b /\ local'[c].next = e /\ local'[c].stop = b /\ p = "copy"
  BY <1>7, <1>8, <1>12
<1>15. \A d \in Busy : \E y \in Nat, z \in Nat : y = local[d].next /\ z = local[d].stop /\ y < z /\ z <= h
  <2> TAKE d \in Busy
  <2> QED BY <1>1, <1>3, EndIs
<1>16. \A d \in Busy : d # c => local[d].stop <= a \/ b <= local[d].next
  BY <1>1, <1>2, <1>3 DEF RangesApart
<1>17. RangesApart'
  <2>1. ASSUME NEW d \in Busy'
        PROVE  0 <= local'[d].next /\ local'[d].next < local'[d].stop /\ local'[d].stop <= head'
    <3>1. CASE d = c
      BY <3>1, <2>1, <1>2, <1>3, <1>14
    <3>2. CASE d # c
      <4>1. d \in Busy /\ local'[d] = local[d]
        BY <3>2, <2>1, <1>12, <1>13
      <4> QED BY <4>1, <1>2, <1>3, <1>15
    <3> QED BY <3>1, <3>2
  <2>2. ASSUME NEW d \in Busy', NEW f \in Busy', d # f
        PROVE  local'[d].stop <= local'[f].next \/ local'[f].stop <= local'[d].next
    <3>0. d \in Busy /\ f \in Busy
      BY <2>2, <1>12
    <3>1. CASE d = c
      <4>1. local'[f] = local[f] /\ (local[f].stop <= a \/ b <= local[f].next)
        BY <3>0, <3>1, <2>2, <1>13, <1>16
      <4> QED BY <4>1, <3>0, <3>1, <2>2, <1>3, <1>14, <1>15
    <3>2. CASE f = c
      <4>1. local'[d] = local[d] /\ (local[d].stop <= a \/ b <= local[d].next)
        BY <3>0, <3>2, <2>2, <1>13, <1>16
      <4> QED BY <4>1, <3>0, <3>2, <2>2, <1>3, <1>14, <1>15
    <3>3. CASE d # c /\ f # c
      BY <3>0, <3>3, <2>2, <1>1, <1>13 DEF RangesApart
    <3> QED BY <3>1, <3>2, <3>3
  <2> QED BY <2>1, <2>2 DEF RangesApart
<1>18. TakenOnce'
  <2> SUFFICES ASSUME NEW t \in taken
               PROVE  /\ t[1] \in Nat /\ t[1] < head
                      /\ \A d \in Busy' : t[1] < Owed(d)' \/ local'[d].stop <= t[1]
    BY <1>2 DEF TakenOnce
  <2>1. t[1] \in Nat /\ t[1] < head /\ \A d \in Busy : t[1] < Owed(d) \/ local[d].stop <= t[1]
    BY <1>1 DEF TakenOnce
  <2>2. ASSUME NEW d \in Busy' PROVE t[1] < Owed(d)' \/ local'[d].stop <= t[1]
    <3>1. CASE d = c
      <4>1. Owed(c) = e /\ local[c].stop = b
        BY <1>2, <1>3 DEF Owed
      <4>2. Owed(c)' = e /\ local'[c].stop = b
        BY <3>1, <2>2, <1>8, <1>14 DEF Owed
      <4> QED BY <4>1, <4>2, <3>1, <2>1, <1>2
    <3>2. CASE d # c
      <4>1. d \in Busy /\ local'[d] = local[d] /\ consumer'[d] = consumer[d]
        BY <3>2, <2>2, <1>12, <1>13
      <4>2. Owed(d)' = Owed(d)
        BY <4>1 DEF Owed, End
      <4> QED BY <4>1, <4>2, <2>1
    <3> QED BY <3>1, <3>2
  <2> QED BY <2>1, <2>2
<1>19. FreeStays
  <2> SUFFICES ASSUME NEW i \in Int, Free(i) PROVE Free(i)'
    BY DEF FreeStays
  <2>1. i < h /\ \A d \in Busy : i < local[d].next \/ local[d].stop <= i
    BY <1>3 DEF Free
  <2>2. ASSUME NEW d \in Busy' PROVE i < local'[d].next \/ local'[d].stop <= i
    <3>1. CASE d = c
      <4>1. i < a \/ b <= i
        BY <2>1, <1>2, <1>3
      <4> QED BY <4>1, <3>1, <2>2, <1>3, <1>14
    <3>2. CASE d # c
      BY <3>2, <2>1, <2>2, <1>12, <1>13
    <3> QED BY <3>1, <3>2
  <2> QED BY <2>1, <2>2, <1>2, <1>3 DEF Free
<1>20. ASSUME NEW i \in a..(e - 1) PROVE Free(i)'
  <2>1. i \in Int /\ a <= i /\ i < e /\ i < h /\ i < b
    BY <1>3
  <2>2. ASSUME NEW d \in Busy' PROVE i < local'[d].next \/ local'[d].stop <= i
    <3>1. CASE d = c
      BY <3>1, <2>1, <2>2, <1>14
    <3>2. CASE d # c
      <4>1. d \in Busy /\ local'[d] = local[d]
        BY <3>2, <2>2, <1>12, <1>13
      <4>2. PICK y \in Nat, z \in Nat : y = local[d].next /\ z = local[d].stop
        BY <4>1, <1>15
      <4>3. z <= a \/ b <= y
        BY <4>1, <4>2, <3>2, <1>16
      <4> QED BY <4>1, <4>2, <4>3, <2>1
    <3> QED BY <3>1, <3>2
  <2> QED BY <2>1, <2>2, <1>2, <1>3 DEF Free
<1>21. SameBlocks
  BY <1>4, <1>6 DEF SameBlocks
<1>22. FlagsOf(R)
  <2> SUFFICES ASSUME NEW y \in Low..Marked, NEW o \in Offsets, o \in new[R[y]].empty,
                      o \notin blocks[R[y]].empty
               PROVE  Free(First(y) + o)'
    BY <1>6 DEF FlagsOf
  <2>1. y \in Low..Top /\ R[y] \in 1..n
    <3>1. PICK l \in Int, m \in Int, t \in Int : l = Low /\ m = Marked /\ t = Top /\ m <= t
      BY <1>1, NumbersIs DEF CountInv
    <3>2. y \in l..t
      BY <3>1
    <3>3. \A z \in Low..Top : R[z] \in 1..Len(blocks)
      BY DEF Ring, Links, Linked
    <3> QED BY <3>1, <3>2, <3>3, <1>4
  <2>2. R[y] = R[x]
    BY <2>1, <1>6
  <2>3. y = x
    <3>1. Apart(R, Low, Top)
      BY DEF Ring, Links
    <3> QED BY <3>1, <2>1, <2>2, <1>4 DEF Apart
  <2>4. o \in flags
    BY <2>2, <1>6
  <2>5. PICK i \in a..(e - 1) : o = i % BlockSize
    BY <2>4, <1>5
  <2>6. i \in Int /\ Ord(i) = x
    BY <1>3, <1>4
  <2>7. \E z \in Int, w \in Offsets :
             /\ z = Ord(i) /\ w = i % BlockSize
             /\ i = First(z) + w /\ Base(i) = First(z)
    BY <2>6, OrdIs
  <2>8. First(y) + o = i
    BY <2>3, <2>5, <2>6, <2>7
  <2>9. Free(i)'
    BY <1>20
  <2> QED BY <2>8, <2>9
<1>23. Reads(R, q)'
  <2>1. ASSUME NEW d \in Busy', consumer'[d] # "index" PROVE GoesOn(d)
    <3>1. CASE d = c
      <4>1. p = "copy"
        BY <3>1, <2>1, <1>14
      <4>2. /\ local'[c].next = e /\ local'[c].stop = b /\ local'[c].header = local[c].header
            /\ local'[c].slot = local[c].slot
        BY <4>1, <1>7, <1>8
      <4>3. e \in Int /\ local[c].next <= e
        BY <1>3
      <4> QED BY <4>2, <4>3, <3>1, <1>2, <1>3 DEF GoesOn
    <3>2. CASE d # c
      <4>1. d \in Busy /\ consumer[d] # "index" /\ local'[d] = local[d]
        BY <3>2, <2>1, <1>12, <1>13
      <4>2. local[d].next \in Nat
        BY <4>1, <1>15
      <4> QED BY <4>1, <4>2 DEF GoesOn
    <3> QED BY <3>1, <3>2
  <2> QED BY <2>1, <1>1, <1>10, ReadsConsumed
<1>24. Ring(R, q)'
  BY <1>1, <1>10, <1>19, <1>21, <1>22, <1>23, RingConsumed
<1>25. Control'
  BY <1>10, ConsumedIs
<1>26. Shapes'
  <2>1. blocks' \in Seq(BlockRecords)
    BY <1>6
  <2> QED BY <2>1, <1>10, ConsumedIs DEF Shapes
<1> QED BY <1>2, <1>11, <1>17, <1>18, <1>24, <1>25, <1>26 DEF Goes, Counts

-----------------------------------------------------------------------------
\* The inductive invariant.
QueueInv == Counts /\ Control /\ Shapes /\ \E R, q : Ring(R, q)

\* It holds at first, with no block in the ring.
LEMMA RingInit == Init => QueueInv
<1> SUFFICES ASSUME Init PROVE QueueInv
  OBVIOUS
<1>1. /\ tail = 0 /\ head = 0 /\ optimistic = 0 /\ overcommit = 0 /\ taken = {}
      /\ consumer = [c \in Consumers |-> "idle"] /\ local = [c \in Consumers |-> NoLocal]
      /\ blocks = <<>> /\ indexes = << EmptyIndex(InitialIndex) >>
      /\ tailBlock = 0 /\ slotsUsed = 0 /\ front = 0 /\ producer = "idle" /\ op = NoOp
  BY DEF Init, InitBase
<1>2. Claiming = {} /\ Busy = {}
  BY <1>1 DEF Claiming, Busy
<1>3. Pending = {} /\ PendingBelow(0) = {} /\ Cardinality({}) = 0
  BY <1>2, FS_EmptySet DEF Pending, PendingBelow
<1>4. CountTypes
  BY <1>1, NoLocalIs DEF CountTypes, ConsumerPlaces
<1>5. LocalsReserve
  BY <1>1 DEF LocalsReserve
<1>6. PlacesApart /\ PlacesCounted /\ Edge(0)
  <2>1. PlacesApart
    BY <1>2 DEF PlacesApart
  <2>2. PlacesCounted
    <3>1. Cardinality(Pending) = 0
      BY <1>3
    <3> QED BY <3>1, <1>1 DEF PlacesCounted
  <2>3. Edge(0)
    <3>1. Cardinality(PendingBelow(0)) = 0
      BY <1>3
    <3> QED BY <3>1, <1>1, <1>2 DEF Edge
  <2> QED BY <2>1, <2>2, <2>3
<1>7. CountInv
  BY <1>4, <1>5, <1>6 DEF CountInv
<1>8. RangesApart /\ TakenOnce
  BY <1>1, <1>2 DEF RangesApart, TakenOnce
<1>9. Control
  BY <1>1 DEF Control
<1>10. PICK n \in Nat, h \in {EmptyIndex(InitialIndex)} : n = InitialIndex /\ n >= 1 /\ h = EmptyIndex(n)
  BY QueueAssumption
<1>11. h.size = n /\ h \in Headers
  <2>1. /\ h = [size |-> n, front |-> -1, entries |-> [s \in 0..(n - 1) |-> [base |-> -1, block |-> 0]]]
    BY <1>10 DEF EmptyIndex
  <2>0. PICK e \in EntryRecords : e = [base |-> -1, block |-> 0]
    <3>1. -1 \in Int /\ 0 \in Int
      OBVIOUS
    <3> QED BY <3>1 DEF EntryRecords
  <2>2. PICK t \in [0..(n - 1) -> EntryRecords] : t = [s \in 0..(n - 1) |-> [base |-> -1, block |-> 0]]
    BY <2>0
  <2>3. h = [size |-> n, front |-> -1, entries |-> t]
    BY <2>1, <2>2
  <2>4. t \in UNION { [0..(m - 1) -> EntryRecords] : m \in Nat }
    BY <2>2
  <2>5. DOMAIN t = 0..(n - 1) /\ n \in Nat \ {0} /\ -1 \in Int
    BY <2>2, <1>10
  <2>6. h.size = n /\ h.entries = t
    BY <2>3
  <2> QED BY <2>3, <2>4, <2>5, <2>6 DEF Headers
<1>12. indexes = <<h>> /\ indexes \in Seq(Headers) /\ indexes # <<>> /\ Len(indexes) = 1
  BY <1>1, <1>10, <1>11
<1>13. Shapes
  BY <1>1, <1>12 DEF Shapes
<1>14. Len(blocks) = 0 /\ Size = n
  BY <1>1, <1>11, <1>12 DEF Size
<1>15. op.kind = "none"
  BY <1>1, OpKinds
<1>16. Top = -1 /\ Last = -1 /\ Marked = -1 /\ Low = 0
  <2>1. Ord(tail - 1) = -1
    BY <1>1, <1>7, NextOrd
  <2>2. Top = -1
    BY <2>1, <1>1, <1>15 DEF Top
  <2>3. Last = -1 /\ Marked = -1
    BY <2>2, <1>1, <1>15 DEF Last, Marked
  <2> QED BY <2>2, <2>3, <1>14 DEF Low
<1>17. PICK R \in [Int -> Int] : TRUE
  <2>1. [x \in Int |-> 0] \in [Int -> Int]
    OBVIOUS
  <2> QED BY <2>1
<1>18. Sized(R)
  BY <1>1, <1>10, <1>14, <1>15, <1>16 DEF Sized
<1>19. Fronts(0)
  <2>1. 0 % n = 0
    BY <1>10
  <2>2. (-1 + 1 + 0) = 0
    OBVIOUS
  <2> QED BY <2>1, <2>2, <1>1, <1>14, <1>16 DEF Fronts
<1>20. \A x : x \notin 0..(-1)
  OBVIOUS
<1>21. Links(R, blocks, Low, Top) /\ Shown(R, 0, Current, Low, Last)
  BY <1>16, <1>20 DEF Links, Apart, Shown
<1>22. Cells(R, blocks, Low, Top, tail) /\ Flags(R, blocks, Low, Marked)
  BY <1>16, <1>20 DEF Cells, Flags
<1>23. Floor(Low)
  <2>1. First(0) = 0
    BY FirstIs
  <2> QED BY <2>1, <1>16 DEF Floor
<1>24. Reads(R, 0) /\ Chained(R)
  BY <1>2, <1>15 DEF Reads, Chained
<1>25. Ring(R, 0)
  BY <1>17, <1>18, <1>19, <1>21, <1>22, <1>23, <1>24 DEF Ring
<1> QED BY <1>7, <1>8, <1>9, <1>13, <1>25 DEF QueueInv, Counts

\* The producer's steps publish, or change nothing that is promised.
LEMMA ProduceKept ==
    ASSUME Counts, Control, Shapes, NEW R, NEW q, Ring(R, q), Produce, BulkMayFail = FALSE
    PROVE  QueueInv' /\ UNCHANGED <<head, taken>> /\ (tail' = tail \/ tail' > tail)
<1>1. CountInv /\ RangesApart /\ TakenOnce /\ tail \in Nat
  BY DEF Counts, CountInv, CountTypes
<1>2. UNCHANGED <<head, optimistic, overcommit, consumer, local, taken>>
  BY DEF Produce, ReuseBlock, NeedBlock, NewBlock, WriteEntry, Continue, BeginBulk, BulkReuse,
         BulkNoReuse, BulkGrow, BulkNew, AllocationFails, BulkFront, Publish, counters, reading
<1>3. Kept /\ tail' \in Nat /\ (tail' = tail \/ tail' > tail)
  <2>1. CASE Publish
    BY <2>1, <1>1, PublishKept
  <2>2. CASE ~ Publish
    <3>1. tail' = tail
      BY <2>2 DEF Produce, ReuseBlock, NeedBlock, NewBlock, WriteEntry, Continue, BeginBulk, BulkReuse,
                  BulkNoReuse, BulkGrow, BulkNew, AllocationFails, BulkFront, counters
    <3>2. CASE ReuseBlock
      BY <3>1, <3>2, <1>1, ReuseKept
    <3>3. CASE NeedBlock
      BY <3>1, <3>3, <1>1, NeedKept
    <3>4. CASE NewBlock
      BY <3>1, <3>4, <1>1, NewKept
    <3>5. CASE WriteEntry
      BY <3>1, <3>5, <1>1, WriteKept
    <3>6. CASE Continue
      BY <3>1, <3>6, <1>1, ContinueKept
    <3>7. CASE \E n \in 1..MaxBulk : BeginBulk(n)
      BY <3>1, <3>7, <1>1, BeginKept
    <3>8. CASE BulkReuse
      BY <3>1, <3>8, <1>1, BulkReuseKept
    <3>9. CASE BulkNoReuse
      BY <3>1, <3>9, <1>1, NoReuseKept
    <3>10. CASE BulkGrow
      BY <3>1, <3>10, <1>1, GrowKept
    <3>11. CASE BulkNew
      BY <3>1, <3>11, <1>1, BulkNewKept
    <3>12. CASE AllocationFails
      BY <3>1, <3>12, <1>1, FailsKept
    <3>13. CASE BulkFront
      BY <3>1, <3>13, <1>1, FrontKept
    <3> QED BY <2>2, <3>2, <3>3, <3>4, <3>5, <3>6, <3>7, <3>8, <3>9, <3>10, <3>11, <3>12, <3>13 DEF Produce
  <2> QED BY <2>1, <2>2
<1>4. CountInv'
  <2>1. tail <= tail'
    BY <1>1, <1>3
  <2>2. consumer' \in [Consumers -> ConsumerPlaces] /\ local' \in [Consumers -> Locals]
    BY <1>1, <1>2 DEF CountInv, CountTypes
  <2>3. Elsewhere
    BY <2>1, <2>2, <1>2, <1>3 DEF Elsewhere
  <2> QED BY <2>3, <1>1, CountElsewhere
<1>5. Busy' = Busy /\ local' = local /\ consumer' = consumer /\ head' = head /\ taken' = taken
  BY <1>2 DEF Busy
<1>6. RangesApart'
  BY <1>1, <1>5 DEF RangesApart
<1>7. TakenOnce'
  <2>1. \A c \in Busy : Owed(c)' = Owed(c)
    BY <1>5 DEF Owed, End
  <2> QED BY <2>1, <1>1, <1>5 DEF TakenOnce
<1> QED BY <1>2, <1>3, <1>4, <1>6, <1>7 DEF Kept, QueueInv, Counts

\* A consumer's steps claim or deliver, or change nothing that is promised.
LEMMA ConsumeKept ==
    ASSUME Counts, Control, Shapes, NEW R, NEW q, Ring(R, q), NEW c \in Consumers, Consume(c)
    PROVE  /\ QueueInv'
           /\ \/ UNCHANGED <<tail, head, taken>>
              \/ head' \in (head + 1)..tail /\ UNCHANGED <<tail, taken>>
              \/ Delivers(c) /\ UNCHANGED <<tail, head>>
<1>1. Goes(R, q) => QueueInv'
  BY DEF Goes, QueueInv
<1>2. CASE LoadIndex(c)
  BY <1>1, <1>2, LoadKept
<1>3. CASE Copy(c)
  BY <1>1, <1>3, CopyKept
<1>4. CASE SetManyEmpty(c)
  BY <1>1, <1>4, EmptyKept
<1>5. CASE CountItems(c) /\ UNCHANGED <<blocks, indexes, enqueuing>>
  <2>1. CASE Reserve(c)
    BY <2>1, <1>1, <1>5, ReserveKept
  <2>2. CASE Claim(c)
    BY <2>2, <1>1, <1>5, ClaimKept
  <2>3. CASE \E max \in {1, MaxBulk} : Look(c, max)
    <3>1. PICK max \in {1, MaxBulk} : Look(c, max)
      BY <2>3
    <3>2. max \in Nat \ {0}
      BY BaseAssumption
    <3> QED BY <3>1, <3>2, <1>1, <1>5, LookKept
  <2> QED BY <2>1, <2>2, <2>3, <1>5 DEF CountItems
<1> QED BY <1>2, <1>3, <1>4, <1>5 DEF Consume

\* Each step keeps it, and is a step of the abstract queue or none.
LEMMA QueueStep ==
    ASSUME QueueInv, [Next]_vars, BulkMayFail = FALSE
    PROVE  QueueInv' /\ [Queue!Next]_<<tail, head, taken>>
<1>1. Counts /\ Control /\ Shapes /\ tail \in Nat /\ head \in Nat
  BY DEF QueueInv, Counts, CountInv, CountTypes
<1>2. PICK R, q : Ring(R, q)
  BY DEF QueueInv
<1>3. CASE Produce
  <2>1. QueueInv' /\ UNCHANGED <<head, taken>> /\ (tail' = tail \/ tail' > tail)
    BY <1>1, <1>2, <1>3, ProduceKept
  <2>2. [Queue!Next]_<<tail, head, taken>>
    BY <2>1 DEF Queue!Next, Queue!Publish
  <2> QED BY <2>1, <2>2
<1>4. ASSUME NEW c \in Consumers, Consume(c) PROVE QueueInv' /\ [Queue!Next]_<<tail, head, taken>>
  <2>1. /\ QueueInv'
        /\ \/ UNCHANGED <<tail, head, taken>>
           \/ head' \in (head + 1)..tail /\ UNCHANGED <<tail, taken>>
           \/ Delivers(c) /\ UNCHANGED <<tail, head>>
    BY <1>1, <1>2, <1>4, ConsumeKept
  <2>2. head' \in (head + 1)..tail /\ UNCHANGED <<tail, taken>> => Queue!Next
    BY DEF Queue!Next, Queue!Claim
  <2>3. Delivers(c) /\ UNCHANGED <<tail, head>> => Queue!Next
    BY DEF Delivers, Queue!Next, Queue!Deliver
  <2> QED BY <2>1, <2>2, <2>3
<1>5. CASE UNCHANGED vars
  <2>1. /\ UNCHANGED <<tail, head, optimistic, overcommit, consumer, local, taken>>
        /\ UNCHANGED <<blocks, indexes, tailBlock, slotsUsed, front, producer, op>>
    BY <1>5 DEF vars, counters, reading, private
  <2>2. Consumed /\ SameBlocks
    BY <2>1, <1>5 DEF Consumed, enqueuing, SameBlocks, private, vars
  <2>3. CountInv' /\ RangesApart' /\ TakenOnce'
    <3>1. tail' \in Nat /\ tail <= tail'
      BY <2>1, <1>1
    <3>2. consumer' \in [Consumers -> ConsumerPlaces] /\ local' \in [Consumers -> Locals]
      BY <2>1, <1>1 DEF Counts, CountInv, CountTypes
    <3>3. Elsewhere
      BY <2>1, <3>1, <3>2 DEF Elsewhere
    <3>4. CountInv'
      BY <3>3, <1>1, CountElsewhere DEF Counts
    <3>5. Busy' = Busy /\ \A c \in Busy : Owed(c)' = Owed(c)
      BY <2>1 DEF Busy, Owed, End
    <3> QED BY <2>1, <3>4, <3>5, <1>1 DEF Counts, RangesApart, TakenOnce
  <2>4. FreeStays /\ FlagsOf(R)
    BY <2>1 DEF FreeStays, Free, FlagsOf, Busy
  <2>5. Reads(R, q)'
    <3>1. ASSUME NEW d \in Busy', consumer'[d] # "index" PROVE GoesOn(d)
      <4>1. d \in Busy /\ consumer[d] # "index" /\ local'[d] = local[d]
        BY <3>1, <2>1 DEF Busy
      <4>2. local[d].next \in Nat
        BY <4>1, <1>1, EndIs DEF Counts
      <4> QED BY <4>1, <4>2 DEF GoesOn
    <3> QED BY <3>1, <1>1, <1>2, <2>2, ReadsConsumed DEF Counts
  <2>6. Ring(R, q)'
    BY <1>1, <1>2, <2>2, <2>4, <2>5, RingConsumed DEF Counts
  <2>7. Control' /\ Shapes'
    BY <2>1, <2>2, <1>1, ConsumedIs DEF Shapes
  <2> QED BY <2>1, <2>3, <2>6, <2>7 DEF QueueInv, Counts
<1> QED BY <1>3, <1>4, <1>5 DEF Next

(* Consumers race the producer without locks (concurrentqueue.h:1800-2477): *)
(* they reserve places against counters that are old, look their blocks up  *)
(* in indexes that are replaced and through entries and blocks that are     *)
(* reused, and copy items while others are enqueued, one by one or in bulk. *)
(* Whatever the size of the blocks, of the first index and of the bulks,    *)
(* and for any number of consumers, it is a queue from which each item that *)
(* was put in is claimed in order, at most once, and delivered as it was,   *)
(* at most once.                                                            *)
THEOREM QueueImplemented == BulkMayFail = FALSE => (Spec => ImplementsQueue)
<1> SUFFICES ASSUME BulkMayFail = FALSE PROVE Spec => ImplementsQueue
  OBVIOUS
<1>1. Init => QueueInv
  BY RingInit
<1>2. Init => Queue!Init
  BY DEF Init, InitBase, Queue!Init
<1>3. QueueInv /\ [Next]_vars => QueueInv' /\ [Queue!Next]_Queue!vars
  BY QueueStep DEF Queue!vars
<1> QED BY <1>1, <1>2, <1>3, PTL DEF Spec, ImplementsQueue, Queue!Spec


\* A set of naturals has a least one.
LEMMA Least == ASSUME NEW T, T \subseteq Nat, T # {} PROVE \E x \in T : \A y \in T : x <= y
<1>1. \E x \in T : \A y \in T : ~ (<<y, x>> \in OpToRel(<, Nat))
  BY WFMin, NatLessThanWellFounded
<1>2. PICK x \in T : \A y \in T : ~ (<<y, x>> \in OpToRel(<, Nat))  BY <1>1
<1>3. ASSUME NEW y \in T, y < x PROVE FALSE
  <2>1. <<y, x>> \in OpToRel(<, Nat)  BY <1>3 DEF OpToRel
  <2> QED BY <2>1, <1>2
<1> QED BY <1>3

-----------------------------------------------------------------------------
\* The table of implicit producers.

HashPlaces == {"idle", "search", "check", "resize", "room", "insert"}
LEMMA NobodyElse == ASSUME NEW t \in Enqueuers PROVE t # Hash!Nobody
<1>1. Hash!Nobody \notin Enqueuers
  BY EnqueuersAssumption
<1> QED BY <1>1

Entry == [key : Enqueuers \cup {Hash!Nobody}, value : Nat]
Tables == UNION { [0..(n - 1) -> Entry] : n \in Nat \ {0} }
HashLocals == [main : Nat, count : Int, capacity : Nat, slot : Nat, value : Nat]

HashTypes ==
    /\ tables \in Seq(Tables) /\ Len(tables) >= 1
    /\ count \in Int /\ created \in Nat
    /\ resizing \in Enqueuers \cup {Hash!Nobody}
    /\ home \in [Enqueuers -> Nat]
    /\ pc \in [Enqueuers -> HashPlaces]
    /\ locals \in [Enqueuers -> HashLocals]
    /\ given \in [Enqueuers -> SUBSET Nat]

\* Three quarters of a table, as Roomy has it.
Quarters(i) == (Hash!Capacity(i) \div 2) + (Hash!Capacity(i) \div 4)
Has(i, t) == \E s \in DOMAIN tables[i] : tables[i][s].key = t
InTables(t) == \E i \in DOMAIN tables : Has(i, t)
Fresh(t) == \/ pc[t] \in {"check", "resize", "room"}
            \/ pc[t] = "insert" /\ locals[t].count > 0

LEMMA TableSize ==
    ASSUME NEW f \in Tables
    PROVE  \E n \in Nat \ {0} : /\ DOMAIN f = 0..(n - 1) /\ Cardinality(DOMAIN f) = n
                                /\ f \in [0..(n - 1) -> Entry]
<1>1. PICK n \in Nat \ {0} : f \in [0..(n - 1) -> Entry]
  BY DEF Tables
<1>2. DOMAIN f = 0..(n - 1)
  BY <1>1
<1>3. Cardinality(0..(n - 1)) = n
  BY FS_Interval
<1> QED BY <1>1, <1>2, <1>3

LEMMA CapacityType ==
    ASSUME HashTypes, NEW i \in DOMAIN tables
    PROVE  /\ tables[i] \in Tables
           /\ Hash!Capacity(i) \in Nat \ {0} /\ Quarters(i) \in Nat /\ Quarters(i) <= Hash!Capacity(i)
           /\ DOMAIN tables[i] = 0..(Hash!Capacity(i) - 1)
           /\ tables[i] \in [0..(Hash!Capacity(i) - 1) -> Entry]
<1>1. tables[i] \in Tables
  BY DEF HashTypes
<1>2. PICK n \in Nat \ {0} : /\ DOMAIN tables[i] = 0..(n - 1) /\ Cardinality(DOMAIN tables[i]) = n
                             /\ tables[i] \in [0..(n - 1) -> Entry]
  BY <1>1, TableSize
<1>3. Hash!Capacity(i) = n
  BY <1>2 DEF Hash!Capacity, Hash!Cardinality, Cardinality
<1>4. Quarters(i) = (n \div 2) + (n \div 4)
  BY <1>3 DEF Quarters
<1>5. (n \div 2) + (n \div 4) \in Nat /\ (n \div 2) + (n \div 4) <= n
  BY DEF HashTypes
<1> QED BY <1>1, <1>2, <1>3, <1>4, <1>5

\* What is where in the tables, apart from who probes.
LEMMA EmptyIsTable ==
    ASSUME NEW n \in Nat \ {0}
    PROVE  /\ Hash!EmptyTable(n) \in Tables /\ Cardinality(DOMAIN Hash!EmptyTable(n)) = n
           /\ \A s \in DOMAIN Hash!EmptyTable(n) : Hash!EmptyTable(n)[s].key = Hash!Nobody
<1>1. Hash!EmptyTable(n) \in [0..(n - 1) -> Entry] /\ DOMAIN Hash!EmptyTable(n) = 0..(n - 1)
  BY DEF Hash!EmptyTable, Entry, Hash!Nobody
<1>2. Hash!EmptyTable(n) \in Tables
  BY <1>1 DEF Tables
<1>3. Cardinality(0..(n - 1)) = n
  BY FS_Interval
<1>4. \A s \in DOMAIN Hash!EmptyTable(n) : Hash!EmptyTable(n)[s].key = Hash!Nobody
  BY DEF Hash!EmptyTable
<1> QED BY <1>1, <1>2, <1>3, <1>4

\* A new table leaves the others, and holds nobody.
LEMMA Appended ==
    ASSUME HashTypes, NEW n \in Nat \ {0}, tables' = Append(tables, Hash!EmptyTable(n))
    PROVE  /\ tables' \in Seq(Tables) /\ Len(tables') = Len(tables) + 1
           /\ \A i \in DOMAIN tables : i \in DOMAIN tables' /\ tables'[i] = tables[i]
           /\ \A i \in DOMAIN tables' : i \in DOMAIN tables \/ i = Len(tables')
           /\ tables'[Len(tables')] = Hash!EmptyTable(n)
BY EmptyIsTable DEF HashTypes

\* An insertion fills one slot.
LEMMA SlotFilled ==
    ASSUME HashTypes, NEW i \in DOMAIN tables, NEW s \in DOMAIN tables[i], NEW e \in Entry,
           tables' = [tables EXCEPT ![i][s] = e]
    PROVE  /\ tables' \in Seq(Tables) /\ Len(tables') = Len(tables)
           /\ DOMAIN tables' = DOMAIN tables
           /\ \A j \in DOMAIN tables : DOMAIN tables'[j] = DOMAIN tables[j]
           /\ \A j \in DOMAIN tables : \A r \in DOMAIN tables[j] :
                tables'[j][r] = IF j = i /\ r = s THEN e ELSE tables[j][r]
<1>1. PICK n \in Nat \ {0} : tables[i] \in [0..(n - 1) -> Entry] /\ DOMAIN tables[i] = 0..(n - 1)
  BY TableSize DEF HashTypes
<1>2. [tables[i] EXCEPT ![s] = e] \in [0..(n - 1) -> Entry]
  BY <1>1
<1>3. [tables[i] EXCEPT ![s] = e] \in Tables
  BY <1>2 DEF Tables
<1>4. tables' = [tables EXCEPT ![i] = [tables[i] EXCEPT ![s] = e]]
  OBVIOUS
<1>5. tables' \in Seq(Tables) /\ Len(tables') = Len(tables) /\ DOMAIN tables' = DOMAIN tables
  BY <1>3, <1>4 DEF HashTypes
<1>6. \A j \in DOMAIN tables : tables'[j] = IF j = i THEN [tables[i] EXCEPT ![s] = e] ELSE tables[j]
  BY <1>4 DEF HashTypes
<1>7. DOMAIN [tables[i] EXCEPT ![s] = e] = DOMAIN tables[i]
  OBVIOUS
<1>8. \A r \in DOMAIN tables[i] : [tables[i] EXCEPT ![s] = e][r] = IF r = s THEN e ELSE tables[i][r]
  OBVIOUS
<1> QED BY <1>5, <1>6, <1>7, <1>8

Placed(t) ==
    /\ pc[t] \in {"idle", "search"} => locals[t].count = 0
    /\ pc[t] # "idle" =>
         locals[t].main \in DOMAIN tables /\ \A i \in DOMAIN tables : Has(i, t) => i <= locals[t].main
    /\ Fresh(t) => ~ InTables(t) /\ locals[t].count >= 1
    /\ pc[t] = "insert" => /\ ~ Has(locals[t].main, t)
                           /\ locals[t].count > 0 => locals[t].count < Quarters(locals[t].main)
                           /\ locals[t].count <= 0 => InTables(t)
    /\ pc[t] = "resize" => /\ resizing = t /\ locals[t].main = Len(tables)
                           /\ locals[t].capacity >= Hash!Capacity(Len(tables))

Growing == \A i, j \in DOMAIN tables : i <= j => Hash!Capacity(i) <= Hash!Capacity(j)
Single ==
    \A i \in DOMAIN tables : \A r, s \in DOMAIN tables[i] :
        tables[i][r].key = tables[i][s].key /\ tables[i][r].key # Hash!Nobody => r = s

PlaceInv == (\A t \in Enqueuers : Placed(t)) /\ Growing /\ Single

\* What a step leaves of the tables, and what it leaves in them for a thread.
TablesGrown ==
    /\ DOMAIN tables \subseteq DOMAIN tables' /\ Len(tables') >= Len(tables)
    /\ \A i \in DOMAIN tables : Hash!Capacity(i)' = Hash!Capacity(i)
KeptFor(u) == \A i \in DOMAIN tables' : Has(i, u)' <=> i \in DOMAIN tables /\ Has(i, u)

LEMMA SameTables ==
    ASSUME UNCHANGED tables, HashTypes
    PROVE  TablesGrown /\ \A u : KeptFor(u)
BY DEF TablesGrown, KeptFor, Has, Hash!Capacity, HashTypes

LEMMA AppendKeeps ==
    ASSUME HashTypes, NEW n \in Nat \ {0}, tables' = Append(tables, Hash!EmptyTable(n)),
           NEW u \in Enqueuers
    PROVE  TablesGrown /\ KeptFor(u)
<1>1. /\ tables' \in Seq(Tables) /\ Len(tables') = Len(tables) + 1
      /\ \A i \in DOMAIN tables : i \in DOMAIN tables' /\ tables'[i] = tables[i]
      /\ \A i \in DOMAIN tables' : i \in DOMAIN tables \/ i = Len(tables')
      /\ tables'[Len(tables')] = Hash!EmptyTable(n)
  BY Appended
<1>2. Len(tables) \in Nat /\ DOMAIN tables = 1..Len(tables)
  BY DEF HashTypes
<1>3. TablesGrown
  <2>1. \A i \in DOMAIN tables : Hash!Capacity(i)' = Hash!Capacity(i)
    BY <1>1 DEF Hash!Capacity
  <2>2. DOMAIN tables \subseteq DOMAIN tables'
    BY <1>1
  <2>3. Len(tables') >= Len(tables)
    BY <1>1, <1>2
  <2> QED BY <2>1, <2>2, <2>3 DEF TablesGrown
<1>4. \A i \in DOMAIN tables : Has(i, u)' <=> Has(i, u)
  BY <1>1 DEF Has
<1>5. Len(tables') \notin DOMAIN tables
  BY <1>1, <1>2
<1>6. ASSUME NEW i \in DOMAIN tables', i \notin DOMAIN tables PROVE ~ Has(i, u)'
  <2>1. tables'[i] = Hash!EmptyTable(n)
    BY <1>1, <1>6
  <2> QED BY <2>1, EmptyIsTable, EnqueuersAssumption DEF Has
<1> QED BY <1>1, <1>3, <1>4, <1>6 DEF KeptFor

LEMMA InsertKeeps ==
    ASSUME HashTypes, NEW i \in DOMAIN tables, NEW s \in DOMAIN tables[i], NEW t \in Enqueuers,
           NEW v \in Nat, tables[i][s].key = Hash!Nobody,
           tables' = [tables EXCEPT ![i][s] = [key |-> t, value |-> v]]
    PROVE  /\ TablesGrown /\ DOMAIN tables' = DOMAIN tables
           /\ \A u \in Enqueuers \ {t} : KeptFor(u)
           /\ \A j \in DOMAIN tables' : Has(j, t)' <=> Has(j, t) \/ j = i
<1> DEFINE e == [key |-> t, value |-> v]
<1>1. e \in Entry
  BY DEF Entry
<1>2. /\ DOMAIN tables' = DOMAIN tables /\ Len(tables') = Len(tables)
      /\ \A j \in DOMAIN tables : DOMAIN tables'[j] = DOMAIN tables[j]
      /\ \A j \in DOMAIN tables : \A r \in DOMAIN tables[j] :
           tables'[j][r] = IF j = i /\ r = s THEN e ELSE tables[j][r]
  BY <1>1, SlotFilled, Zenon
<1>3. TablesGrown
  BY <1>2 DEF TablesGrown, Hash!Capacity, HashTypes
<1>4. ASSUME NEW u \in Enqueuers \ {t} PROVE KeptFor(u)
  BY <1>2, <1>4, EnqueuersAssumption DEF KeptFor, Has
<1>5. \A j \in DOMAIN tables' : Has(j, t)' <=> Has(j, t) \/ j = i
  BY <1>2, EnqueuersAssumption DEF Has
<1> QED BY <1>2, <1>3, <1>4, <1>5

LEMMA KeptListed ==
    ASSUME NEW u, TablesGrown, KeptFor(u)
    PROVE  InTables(u)' <=> InTables(u)
BY DEF TablesGrown, KeptFor, InTables

\* A step of another thread.
LEMMA PlacedStays ==
    ASSUME HashTypes, NEW u \in Enqueuers, Placed(u), TablesGrown, KeptFor(u),
           pc'[u] = pc[u], locals'[u] = locals[u],
           pc[u] = "resize" => resizing' = resizing /\ Len(tables') = Len(tables)
    PROVE  Placed(u)'
<1>1. InTables(u)' <=> InTables(u)
  BY KeptListed
<1>2. Fresh(u)' <=> Fresh(u)
  BY DEF Fresh
<1>3. \A i \in DOMAIN tables : Quarters(i)' = Quarters(i)
  BY DEF TablesGrown, Quarters
<1>4. pc[u] = "resize" => Hash!Capacity(Len(tables))' = Hash!Capacity(Len(tables))
  BY DEF TablesGrown, HashTypes
<1> QED BY <1>1, <1>2, <1>3, <1>4 DEF Placed, TablesGrown, KeptFor

\* What the thread of a step does to the tables.
LEMMA NoInsert ==
    ASSUME HashTypes, NEW t \in Enqueuers,
           \/ Hash!Begin(t) \/ Hash!Found(t) \/ Hash!FoundDeep(t) \/ Hash!NotFound(t) \/ Hash!Lock(t) \/ Hash!NoLock(t)
           \/ Hash!Double(t) \/ Hash!AllocationFails(t) \/ Hash!CreateProducer(t) \/ Hash!LookAgain(t) \/ Hash!Probe(t)
    PROVE  UNCHANGED tables
BY DEF Hash!Begin, Hash!Found, Hash!FoundDeep, Hash!NotFound, Hash!Lock, Hash!NoLock, Hash!Double, Hash!AllocationFails, Hash!CreateProducer,
       Hash!LookAgain, Hash!Probe, Hash!shared

LEMMA Others ==
    ASSUME HashTypes, PlaceInv, NEW t \in Enqueuers, Hash!Enqueuer(t), NEW u \in Enqueuers, u # t
    PROVE  /\ pc'[u] = pc[u] /\ locals'[u] = locals[u] /\ given'[u] = given[u]
           /\ resizing = u => resizing' = u
<1>1. pc'[u] = pc[u]
  BY DEF HashTypes, Hash!Enqueuer, Hash!Begin, Hash!Found, Hash!FoundDeep, Hash!NotFound, Hash!Lock, Hash!NoLock, Hash!Double, Hash!Resize,
         Hash!AllocationFails, Hash!CreateProducer, Hash!LookAgain, Hash!Insert, Hash!Probe, Hash!Step, Hash!Return
<1>2. locals'[u] = locals[u]
  BY DEF HashTypes, Hash!Enqueuer, Hash!Begin, Hash!Found, Hash!FoundDeep, Hash!NotFound, Hash!Lock, Hash!NoLock, Hash!Double, Hash!Resize,
         Hash!AllocationFails, Hash!CreateProducer, Hash!LookAgain, Hash!Insert, Hash!Probe, Hash!Step, Hash!Return
<1>3. given'[u] = given[u]
  BY DEF HashTypes, Hash!Enqueuer, Hash!Begin, Hash!Found, Hash!FoundDeep, Hash!NotFound, Hash!Lock, Hash!NoLock, Hash!Double, Hash!Resize,
         Hash!AllocationFails, Hash!CreateProducer, Hash!LookAgain, Hash!Insert, Hash!Probe, Hash!Step, Hash!Return
<1>4. resizing = u => resizing' = u
  BY EnqueuersAssumption DEF PlaceInv, Placed, Hash!Enqueuer, Hash!Begin, Hash!Found, Hash!FoundDeep, Hash!NotFound, Hash!Lock, Hash!NoLock,
         Hash!Double, Hash!Resize, Hash!AllocationFails, Hash!CreateProducer, Hash!LookAgain, Hash!Insert, Hash!Probe, Hash!Step, Hash!Return, Hash!shared
<1> QED BY <1>1, <1>2, <1>3, <1>4

LEMMA SlotInTable ==
    ASSUME HashTypes, NEW t \in Enqueuers, locals[t].main \in DOMAIN tables
    PROVE  Hash!Slot(t) \in DOMAIN tables[locals[t].main] /\ Hash!Slot(t) \in Nat
<1>1. locals[t].slot \in Nat
  BY DEF HashTypes, HashLocals
<1>2. /\ Hash!Capacity(locals[t].main) \in Nat \ {0}
      /\ DOMAIN tables[locals[t].main] = 0..(Hash!Capacity(locals[t].main) - 1)
  BY CapacityType
<1> QED BY <1>1, <1>2 DEF Hash!Slot

\* The locals field by field, as each step leaves them.
HashMoved(t, main, n, capacity, slot, value) ==
    /\ locals' \in [Enqueuers -> HashLocals]
    /\ locals'[t].main = main /\ locals'[t].count = n /\ locals'[t].capacity = capacity
    /\ locals'[t].slot = slot /\ locals'[t].value = value

LEMMA Fields ==
    ASSUME HashTypes, NEW t \in Enqueuers
    PROVE  /\ locals[t].main \in Nat /\ locals[t].count \in Int /\ locals[t].capacity \in Nat
           /\ locals[t].slot \in Nat /\ locals[t].value \in Nat
BY DEF HashTypes, HashLocals

LEMMA SetMain ==
    ASSUME HashTypes, NEW t \in Enqueuers, NEW x \in Nat, locals' = [locals EXCEPT ![t].main = x]
    PROVE  HashMoved(t, x, locals[t].count, locals[t].capacity, locals[t].slot, locals[t].value)
BY DEF HashTypes, HashLocals, HashMoved

LEMMA SetCount ==
    ASSUME HashTypes, NEW t \in Enqueuers, NEW x \in Int, locals' = [locals EXCEPT ![t].count = x]
    PROVE  HashMoved(t, locals[t].main, x, locals[t].capacity, locals[t].slot, locals[t].value)
BY DEF HashTypes, HashLocals, HashMoved

LEMMA SetSlot ==
    ASSUME HashTypes, NEW t \in Enqueuers, NEW x \in Nat, locals' = [locals EXCEPT ![t].slot = x]
    PROVE  HashMoved(t, locals[t].main, locals[t].count, locals[t].capacity, x, locals[t].value)
BY DEF HashTypes, HashLocals, HashMoved

LEMMA SetCapacity ==
    ASSUME HashTypes, NEW t \in Enqueuers, NEW x \in Nat, locals' = [locals EXCEPT ![t].capacity = x]
    PROVE  HashMoved(t, locals[t].main, locals[t].count, x, locals[t].slot, locals[t].value)
BY DEF HashTypes, HashLocals, HashMoved

LEMMA SetMainCapacity ==
    ASSUME HashTypes, NEW t \in Enqueuers, NEW x \in Nat, NEW y \in Nat,
           locals' = [locals EXCEPT ![t].main = x, ![t].capacity = y]
    PROVE  HashMoved(t, x, locals[t].count, y, locals[t].slot, locals[t].value)
BY DEF HashTypes, HashLocals, HashMoved

LEMMA SetValueSlot ==
    ASSUME HashTypes, NEW t \in Enqueuers, NEW x \in Nat, NEW y \in Nat,
           locals' = [locals EXCEPT ![t].value = x, ![t].slot = y]
    PROVE  HashMoved(t, locals[t].main, locals[t].count, locals[t].capacity, y, x)
BY DEF HashTypes, HashLocals, HashMoved

LEMMA SetNothing ==
    ASSUME HashTypes, NEW t \in Enqueuers, locals' = [locals EXCEPT ![t] = Hash!NoLocals]
    PROVE  HashMoved(t, 0, 0, 0, 0, Hash!Nobody)
BY DEF HashTypes, HashLocals, HashMoved, Hash!NoLocals, Hash!Nobody

LEMMA SetPc ==
    ASSUME HashTypes, NEW t \in Enqueuers, NEW p \in HashPlaces, pc' = [pc EXCEPT ![t] = p]
    PROVE  pc' \in [Enqueuers -> HashPlaces] /\ pc'[t] = p
BY DEF HashTypes

LEMMA ValueType ==
    ASSUME HashTypes, NEW t \in Enqueuers, NEW i \in DOMAIN tables, Has(i, t)
    PROVE  /\ Hash!ValueIn(t, i) \in Nat
           /\ \E s \in DOMAIN tables[i] : tables[i][s].key = t /\ tables[i][s].value = Hash!ValueIn(t, i)
<1>1. PICK s \in DOMAIN tables[i] : tables[i][s].key = t
  BY DEF Has
<1>2. PICK r : r = CHOOSE s1 \in DOMAIN tables[i] : tables[i][s1].key = t
  OBVIOUS
<1>3. r \in DOMAIN tables[i] /\ tables[i][r].key = t
  BY <1>1, <1>2
<1>4. Hash!ValueIn(t, i) = tables[i][r].value
  BY <1>2 DEF Hash!ValueIn
<1>5. tables[i][r] \in Entry
  BY <1>3, CapacityType
<1> QED BY <1>3, <1>4, <1>5 DEF Entry

LEMMA HoldingHas ==
    ASSUME HashTypes, NEW t \in Enqueuers, locals[t].main \in DOMAIN tables
    PROVE  \A i : i \in Hash!Holding(t) <=> i \in DOMAIN tables /\ i <= locals[t].main /\ Has(i, t)
BY DEF Hash!Holding, Has, HashTypes

\* The latest table with the thread's id, when there is one.
LEMMA LatestHolding ==
    ASSUME HashTypes, NEW t \in Enqueuers, locals[t].main \in DOMAIN tables, Hash!Holding(t) # {}
    PROVE  Hash!Latest(Hash!Holding(t)) \in Hash!Holding(t)
<1>1. Hash!Holding(t) \subseteq 1..locals[t].main
  BY DEF Hash!Holding
<1>2. \E i \in Hash!Holding(t) : \A j \in Hash!Holding(t) : j <= i
  <2> DEFINE up == { n \in 0..locals[t].main : locals[t].main - n \in Hash!Holding(t) }
  <2>1. up \subseteq Nat /\ up # {}
    <3>1. PICK i : i \in Hash!Holding(t)
      OBVIOUS
    <3>2. i \in 1..locals[t].main
      BY <1>1, <3>1
    <3>3. locals[t].main - i \in 0..locals[t].main /\ locals[t].main - (locals[t].main - i) = i
      BY <3>2, Fields
    <3> QED BY <3>1, <3>3
  <2>2. PICK n \in up : \A m \in up : n <= m
    BY <2>1, Least
  <2>3. ASSUME NEW j \in Hash!Holding(t) PROVE j <= locals[t].main - n
    <3>1. j \in 1..locals[t].main /\ locals[t].main \in Nat
      BY <1>1, <2>3, Fields
    <3>2. locals[t].main - j \in 0..locals[t].main /\ locals[t].main - (locals[t].main - j) = j
      BY <3>1
    <3>3. locals[t].main - j \in up
      BY <3>2, <2>3
    <3> QED BY <2>2, <3>1, <3>2, <3>3
  <2> QED BY <2>2, <2>3
<1> QED BY <1>2 DEF Hash!Latest

\* What a resizing or an insertion does to the tables.
LEMMA ResizedTables ==
    ASSUME HashTypes, PlaceInv, NEW t \in Enqueuers, Hash!Resize(t)
    PROVE  /\ tables' \in Seq(Tables) /\ Len(tables') >= Len(tables) /\ Len(tables') \in Nat
           /\ TablesGrown /\ \A u \in Enqueuers : KeptFor(u)
<1>1. CASE Hash!Larger(t)
  <2>1. locals[t].main \in DOMAIN tables /\ Hash!Capacity(locals[t].main) \in Nat \ {0}
        /\ locals[t].main = Len(tables) /\ locals[t].capacity >= Hash!Capacity(Len(tables))
    BY CapacityType DEF Hash!Resize, Hash!Step, PlaceInv, Placed
  <2>2. locals[t].capacity \in Nat \ {0}
    BY <2>1, Fields
  <2>3. tables' = Append(tables, Hash!EmptyTable(locals[t].capacity))
    BY <1>1 DEF Hash!Resize
  <2> QED BY <2>2, <2>3, Appended, AppendKeeps DEF HashTypes
<1>2. CASE ~ Hash!Larger(t)
  BY <1>2, SameTables DEF Hash!Resize, HashTypes
<1> QED BY <1>1, <1>2

LEMMA InsertedTables ==
    ASSUME HashTypes, PlaceInv, NEW t \in Enqueuers, Hash!Insert(t)
    PROVE  /\ tables' \in Seq(Tables) /\ Len(tables') = Len(tables)
           /\ TablesGrown /\ DOMAIN tables' = DOMAIN tables
           /\ \A u \in Enqueuers \ {t} : KeptFor(u)
           /\ \A j \in DOMAIN tables' : Has(j, t)' <=> Has(j, t) \/ j = locals[t].main
<1>1. locals[t].main \in DOMAIN tables /\ Hash!Slot(t) \in DOMAIN tables[locals[t].main] /\ locals[t].value \in Nat
  BY SlotInTable, Fields DEF Hash!Insert, PlaceInv, Placed
<1>2. [key |-> t, value |-> locals[t].value] \in Entry
  BY <1>1 DEF Entry
<1>3. tables' \in Seq(Tables) /\ Len(tables') = Len(tables)
  BY <1>1, <1>2, SlotFilled DEF Hash!Insert
<1>4. tables[locals[t].main][Hash!Slot(t)].key = Hash!Nobody
  BY DEF Hash!Insert, Hash!Free
<1>5. tables' = [tables EXCEPT ![locals[t].main][Hash!Slot(t)] = [key |-> t, value |-> locals[t].value]]
  BY DEF Hash!Insert
<1>6. PICK i \in DOMAIN tables : i = locals[t].main
  BY <1>1
<1>7. PICK s \in DOMAIN tables[i] : s = Hash!Slot(t)
  BY <1>1, <1>6
<1>8. PICK v \in Nat : v = locals[t].value
  BY <1>1
<1>9. tables' = [tables EXCEPT ![i][s] = [key |-> t, value |-> v]] /\ tables[i][s].key = Hash!Nobody
  BY <1>4, <1>5, <1>6, <1>7, <1>8
<1>10. /\ TablesGrown /\ DOMAIN tables' = DOMAIN tables
       /\ \A u \in Enqueuers \ {t} : KeptFor(u)
       /\ \A j \in DOMAIN tables' : Has(j, t)' <=> Has(j, t) \/ j = i
  BY <1>9, InsertKeeps
<1> QED BY <1>3, <1>6, <1>10

\* Where a step leaves its thread.
LEMMA HashMoves ==
    ASSUME HashTypes, PlaceInv, NEW t \in Enqueuers
    PROVE  /\ Hash!Begin(t) => HashMoved(t, Len(tables), locals[t].count, locals[t].capacity, locals[t].slot, locals[t].value)
           /\ Hash!Found(t) \/ Hash!AllocationFails(t) \/ Hash!Insert(t) => HashMoved(t, 0, 0, 0, 0, Hash!Nobody)
           /\ Hash!FoundDeep(t) => HashMoved(t, locals[t].main, locals[t].count, locals[t].capacity, home[t],
                                    Hash!ValueIn(t, Hash!Latest(Hash!Holding(t))))
           /\ Hash!NotFound(t) => HashMoved(t, locals[t].main, count + 1, locals[t].capacity, locals[t].slot, locals[t].value)
           /\ Hash!Lock(t) => HashMoved(t, Len(tables), locals[t].count, Hash!Capacity(Len(tables)), locals[t].slot, locals[t].value)
           /\ Hash!NoLock(t) => UNCHANGED locals
           /\ Hash!Double(t) => HashMoved(t, locals[t].main, locals[t].count, 2 * locals[t].capacity, locals[t].slot, locals[t].value)
           /\ Hash!Resize(t) => HashMoved(t, Len(tables'), locals[t].count, locals[t].capacity, locals[t].slot, locals[t].value)
           /\ Hash!CreateProducer(t) => HashMoved(t, locals[t].main, locals[t].count, locals[t].capacity, home[t], created + 1)
           /\ Hash!LookAgain(t) => HashMoved(t, Len(tables), locals[t].count, locals[t].capacity, locals[t].slot, locals[t].value)
           /\ Hash!Probe(t) => HashMoved(t, locals[t].main, locals[t].count, locals[t].capacity, Hash!Slot(t) + 1, locals[t].value)
<1>1. /\ Len(tables) \in Nat /\ Len(tables) \in DOMAIN tables /\ Hash!Capacity(Len(tables)) \in Nat
      /\ 2 * locals[t].capacity \in Nat /\ created + 1 \in Nat /\ count + 1 \in Int /\ home[t] \in Nat
  <2>1. Len(tables) \in Nat /\ Len(tables) \in DOMAIN tables /\ home[t] \in Nat
    BY Fields DEF HashTypes
  <2>2. Hash!Capacity(Len(tables)) \in Nat
    BY <2>1, CapacityType
  <2>3. locals[t].capacity \in Nat /\ created \in Nat /\ count \in Int
    BY Fields DEF HashTypes
  <2>4. 2 * locals[t].capacity \in Nat /\ created + 1 \in Nat /\ count + 1 \in Int
    BY <2>3
  <2> QED BY <2>1, <2>2, <2>4
<1>2. Hash!Begin(t) \/ Hash!LookAgain(t) => HashMoved(t, Len(tables), locals[t].count, locals[t].capacity, locals[t].slot, locals[t].value)
  BY <1>1, SetMain DEF Hash!Begin, Hash!LookAgain, Hash!Current
<1>3. Hash!Found(t) \/ Hash!AllocationFails(t) \/ Hash!Insert(t) => HashMoved(t, 0, 0, 0, 0, Hash!Nobody)
  BY SetNothing DEF Hash!Found, Hash!AllocationFails, Hash!Insert, Hash!Return
<1>4. Hash!FoundDeep(t) => HashMoved(t, locals[t].main, locals[t].count, locals[t].capacity, home[t],
                            Hash!ValueIn(t, Hash!Latest(Hash!Holding(t))))
  <2> SUFFICES ASSUME Hash!FoundDeep(t)
               PROVE  HashMoved(t, locals[t].main, locals[t].count, locals[t].capacity, home[t],
                            Hash!ValueIn(t, Hash!Latest(Hash!Holding(t))))
    OBVIOUS
  <2>1. locals[t].main \in DOMAIN tables
    BY DEF Hash!FoundDeep, Hash!Step, PlaceInv, Placed
  <2>2. Hash!ValueIn(t, Hash!Latest(Hash!Holding(t))) \in Nat
    BY <2>1, LatestHolding, HoldingHas, ValueType DEF Hash!FoundDeep
  <2> QED BY <1>1, <2>2, SetValueSlot DEF Hash!FoundDeep
<1>5. Hash!NotFound(t) => HashMoved(t, locals[t].main, count + 1, locals[t].capacity, locals[t].slot, locals[t].value)
  BY <1>1, SetCount DEF Hash!NotFound
<1>6. Hash!Lock(t) => HashMoved(t, Len(tables), locals[t].count, Hash!Capacity(Len(tables)), locals[t].slot, locals[t].value)
  BY <1>1, SetMainCapacity DEF Hash!Lock, Hash!Current
<1>7. Hash!NoLock(t) => UNCHANGED locals
  BY DEF Hash!NoLock
<1>8. Hash!Double(t) => HashMoved(t, locals[t].main, locals[t].count, 2 * locals[t].capacity, locals[t].slot, locals[t].value)
  <2>1. Hash!Double(t) => locals' = [locals EXCEPT ![t].capacity = 2 * locals[t].capacity]
    BY DEF Hash!Double
  <2> QED BY <1>1, <2>1, SetCapacity
<1>9. Hash!Resize(t) => HashMoved(t, Len(tables'), locals[t].count, locals[t].capacity, locals[t].slot, locals[t].value)
  <2> SUFFICES ASSUME Hash!Resize(t)
               PROVE  HashMoved(t, Len(tables'), locals[t].count, locals[t].capacity, locals[t].slot, locals[t].value)
    OBVIOUS
  <2>1. Len(tables') \in Nat
    BY ResizedTables
  <2> QED BY <2>1, SetMain DEF Hash!Resize
<1>10. Hash!CreateProducer(t) => HashMoved(t, locals[t].main, locals[t].count, locals[t].capacity, home[t], created + 1)
  BY <1>1, SetValueSlot DEF Hash!CreateProducer
<1>11. Hash!Probe(t) => HashMoved(t, locals[t].main, locals[t].count, locals[t].capacity, Hash!Slot(t) + 1, locals[t].value)
  <2> SUFFICES ASSUME Hash!Probe(t)
               PROVE  HashMoved(t, locals[t].main, locals[t].count, locals[t].capacity, Hash!Slot(t) + 1, locals[t].value)
    OBVIOUS
  <2>1. Hash!Slot(t) + 1 \in Nat
    BY SlotInTable DEF Hash!Probe, PlaceInv, Placed
  <2> QED BY <2>1, SetSlot DEF Hash!Probe
<1> QED BY <1>2, <1>3, <1>4, <1>5, <1>6, <1>7, <1>8, <1>9, <1>10, <1>11

LEMMA TypesStep ==
    ASSUME HashTypes, PlaceInv, NEW t \in Enqueuers, Hash!Enqueuer(t)
    PROVE  HashTypes'
<1>1. locals' \in [Enqueuers -> HashLocals]
  BY HashMoves DEF HashTypes, Hash!Enqueuer, HashMoved
<1>2. pc' \in [Enqueuers -> HashPlaces]
  BY DEF HashPlaces, HashTypes, Hash!Enqueuer, Hash!Begin, Hash!Found, Hash!FoundDeep, Hash!NotFound, Hash!Lock, Hash!NoLock, Hash!Double,
         Hash!Resize, Hash!AllocationFails, Hash!CreateProducer, Hash!LookAgain, Hash!Insert, Hash!Probe, Hash!Step, Hash!Return
<1>3. tables' \in Seq(Tables) /\ Len(tables') >= 1
  BY NoInsert, ResizedTables, InsertedTables DEF HashTypes, Hash!Enqueuer
<1>4. given' \in [Enqueuers -> SUBSET Nat]
  <2>1. CASE Hash!Found(t)
    <3>1. Hash!ValueIn(t, locals[t].main) \in Nat
      BY <2>1, HoldingHas, ValueType DEF Hash!Found, PlaceInv, Placed
    <3> QED BY <2>1, <3>1 DEF HashTypes, Hash!Found, Hash!Return
  <2>2. CASE Hash!Insert(t)
    BY <2>2, Fields DEF HashTypes, Hash!Insert, Hash!Return
  <2> QED
    BY <2>1, <2>2 DEF HashTypes, Hash!Enqueuer, Hash!Begin, Hash!FoundDeep, Hash!NotFound, Hash!Lock, Hash!NoLock, Hash!Double, Hash!Resize,
           Hash!AllocationFails, Hash!CreateProducer, Hash!LookAgain, Hash!Probe
<1>5. count' \in Int /\ created' \in Nat /\ resizing' \in Enqueuers \cup {Hash!Nobody} /\ UNCHANGED home
  BY DEF HashTypes, Hash!Enqueuer, Hash!Begin, Hash!Found, Hash!FoundDeep, Hash!NotFound, Hash!Lock, Hash!NoLock, Hash!Double, Hash!Resize,
         Hash!AllocationFails, Hash!CreateProducer, Hash!LookAgain, Hash!Insert, Hash!Probe, Hash!shared
<1> QED BY <1>1, <1>2, <1>3, <1>4, <1>5 DEF HashTypes

\* What any step leaves of the tables.
LEMMA Tabled ==
    ASSUME HashTypes, PlaceInv, NEW t \in Enqueuers, Hash!Enqueuer(t)
    PROVE  /\ TablesGrown /\ \A u \in Enqueuers \ {t} : KeptFor(u)
           /\ ~ Hash!Insert(t) => KeptFor(t)
<1>1. CASE Hash!Resize(t)
  BY <1>1, ResizedTables
<1>2. CASE Hash!Insert(t)
  BY <1>2, InsertedTables
<1>3. CASE ~ Hash!Resize(t) /\ ~ Hash!Insert(t)
  BY <1>3, NoInsert, SameTables DEF Hash!Enqueuer
<1> QED BY <1>1, <1>2, <1>3

\* A thread that has moved without inserting itself.
LEMMA PlacedMoved ==
    ASSUME HashTypes, NEW t \in Enqueuers, TablesGrown, KeptFor(t),
           NEW p \in HashPlaces, pc' = [pc EXCEPT ![t] = p],
           NEW m, NEW n, NEW c, NEW x, NEW y, HashMoved(t, m, n, c, x, y),
           p \in {"idle", "search"} => n = 0,
           p # "idle" => m \in DOMAIN tables' /\ \A i \in DOMAIN tables : Has(i, t) => i <= m,
           p \in {"check", "resize", "room"} => ~ InTables(t) /\ n >= 1,
           p = "insert" => /\ m \in DOMAIN tables /\ ~ Has(m, t)
                           /\ n > 0 => ~ InTables(t) /\ n < Quarters(m)
                           /\ n <= 0 => InTables(t),
           n \in Int,
           p = "resize" => /\ resizing' = t /\ m = Len(tables') /\ UNCHANGED tables
                           /\ c >= Hash!Capacity(Len(tables))
    PROVE  Placed(t)'
<1>1. pc'[t] = p
  BY DEF HashTypes
<1>2. locals'[t].main = m /\ locals'[t].count = n /\ locals'[t].capacity = c
  BY DEF HashMoved
<1>3. InTables(t)' <=> InTables(t)
  BY KeptListed
<1>4. Fresh(t)' <=> p \in {"check", "resize", "room"} \/ (p = "insert" /\ n > 0)
  BY <1>1, <1>2 DEF Fresh
<1>5. \A i \in DOMAIN tables : Quarters(i)' = Quarters(i)
  BY DEF TablesGrown, Quarters
<1>6. p # "idle" => \A i \in DOMAIN tables' : Has(i, t)' => i <= m
  BY DEF KeptFor
<1>7. p = "insert" => ~ Has(m, t)' /\ Quarters(m)' = Quarters(m)
  BY <1>5 DEF KeptFor
<1>8. p = "resize" => Hash!Capacity(Len(tables))' = Hash!Capacity(Len(tables))
  BY DEF Hash!Capacity
<1> QED BY <1>1, <1>2, <1>3, <1>4, <1>6, <1>7, <1>8 DEF Placed

LEMMA PlacedStep ==
    ASSUME HashTypes, PlaceInv, count \in Nat, NEW t \in Enqueuers, Hash!Enqueuer(t)
    PROVE  Placed(t)'
<1>1. /\ Placed(t) /\ TablesGrown
      /\ Len(tables) \in DOMAIN tables /\ \A i \in DOMAIN tables : i <= Len(tables)
      /\ ~ Hash!Insert(t) => KeptFor(t)
  BY Tabled, Fields DEF PlaceInv, HashTypes
<1>2. UNCHANGED tables => DOMAIN tables' = DOMAIN tables /\ Len(tables') = Len(tables)
  OBVIOUS
<1> USE DEF HashPlaces
<1>3. CASE Hash!Begin(t)
  <2>1. HashMoved(t, Len(tables), locals[t].count, locals[t].capacity, locals[t].slot, locals[t].value) /\ UNCHANGED tables
    BY <1>3, HashMoves, NoInsert
  <2>2. locals[t].count = 0 /\ pc' = [pc EXCEPT ![t] = "search"]
    BY <1>1, <1>3 DEF Hash!Begin, Hash!Step, Placed
  <2>3. KeptFor(t)
    BY <1>1, <1>3, NoInsert, SameTables
  <2>4. PICK m : m = Len(tables)
    OBVIOUS
  <2> QED BY <1>1, <1>2, <2>1, <2>2, <2>3, <2>4, Fields, PlacedMoved
<1>4. CASE Hash!Found(t) \/ Hash!AllocationFails(t)
  <2>1. HashMoved(t, 0, 0, 0, 0, Hash!Nobody) /\ pc' = [pc EXCEPT ![t] = "idle"]
    BY <1>4, HashMoves DEF Hash!Found, Hash!AllocationFails, Hash!Return
  <2>2. KeptFor(t)
    BY <1>1, <1>4, NoInsert, SameTables
  <2>3. PICK n \in Int : n = 0
    OBVIOUS
  <2>4. HashMoved(t, n, n, n, n, Hash!Nobody)
    BY <2>1, <2>3
  <2> QED BY <1>1, <2>1, <2>2, <2>3, <2>4, PlacedMoved
<1>5. CASE Hash!FoundDeep(t)
  <2>1. HashMoved(t, locals[t].main, locals[t].count, locals[t].capacity, home[t], Hash!ValueIn(t, Hash!Latest(Hash!Holding(t))))
        /\ UNCHANGED tables
    BY <1>5, HashMoves, NoInsert
  <2>2. locals[t].main \in DOMAIN tables /\ locals[t].count = 0 /\ pc[t] = "search"
    BY <1>1, <1>5 DEF Hash!FoundDeep, Hash!Step, Placed
  <2>3. InTables(t) /\ ~ Has(locals[t].main, t)
    BY <1>5, <2>2, HoldingHas, Fields DEF Hash!FoundDeep, InTables
  <2>4. KeptFor(t)
    BY <1>1, <1>5, NoInsert, SameTables
  <2>5. pc' = [pc EXCEPT ![t] = "insert"] /\ \A i \in DOMAIN tables : Has(i, t) => i <= locals[t].main
    BY <1>1, <1>5 DEF Hash!FoundDeep, Hash!Step, Placed
  <2>6. PICK v : v = Hash!ValueIn(t, Hash!Latest(Hash!Holding(t)))
    OBVIOUS
  <2>7. HashMoved(t, locals[t].main, locals[t].count, locals[t].capacity, home[t], v) /\ locals[t].count \in Int
    BY <2>1, <2>6, Fields
  <2>8. PICK n \in Int : n = locals[t].count /\ n <= 0
    BY <2>2, <2>7
  <2>9. PICK m \in DOMAIN tables : m = locals[t].main
    BY <2>2
  <2>10. HashMoved(t, m, n, locals[t].capacity, home[t], v) /\ m \in DOMAIN tables'
    BY <1>2, <2>1, <2>7, <2>8, <2>9
  <2>11. TablesGrown /\ ~ Has(m, t) /\ \A i \in DOMAIN tables : Has(i, t) => i <= m
    BY <1>1, <2>3, <2>5, <2>9
  <2>12. InTables(t) /\ pc' = [pc EXCEPT ![t] = "insert"] /\ ~ (n > 0)
    BY <2>3, <2>5, <2>8
  <2> QED BY <2>4, <2>8, <2>10, <2>11, <2>12, PlacedMoved
<1>6. CASE Hash!NotFound(t)
  <2>1. HashMoved(t, locals[t].main, count + 1, locals[t].capacity, locals[t].slot, locals[t].value) /\ UNCHANGED tables
    BY <1>6, HashMoves, NoInsert
  <2>2. locals[t].main \in DOMAIN tables /\ \A i \in DOMAIN tables : Has(i, t) => i <= locals[t].main
    BY <1>1, <1>6 DEF Hash!NotFound, Hash!Step, Placed
  <2>3. ~ InTables(t)
    BY <1>6, <2>2, HoldingHas DEF Hash!NotFound, InTables
  <2>4. KeptFor(t)
    BY <1>1, <1>6, NoInsert, SameTables
  <2>5. pc' = [pc EXCEPT ![t] = "check"]
    BY <1>6 DEF Hash!NotFound, Hash!Step
  <2>6. PICK n \in Int : n = count + 1 /\ n >= 1
    OBVIOUS
  <2> QED BY <1>1, <1>2, <2>1, <2>2, <2>3, <2>4, <2>5, <2>6, PlacedMoved
<1>7. CASE Hash!Lock(t)
  <2>1. HashMoved(t, Len(tables), locals[t].count, Hash!Capacity(Len(tables)), locals[t].slot, locals[t].value)
        /\ UNCHANGED tables /\ Hash!Capacity(Len(tables)) \in Nat
    BY <1>1, <1>7, HashMoves, NoInsert, CapacityType
  <2>2. pc[t] = "check" /\ ~ InTables(t) /\ locals[t].count >= 1 /\ locals[t].count \in Int
    BY <1>1, <1>7, Fields DEF Hash!Lock, Hash!Step, Placed, Fresh
  <2>3. KeptFor(t)
    BY <1>1, <1>7, NoInsert, SameTables
  <2>4. pc' = [pc EXCEPT ![t] = "resize"] /\ resizing' = t
    BY <1>7 DEF Hash!Lock, Hash!Step
  <2>5. PICK m : m = Len(tables)
    OBVIOUS
  <2>6. m \in DOMAIN tables' /\ m = Len(tables') /\ \A i \in DOMAIN tables : Has(i, t) => i <= m
    BY <1>1, <1>2, <2>1, <2>5
  <2>7. PICK c \in Nat : c = Hash!Capacity(Len(tables)) /\ c >= Hash!Capacity(Len(tables))
    BY <2>1
  <2>8. HashMoved(t, m, locals[t].count, c, locals[t].slot, locals[t].value) /\ UNCHANGED tables
    BY <2>1, <2>5, <2>7
  <2> QED BY <1>1, <2>2, <2>3, <2>4, <2>6, <2>7, <2>8, PlacedMoved
<1>8. CASE Hash!NoLock(t)
  <2>1. UNCHANGED <<locals, tables>>
    BY <1>8, NoInsert DEF Hash!NoLock
  <2>2. HashMoved(t, locals[t].main, locals[t].count, locals[t].capacity, locals[t].slot, locals[t].value)
    BY <2>1 DEF HashMoved, HashTypes
  <2>3. pc[t] = "check" /\ ~ InTables(t) /\ locals[t].count >= 1 /\ locals[t].count \in Int
    BY <1>1, <1>8, Fields DEF Hash!NoLock, Hash!Step, Placed, Fresh
  <2>4. locals[t].main \in DOMAIN tables /\ \A i \in DOMAIN tables : Has(i, t) => i <= locals[t].main
    BY <1>1, <2>3 DEF Placed
  <2>5. KeptFor(t)
    BY <1>1, <1>8, NoInsert, SameTables
  <2> QED BY <1>1, <1>2, <1>8, <2>1, <2>2, <2>3, <2>4, <2>5, PlacedMoved DEF Hash!NoLock, Hash!Step
<1>9. CASE Hash!Double(t)
  <2>1. HashMoved(t, locals[t].main, locals[t].count, 2 * locals[t].capacity, locals[t].slot, locals[t].value)
        /\ UNCHANGED <<tables, resizing>>
    BY <1>9, HashMoves, NoInsert DEF Hash!Double, Hash!shared
  <2>2. pc[t] = "resize" /\ ~ InTables(t) /\ locals[t].count >= 1 /\ locals[t].count \in Int
    BY <1>1, <1>9, Fields DEF Hash!Double, Placed, Fresh
  <2>3. /\ locals[t].main \in DOMAIN tables /\ \A i \in DOMAIN tables : Has(i, t) => i <= locals[t].main
        /\ resizing = t /\ locals[t].main = Len(tables) /\ locals[t].capacity >= Hash!Capacity(Len(tables))
    BY <1>1, <2>2 DEF Placed
  <2>4. Hash!Capacity(Len(tables)) \in Nat /\ locals[t].capacity \in Nat
    BY <1>1, CapacityType, Fields
  <2>5. 2 * locals[t].capacity >= Hash!Capacity(Len(tables))
    BY <2>3, <2>4
  <2>6. pc' = [pc EXCEPT ![t] = "resize"]
    BY <1>9, <2>2 DEF Hash!Double, HashTypes
  <2>7. KeptFor(t)
    BY <1>1, <1>9, NoInsert, SameTables
  <2> QED BY <1>1, <1>2, <2>1, <2>2, <2>3, <2>5, <2>6, <2>7, PlacedMoved
<1>10. CASE Hash!Resize(t)
  <2>1. HashMoved(t, Len(tables'), locals[t].count, locals[t].capacity, locals[t].slot, locals[t].value)
    BY <1>10, HashMoves
  <2>2. pc[t] = "resize" /\ ~ InTables(t) /\ locals[t].count >= 1 /\ locals[t].count \in Int
    BY <1>1, <1>10, Fields DEF Hash!Resize, Hash!Step, Placed, Fresh
  <2>3. tables' \in Seq(Tables) /\ Len(tables') >= Len(tables) /\ Len(tables) >= 1 /\ Len(tables) \in Nat
    BY <1>10, ResizedTables DEF HashTypes
  <2>4. Len(tables') \in DOMAIN tables' /\ \A i \in DOMAIN tables : i <= Len(tables')
    BY <1>1, <2>3 DEF HashTypes
  <2>5. KeptFor(t)
    BY <1>10, ResizedTables
  <2> QED BY <1>1, <1>10, <2>1, <2>2, <2>4, <2>5, PlacedMoved DEF Hash!Resize, Hash!Step
<1>11. CASE Hash!CreateProducer(t)
  <2>1. HashMoved(t, locals[t].main, locals[t].count, locals[t].capacity, home[t], created + 1) /\ UNCHANGED tables
    BY <1>11, HashMoves, NoInsert
  <2>2. pc[t] = "room" /\ ~ InTables(t) /\ locals[t].count >= 1 /\ locals[t].count \in Int
    BY <1>1, <1>11, Fields DEF Hash!CreateProducer, Hash!Step, Placed, Fresh
  <2>3. locals[t].main \in DOMAIN tables /\ \A i \in DOMAIN tables : Has(i, t) => i <= locals[t].main
    BY <1>1, <2>2 DEF Placed
  <2>4. locals[t].count < Quarters(locals[t].main) /\ ~ Has(locals[t].main, t)
    BY <1>11, <2>2, <2>3 DEF Hash!CreateProducer, Hash!Roomy, Quarters, InTables
  <2>5. KeptFor(t)
    BY <1>1, <1>11, NoInsert, SameTables
  <2>6. pc' = [pc EXCEPT ![t] = "insert"]
    BY <1>11 DEF Hash!CreateProducer, Hash!Step
  <2>7. PICK n \in Int : n = locals[t].count /\ n >= 1
    BY <2>2
  <2>8. PICK m \in DOMAIN tables : m = locals[t].main
    BY <2>3
  <2>9. PICK v : v = created + 1
    OBVIOUS
  <2>10. HashMoved(t, m, n, locals[t].capacity, home[t], v) /\ m \in DOMAIN tables'
    BY <1>2, <2>1, <2>7, <2>8, <2>9
  <2>11. /\ TablesGrown /\ ~ Has(m, t) /\ (\A i \in DOMAIN tables : Has(i, t) => i <= m)
         /\ ~ InTables(t) /\ n < Quarters(m) /\ ~ (n <= 0)
    BY <1>1, <2>2, <2>3, <2>4, <2>7, <2>8
  <2> QED BY <2>5, <2>6, <2>7, <2>10, <2>11, PlacedMoved
<1>12. CASE Hash!LookAgain(t)
  <2>1. HashMoved(t, Len(tables), locals[t].count, locals[t].capacity, locals[t].slot, locals[t].value) /\ UNCHANGED tables
    BY <1>12, HashMoves, NoInsert
  <2>2. pc[t] = "room" /\ ~ InTables(t) /\ locals[t].count >= 1 /\ locals[t].count \in Int
    BY <1>1, <1>12, Fields DEF Hash!LookAgain, Hash!Step, Placed, Fresh
  <2>3. KeptFor(t)
    BY <1>1, <1>12, NoInsert, SameTables
  <2>4. pc' = [pc EXCEPT ![t] = "check"]
    BY <1>12 DEF Hash!LookAgain, Hash!Step
  <2>5. PICK m : m = Len(tables)
    OBVIOUS
  <2>6. m \in DOMAIN tables' /\ \A i \in DOMAIN tables : Has(i, t) => i <= m
    BY <1>1, <1>2, <2>1, <2>5
  <2>7. PICK n \in Int : n = locals[t].count /\ n >= 1
    BY <2>2
  <2>8. HashMoved(t, m, n, locals[t].capacity, locals[t].slot, locals[t].value)
    BY <2>1, <2>5, <2>7
  <2>9. ~ InTables(t) /\ TablesGrown
    BY <1>1, <2>2
  <2> QED BY <2>3, <2>4, <2>6, <2>7, <2>8, <2>9, PlacedMoved
<1>13. CASE Hash!Insert(t)
  <2>1. HashMoved(t, 0, 0, 0, 0, Hash!Nobody) /\ pc' = [pc EXCEPT ![t] = "idle"]
    BY <1>13, HashMoves DEF Hash!Insert, Hash!Return
  <2>2. pc'[t] = "idle" /\ locals'[t].count = 0
    BY <2>1 DEF HashMoved, HashTypes
  <2> QED BY <2>2 DEF Placed, Fresh
<1>14. CASE Hash!Probe(t)
  <2>1. HashMoved(t, locals[t].main, locals[t].count, locals[t].capacity, Hash!Slot(t) + 1, locals[t].value) /\ UNCHANGED <<tables, pc>>
    BY <1>14, HashMoves, NoInsert DEF Hash!Probe
  <2>2. pc[t] = "insert" /\ pc' = [pc EXCEPT ![t] = "insert"]
    BY <1>14 DEF Hash!Probe, HashTypes
  <2>3. /\ locals[t].main \in DOMAIN tables /\ \A i \in DOMAIN tables : Has(i, t) => i <= locals[t].main
        /\ ~ Has(locals[t].main, t) /\ locals[t].count \in Int
        /\ locals[t].count > 0 => ~ InTables(t) /\ locals[t].count < Quarters(locals[t].main)
        /\ locals[t].count <= 0 => InTables(t)
    BY <1>1, <2>2, Fields DEF Placed, Fresh
  <2>4. KeptFor(t)
    BY <1>1, <1>14, NoInsert, SameTables
  <2> QED BY <1>1, <1>2, <2>1, <2>2, <2>3, <2>4, PlacedMoved
<1> QED
  BY <1>3, <1>4, <1>5, <1>6, <1>7, <1>8, <1>9, <1>10, <1>11, <1>12, <1>13, <1>14 DEF Hash!Enqueuer

LEMMA PlaceStep ==
    ASSUME HashTypes, PlaceInv, count \in Nat, NEW t \in Enqueuers, Hash!Enqueuer(t)
    PROVE  PlaceInv'
<1>1. ASSUME NEW u \in Enqueuers PROVE Placed(u)'
  <2>1. CASE u = t
    BY <2>1, PlacedStep
  <2>2. CASE u # t
    <3>1. pc[u] = "resize" => resizing' = resizing /\ Len(tables') = Len(tables)
      <4> SUFFICES ASSUME pc[u] = "resize"
                   PROVE  resizing' = resizing /\ Len(tables') = Len(tables)
        OBVIOUS
      <4>1. resizing = u /\ ~ Hash!Resize(t)
        BY <2>2 DEF PlaceInv, Placed, Hash!Resize, Hash!Step
      <4>2. Hash!Insert(t) => Len(tables') = Len(tables)
        BY InsertedTables
      <4>3. ~ Hash!Insert(t) => UNCHANGED tables
        BY <4>1, NoInsert DEF Hash!Enqueuer
      <4> QED BY <2>2, <4>1, <4>2, <4>3, Others
    <3> QED BY <2>2, <3>1, Tabled, Others, PlacedStays DEF PlaceInv
  <2> QED BY <2>1, <2>2
<1>2. Growing'
  <2>1. CASE UNCHANGED tables
    BY <2>1, SameTables DEF Growing, PlaceInv, Hash!Capacity
  <2>2. CASE Hash!Resize(t) /\ Hash!Larger(t)
    <3>1. locals[t].capacity \in Nat \ {0} /\ locals[t].capacity >= Hash!Capacity(Len(tables))
      <4>1. Len(tables) \in DOMAIN tables /\ locals[t].capacity >= Hash!Capacity(Len(tables))
        BY <2>2 DEF Hash!Resize, Hash!Step, PlaceInv, Placed, HashTypes
      <4> QED BY <4>1, CapacityType, Fields
    <3>2. tables' = Append(tables, Hash!EmptyTable(locals[t].capacity))
      BY <2>2 DEF Hash!Resize
    <3>3. \A i \in DOMAIN tables' : i \in DOMAIN tables \/ i = Len(tables')
      BY <3>1, <3>2, Appended
    <3>4. \A i \in DOMAIN tables' : i = Len(tables') => Hash!Capacity(i)' = locals[t].capacity
      <4>1. tables'[Len(tables')] = Hash!EmptyTable(locals[t].capacity)
        BY <3>1, <3>2, Appended
      <4>2. Cardinality(DOMAIN Hash!EmptyTable(locals[t].capacity)) = locals[t].capacity
        BY <3>1, EmptyIsTable
      <4> QED BY <4>1, <4>2 DEF Hash!Capacity, Hash!Cardinality, Cardinality
    <3>5. \A i \in DOMAIN tables : Hash!Capacity(i)' = Hash!Capacity(i) /\ Hash!Capacity(i) \in Nat
      BY Tabled, CapacityType DEF TablesGrown
    <3>6. /\ Len(tables') = Len(tables) + 1 /\ DOMAIN tables = 1..Len(tables) /\ Len(tables) \in Nat
          /\ Len(tables) \in DOMAIN tables
      BY <3>1, <3>2, Appended DEF HashTypes
    <3>7. \A i \in DOMAIN tables : Hash!Capacity(i) <= locals[t].capacity
      BY <3>1, <3>5, <3>6 DEF PlaceInv, Growing
    <3> QED BY <3>1, <3>3, <3>4, <3>5, <3>6, <3>7 DEF Growing, PlaceInv
  <2>3. CASE Hash!Insert(t)
    BY <2>3, InsertedTables DEF Growing, PlaceInv, TablesGrown
  <2> QED BY <2>1, <2>2, <2>3, NoInsert DEF Hash!Enqueuer, Hash!Resize
<1>3. Single'
  <2>1. CASE UNCHANGED tables
    BY <2>1 DEF Single, PlaceInv
  <2>2. CASE Hash!Resize(t) /\ Hash!Larger(t)
    <3>1. locals[t].capacity \in Nat \ {0}
      <4>1. Len(tables) \in DOMAIN tables /\ locals[t].capacity >= Hash!Capacity(Len(tables))
        BY <2>2 DEF Hash!Resize, Hash!Step, PlaceInv, Placed, HashTypes
      <4> QED BY <4>1, CapacityType, Fields
    <3>2. tables' = Append(tables, Hash!EmptyTable(locals[t].capacity))
      BY <2>2 DEF Hash!Resize
    <3> QED BY <3>1, <3>2, Appended, EmptyIsTable DEF Single, PlaceInv
  <2>3. CASE Hash!Insert(t)
    <3>1. /\ locals[t].main \in DOMAIN tables /\ Hash!Slot(t) \in DOMAIN tables[locals[t].main]
          /\ [key |-> t, value |-> locals[t].value] \in Entry /\ ~ Has(locals[t].main, t)
      BY <2>3, SlotInTable, Fields DEF Hash!Insert, PlaceInv, Placed, Entry
    <3>2. tables' = [tables EXCEPT ![locals[t].main][Hash!Slot(t)] = [key |-> t, value |-> locals[t].value]]
      BY <2>3 DEF Hash!Insert
    <3>3. PICK e \in Entry : e = [key |-> t, value |-> locals[t].value]
      BY <3>1
    <3>4. /\ DOMAIN tables' = DOMAIN tables
          /\ \A j \in DOMAIN tables : DOMAIN tables'[j] = DOMAIN tables[j]
          /\ \A j \in DOMAIN tables : \A r \in DOMAIN tables[j] :
               tables'[j][r] = IF j = locals[t].main /\ r = Hash!Slot(t) THEN e ELSE tables[j][r]
      BY <3>1, <3>2, <3>3, SlotFilled
    <3>5. e.key = t
      BY <3>3
    <3> QED BY <3>1, <3>4, <3>5 DEF Single, PlaceInv, Has
  <2> QED BY <2>1, <2>2, <2>3, NoInsert DEF Hash!Enqueuer, Hash!Resize
<1> QED BY <1>1, <1>2, <1>3 DEF PlaceInv

\* The threads that are counted, and those of them that have settled, or may
\* settle, in a table of which three quarters are x slots.
Counted == { t \in Enqueuers : InTables(t) \/ Fresh(t) }
HashSettled(t, x) == \E i \in DOMAIN tables : Quarters(i) <= x /\ Has(i, t)
Settling(t, x) == HashSettled(t, x) \/ (Fresh(t) /\ locals[t].count < x)
Small(x) == { t \in Enqueuers : Settling(t, x) }

SizeInv == count = Cardinality(Counted)
CrowdInv == \A x \in Nat : Small(x) = {} \/ Cardinality(Small(x)) < x

LEMMA CountedFinite ==
    /\ IsFiniteSet(Counted) /\ Cardinality(Counted) \in Nat
    /\ \A x \in Nat : IsFiniteSet(Small(x)) /\ Cardinality(Small(x)) \in Nat /\ Small(x) \subseteq Counted
<1>1. IsFiniteSet(Counted)
  BY EnqueuersAssumption, FS_Subset DEF Counted
<1>2. ASSUME NEW x \in Nat PROVE Small(x) \subseteq Counted
  BY DEF Small, Settling, HashSettled, Counted, InTables
<1>3. ASSUME NEW x \in Nat PROVE IsFiniteSet(Small(x))
  BY <1>1, <1>2, FS_Subset
<1> QED BY <1>1, <1>2, <1>3, FS_CardinalityType

LEMMA KeptSettled ==
    ASSUME NEW u, TablesGrown, KeptFor(u), NEW x \in Nat
    PROVE  HashSettled(u, x)' <=> HashSettled(u, x)
<1>1. \A i \in DOMAIN tables : Quarters(i)' = Quarters(i)
  BY DEF TablesGrown, Quarters
<1> QED BY <1>1 DEF TablesGrown, KeptFor, HashSettled

\* The others are counted as they were.
LEMMA OthersCounted ==
    ASSUME HashTypes, PlaceInv, NEW t \in Enqueuers, Hash!Enqueuer(t), NEW u \in Enqueuers, u # t
    PROVE  /\ (InTables(u) \/ Fresh(u))' <=> (InTables(u) \/ Fresh(u))
           /\ \A x \in Nat : Settling(u, x)' <=> Settling(u, x)
<1>1. pc'[u] = pc[u] /\ locals'[u] = locals[u]
  BY Others
<1>2. Fresh(u)' <=> Fresh(u)
  BY <1>1 DEF Fresh
<1>3. InTables(u)' <=> InTables(u)
  BY Tabled, KeptListed
<1>4. \A x \in Nat : HashSettled(u, x)' <=> HashSettled(u, x)
  BY Tabled, KeptSettled
<1> QED BY <1>1, <1>2, <1>3, <1>4 DEF Settling

\* A thread that has not found itself is counted from then on.
LEMMA NotFoundCounts ==
    ASSUME HashTypes, PlaceInv, NEW t \in Enqueuers, Hash!NotFound(t)
    PROVE  ~ InTables(t) /\ ~ Fresh(t) /\ (InTables(t) \/ Fresh(t))' /\ locals'[t].count = count + 1
           /\ \A x \in Nat : ~ Settling(t, x) /\ (Settling(t, x)' <=> count + 1 < x)
<1>1. pc[t] = "search" /\ pc'[t] = "check" /\ UNCHANGED tables
  BY DEF Hash!NotFound, Hash!Step, HashTypes, Hash!shared
<1>2. ~ Fresh(t) /\ Fresh(t)'
  BY <1>1 DEF Fresh
<1>3. ~ InTables(t)
  BY <1>1, HoldingHas DEF Hash!NotFound, InTables, PlaceInv, Placed
<1>4. locals'[t].count = count + 1
  BY HashMoves DEF HashMoved
<1>5. \A x \in Nat : ~ HashSettled(t, x) /\ ~ HashSettled(t, x)'
  BY <1>1, <1>3, KeptSettled, SameTables DEF InTables, HashSettled
<1> QED BY <1>2, <1>3, <1>4, <1>5 DEF Settling

\* One that is refused memory is not, any more.
LEMMA FailsCounts ==
    ASSUME HashTypes, PlaceInv, NEW t \in Enqueuers, Hash!AllocationFails(t)
    PROVE  Fresh(t) /\ ~ (InTables(t) \/ Fresh(t))' /\ \A x \in Nat : ~ Settling(t, x)'
<1>1. pc[t] \in {"resize", "room"} /\ pc'[t] = "idle" /\ UNCHANGED tables
  BY NoInsert DEF Hash!AllocationFails, HashTypes
<1>2. Fresh(t) /\ ~ Fresh(t)'
  BY <1>1 DEF Fresh
<1>3. ~ InTables(t)
  BY <1>2 DEF PlaceInv, Placed
<1>4. ~ InTables(t)'
  BY <1>1, <1>3, SameTables, KeptListed
<1>5. \A x \in Nat : ~ HashSettled(t, x)'
  BY <1>4 DEF InTables, HashSettled
<1> QED BY <1>2, <1>4, <1>5 DEF Settling

\* Whatever else it does, it is counted as it was.
LEMMA ElseCounts ==
    ASSUME HashTypes, PlaceInv, NEW t \in Enqueuers, Hash!Enqueuer(t), ~ Hash!NotFound(t), ~ Hash!AllocationFails(t)
    PROVE  /\ (InTables(t) \/ Fresh(t))' <=> (InTables(t) \/ Fresh(t))
           /\ \A x \in Nat : Settling(t, x)' => Settling(t, x)
<1>1. CASE Hash!Insert(t)
  <2>1. /\ pc[t] = "insert" /\ pc'[t] = "idle" /\ locals[t].main \in DOMAIN tables
        /\ locals[t].count \in Int
    BY <1>1, Fields DEF Hash!Insert, Hash!Return, HashTypes, PlaceInv, Placed
  <2>2. InTables(t) \/ Fresh(t)
    BY <2>1 DEF PlaceInv, Placed, Fresh
  <2>3. InTables(t)'
    BY <1>1, <2>1, InsertedTables DEF InTables
  <2>4. ASSUME NEW x \in Nat, Settling(t, x)' PROVE Settling(t, x)
    <3>1. ~ Fresh(t)'
      BY <2>1 DEF Fresh
    <3>2. PICK i \in DOMAIN tables' : Quarters(i)' <= x /\ Has(i, t)'
      BY <2>4, <3>1 DEF Settling, HashSettled
    <3>3. i \in DOMAIN tables /\ Quarters(i) <= x /\ (Has(i, t) \/ i = locals[t].main)
      BY <1>1, <3>2, InsertedTables DEF TablesGrown, Quarters
    <3>4. CASE Has(i, t)
      BY <3>3, <3>4 DEF Settling, HashSettled
    <3>5. CASE i = locals[t].main /\ locals[t].count > 0
      <4>1. locals[t].count < Quarters(i) /\ Fresh(t)
        BY <2>1, <3>5 DEF PlaceInv, Placed, Fresh
      <4> QED BY <2>1, <3>3, <4>1, CapacityType DEF Settling
    <3>6. CASE i = locals[t].main /\ locals[t].count <= 0
      <4>1. PICK j \in DOMAIN tables : Has(j, t)
        BY <2>1, <3>6 DEF PlaceInv, Placed, InTables
      <4>2. j <= i
        BY <2>1, <3>6, <4>1 DEF PlaceInv, Placed
      <4>3. Hash!Capacity(j) <= Hash!Capacity(i) /\ Hash!Capacity(j) \in Nat /\ Hash!Capacity(i) \in Nat
        BY <3>3, <4>2, CapacityType DEF PlaceInv, Growing
      <4>4. Quarters(j) <= Quarters(i) /\ Quarters(j) \in Nat /\ Quarters(i) \in Nat
        <5>1. \A a, b \in Nat : a <= b => a \div 2 <= b \div 2 /\ a \div 4 <= b \div 4
          OBVIOUS
        <5>2. \A a \in Nat : a \div 2 \in Nat /\ a \div 4 \in Nat
          OBVIOUS
        <5>3. /\ Hash!Capacity(j) \div 2 <= Hash!Capacity(i) \div 2 /\ Hash!Capacity(j) \div 4 <= Hash!Capacity(i) \div 4
              /\ Hash!Capacity(j) \div 2 \in Nat /\ Hash!Capacity(j) \div 4 \in Nat
              /\ Hash!Capacity(i) \div 2 \in Nat /\ Hash!Capacity(i) \div 4 \in Nat
          BY <4>3, <5>1, <5>2
        <5> QED BY <5>3 DEF Quarters
      <4> QED BY <3>3, <4>1, <4>4 DEF Settling, HashSettled
    <3> QED BY <2>1, <3>3, <3>4, <3>5, <3>6
  <2> QED BY <2>2, <2>3, <2>4
<1>2. CASE ~ Hash!Insert(t)
  <2>1. InTables(t)' <=> InTables(t)
    BY <1>2, Tabled, KeptListed
  <2>2. \A x \in Nat : HashSettled(t, x)' <=> HashSettled(t, x)
    BY <1>2, Tabled, KeptSettled
  <2>3. (Fresh(t)' <=> Fresh(t)) /\ (Fresh(t) => locals'[t].count = locals[t].count)
    <3>1. CASE Hash!Begin(t) \/ Hash!Found(t) \/ Hash!FoundDeep(t)
      <4>1. pc[t] \in {"idle", "search"} /\ locals[t].count = 0 /\ pc'[t] \in {"search", "idle", "insert"}
        BY <3>1 DEF Hash!Begin, Hash!Found, Hash!FoundDeep, Hash!Step, Hash!Return, HashTypes, PlaceInv, Placed
      <4>2. locals'[t].count = 0
        BY <3>1, <4>1, HashMoves DEF HashMoved
      <4> QED BY <4>1, <4>2 DEF Fresh
    <3>2. CASE Hash!NoLock(t)
      BY <3>2 DEF Hash!NoLock, Hash!Step, Fresh, HashTypes
    <3>3. CASE Hash!Lock(t) \/ Hash!Double(t) \/ Hash!Resize(t) \/ Hash!LookAgain(t)
      <4>1. locals'[t].count = locals[t].count
        BY <3>3, HashMoves DEF HashMoved
      <4>2. pc[t] \in {"check", "resize", "room"} /\ pc'[t] \in {"check", "resize", "room"}
        BY <3>3 DEF Hash!Lock, Hash!Double, Hash!Resize, Hash!LookAgain, Hash!Step, HashTypes
      <4> QED BY <4>1, <4>2 DEF Fresh
    <3>4. CASE Hash!CreateProducer(t)
      <4>1. locals'[t].count = locals[t].count
        BY <3>4, HashMoves DEF HashMoved
      <4>2. pc[t] = "room" /\ pc'[t] = "insert"
        BY <3>4 DEF Hash!CreateProducer, Hash!Step, HashTypes
      <4>3. locals[t].count >= 1 /\ locals[t].count \in Int
        BY <4>2, Fields DEF PlaceInv, Placed, Fresh
      <4> QED BY <4>1, <4>2, <4>3 DEF Fresh
    <3>5. CASE Hash!Probe(t)
      <4>1. locals'[t].count = locals[t].count
        BY <3>5, HashMoves DEF HashMoved
      <4> QED BY <3>5, <4>1 DEF Hash!Probe, Fresh
    <3> QED BY <1>2, <3>1, <3>2, <3>3, <3>4, <3>5 DEF Hash!Enqueuer
  <2> QED BY <2>1, <2>2, <2>3 DEF Settling
<1> QED BY <1>1, <1>2

LEMMA CountStep ==
    ASSUME HashTypes, PlaceInv, SizeInv, CrowdInv, NEW t \in Enqueuers, Hash!Enqueuer(t)
    PROVE  SizeInv' /\ CrowdInv'
<1> USE CountedFinite
<1>1. CASE Hash!NotFound(t)
  <2>1. count' = count + 1
    BY <1>1 DEF Hash!NotFound
  <2>2. Counted' = Counted \cup {t} /\ t \notin Counted
    <3>1. t \notin Counted /\ t \in Counted'
      BY <1>1, NotFoundCounts DEF Counted
    <3>2. \A u \in Enqueuers : u # t => (u \in Counted' <=> u \in Counted)
      BY OthersCounted DEF Counted
    <3>3. Counted' \subseteq Enqueuers /\ Counted \subseteq Enqueuers
      BY DEF Counted
    <3> QED BY <3>1, <3>2, <3>3
  <2>3. Cardinality(Counted') = Cardinality(Counted) + 1
    BY <2>2, FS_AddElement
  <2>4. SizeInv'
    BY <2>1, <2>3 DEF SizeInv
  <2>5. ASSUME NEW x \in Nat PROVE Small(x)' = {} \/ Cardinality(Small(x)') < x
    <3>1. \A u \in Enqueuers : u # t => (u \in Small(x)' <=> u \in Small(x))
      BY OthersCounted DEF Small
    <3>2. t \notin Small(x) /\ (t \in Small(x)' <=> count + 1 < x)
      BY <1>1, NotFoundCounts DEF Small
    <3>3. Small(x)' \subseteq Enqueuers /\ Small(x) \subseteq Enqueuers
      BY DEF Small
    <3>4. CASE count + 1 < x
      <4>1. Small(x)' \subseteq Counted \cup {t}
        BY <3>1, <3>3
      <4>2. IsFiniteSet(Counted \cup {t}) /\ Cardinality(Counted \cup {t}) = count + 1
        BY <2>2, <2>3, FS_AddElement DEF SizeInv
      <4>3. Cardinality(Small(x)') <= count + 1 /\ Cardinality(Small(x)') \in Nat
        BY <4>1, <4>2, FS_Subset, FS_CardinalityType
      <4> QED BY <3>4, <4>3 DEF SizeInv
    <3>5. CASE ~ (count + 1 < x)
      <4>1. Small(x)' = Small(x)
        BY <3>1, <3>2, <3>3, <3>5
      <4> QED BY <4>1 DEF CrowdInv
    <3> QED BY <3>4, <3>5
  <2> QED BY <2>4, <2>5 DEF CrowdInv
<1>2. CASE ~ Hash!NotFound(t)
  <2>1. ASSUME NEW x \in Nat PROVE Small(x)' = {} \/ Cardinality(Small(x)') < x
    <3>1. Small(x)' \subseteq Small(x)
      <4>1. \A u \in Enqueuers : u # t => (Settling(u, x)' <=> Settling(u, x))
        BY OthersCounted
      <4>2. Settling(t, x)' => Settling(t, x)
        BY <1>2, FailsCounts, ElseCounts
      <4> QED BY <4>1, <4>2 DEF Small
    <3>2. Cardinality(Small(x)') <= Cardinality(Small(x)) /\ Cardinality(Small(x)') \in Nat
      BY <3>1, FS_Subset, FS_CardinalityType
    <3>3. PICK a \in Nat : a = Cardinality(Small(x)')
      BY <3>2
    <3>4. Small(x) = {} => Small(x)' = {}
      BY <3>1
    <3> QED BY <3>2, <3>3, <3>4 DEF CrowdInv
  <2>2. CASE Hash!AllocationFails(t)
    <3>1. count' = count - 1
      BY <2>2 DEF Hash!AllocationFails
    <3>2. t \in Counted /\ t \notin Counted'
      BY <2>2, FailsCounts DEF Counted
    <3>3. \A u \in Enqueuers : u # t => (u \in Counted' <=> u \in Counted)
      BY OthersCounted DEF Counted
    <3>4. Counted' = Counted \ {t}
      BY <3>2, <3>3 DEF Counted
    <3>5. Cardinality(Counted') = Cardinality(Counted) - 1
      BY <3>2, <3>4, FS_RemoveElement
    <3> QED BY <2>1, <3>1, <3>5 DEF SizeInv, CrowdInv
  <2>3. CASE ~ Hash!AllocationFails(t)
    <3>1. count' = count
      BY <1>2, <2>3 DEF Hash!Enqueuer, Hash!Begin, Hash!Found, Hash!FoundDeep, Hash!Lock, Hash!NoLock, Hash!Double, Hash!Resize,
             Hash!CreateProducer, Hash!LookAgain, Hash!Insert, Hash!Probe, Hash!shared
    <3>2. \A u \in Enqueuers : (InTables(u) \/ Fresh(u))' <=> (InTables(u) \/ Fresh(u))
      BY <1>2, <2>3, OthersCounted, ElseCounts
    <3>3. Counted' = Counted
      BY <3>2 DEF Counted
    <3> QED BY <2>1, <3>1, <3>3 DEF SizeInv, CrowdInv
  <2> QED BY <2>2, <2>3
<1> QED BY <1>1, <1>2

\* Who an entry belongs to tells its producer, and the other way round.
Holds(i, s, t, v) == tables[i][s].key = t /\ tables[i][s].value = v
Agreeing ==
    \A i, j \in DOMAIN tables : \A r \in DOMAIN tables[i], s \in DOMAIN tables[j] :
        tables[i][r].key # Hash!Nobody /\ tables[j][s].key # Hash!Nobody =>
            (tables[i][r].key = tables[j][s].key <=> tables[i][r].value = tables[j][s].value)
Brings(t) ==
    \A i \in DOMAIN tables : \A s \in DOMAIN tables[i] :
        tables[i][s].key # Hash!Nobody => (tables[i][s].key = t <=> tables[i][s].value = locals[t].value)
Bounded ==
    /\ \A i \in DOMAIN tables : \A s \in DOMAIN tables[i] :
         tables[i][s].key # Hash!Nobody => tables[i][s].value <= created
    /\ \A t \in Enqueuers : pc[t] = "insert" => locals[t].value <= created
Given(t) ==
    \A v \in given[t] : \E i \in DOMAIN tables : \E s \in DOMAIN tables[i] : Holds(i, s, t, v)

OwnInv ==
    /\ Agreeing /\ Bounded
    /\ \A t \in Enqueuers : pc[t] = "insert" => Brings(t)
    /\ \A t, u \in Enqueuers :
         t # u /\ pc[t] = "insert" /\ pc[u] = "insert" => locals[t].value # locals[u].value
    /\ \A t \in Enqueuers : Given(t)

\* Steps that leave the tables, and bring their thread nothing new.
LEMMA OwnStays ==
    ASSUME HashTypes, OwnInv, NEW t \in Enqueuers, UNCHANGED tables, created' = created,
           \A u \in Enqueuers : u # t => pc'[u] = pc[u] /\ locals'[u] = locals[u] /\ given'[u] = given[u],
           pc'[t] = "insert" => pc[t] = "insert" /\ locals'[t].value = locals[t].value,
           Given(t)'
    PROVE  OwnInv'
<1>1. Agreeing'
  BY DEF Agreeing, OwnInv
<1>2. Bounded'
  BY DEF Bounded, OwnInv
<1>3. ASSUME NEW u \in Enqueuers, pc'[u] = "insert" PROVE pc[u] = "insert" /\ locals'[u].value = locals[u].value
  BY <1>3
<1>4. ASSUME NEW u \in Enqueuers, pc'[u] = "insert" PROVE Brings(u)'
  BY <1>3, <1>4 DEF Brings, OwnInv
<1>5. ASSUME NEW u \in Enqueuers, NEW w \in Enqueuers, u # w, pc'[u] = "insert", pc'[w] = "insert"
      PROVE  locals'[u].value # locals'[w].value
  BY <1>3, <1>5 DEF OwnInv
<1>6. ASSUME NEW u \in Enqueuers PROVE Given(u)'
  BY <1>6 DEF Given, Holds, OwnInv
<1> QED BY <1>1, <1>2, <1>4, <1>5, <1>6 DEF OwnInv

\* What is new to a thread, found or created.
LEMMA OwnBrought ==
    ASSUME HashTypes, OwnInv, NEW t \in Enqueuers, UNCHANGED <<tables, given>>, pc'[t] = "insert",
           created \in Nat, created' \in Nat, created' >= created, NEW v \in Nat, v <= created',
           locals'[t].value = v,
           \A u \in Enqueuers : u # t => pc'[u] = pc[u] /\ locals'[u] = locals[u] /\ locals[u].value \in Nat,
           \A i \in DOMAIN tables : \A s \in DOMAIN tables[i] : tables[i][s].value \in Nat,
           \A i \in DOMAIN tables : \A s \in DOMAIN tables[i] :
               tables[i][s].key # Hash!Nobody => (tables[i][s].key = t <=> tables[i][s].value = v),
           \A u \in Enqueuers : u # t /\ pc[u] = "insert" => locals[u].value # v
    PROVE  OwnInv'
<1>1. Agreeing'
  BY DEF Agreeing, OwnInv
<1>2. Bounded'
  BY DEF Bounded, OwnInv
<1>3. ASSUME NEW u \in Enqueuers, pc'[u] = "insert" PROVE Brings(u)'
  BY <1>3 DEF Brings, OwnInv
<1>4. ASSUME NEW u \in Enqueuers, NEW w \in Enqueuers, u # w, pc'[u] = "insert", pc'[w] = "insert"
      PROVE  locals'[u].value # locals'[w].value
  BY <1>4 DEF OwnInv
<1>5. ASSUME NEW u \in Enqueuers PROVE Given(u)'
  BY DEF Given, Holds, OwnInv
<1> QED BY <1>1, <1>2, <1>3, <1>4, <1>5 DEF OwnInv

LEMMA EntryTypes ==
    ASSUME HashTypes, NEW i \in DOMAIN tables, NEW s \in DOMAIN tables[i]
    PROVE  tables[i][s].value \in Nat /\ tables[i][s].key \in Enqueuers \cup {Hash!Nobody}
BY CapacityType DEF Entry

LEMMA OwnStep ==
    ASSUME HashTypes, PlaceInv, OwnInv, NEW t \in Enqueuers, Hash!Enqueuer(t)
    PROVE  OwnInv'
<1>1. \A u \in Enqueuers : u # t => pc'[u] = pc[u] /\ locals'[u] = locals[u] /\ given'[u] = given[u]
  BY Others
<1>2. \A u \in Enqueuers : locals[u].value \in Nat
  BY Fields
<1>3. CASE \/ Hash!Begin(t) \/ Hash!NotFound(t) \/ Hash!Lock(t) \/ Hash!NoLock(t) \/ Hash!Double(t) \/ Hash!AllocationFails(t)
           \/ Hash!LookAgain(t) \/ Hash!Probe(t)
  <2>1. UNCHANGED <<tables, created, given>>
    BY <1>3 DEF Hash!Begin, Hash!NotFound, Hash!Lock, Hash!NoLock, Hash!Double, Hash!AllocationFails, Hash!LookAgain, Hash!Probe, Hash!shared
  <2>2. pc'[t] = "insert" => pc[t] = "insert" /\ locals'[t].value = locals[t].value
    <3>1. CASE Hash!Probe(t)
      BY <3>1, HashMoves DEF Hash!Probe, HashMoved
    <3>2. CASE ~ Hash!Probe(t)
      BY <1>3, <3>2 DEF Hash!Begin, Hash!NotFound, Hash!Lock, Hash!NoLock, Hash!Double, Hash!AllocationFails, Hash!LookAgain, Hash!Step, HashTypes
    <3> QED BY <3>1, <3>2
  <2>3. Given(t)'
    BY <2>1 DEF OwnInv, Given, Holds
  <2> QED BY <1>1, <2>1, <2>2, <2>3, OwnStays
<1>4. CASE Hash!Found(t)
  <2>1. /\ UNCHANGED <<tables, created>> /\ pc'[t] = "idle"
        /\ given'[t] = given[t] \cup {Hash!ValueIn(t, locals[t].main)}
        /\ locals[t].main \in DOMAIN tables /\ Has(locals[t].main, t)
    BY <1>4, HoldingHas DEF Hash!Found, Hash!Return, Hash!shared, HashTypes, PlaceInv, Placed
  <2>2. \E s \in DOMAIN tables[locals[t].main] : Holds(locals[t].main, s, t, Hash!ValueIn(t, locals[t].main))
    BY <2>1, ValueType DEF Holds
  <2>3. Given(t)'
    BY <2>1, <2>2 DEF OwnInv, Given, Holds
  <2> QED BY <1>1, <2>1, <2>3, OwnStays
<1>5. CASE Hash!FoundDeep(t)
  <2>1. PICK i \in DOMAIN tables : i = Hash!Latest(Hash!Holding(t)) /\ Has(i, t)
    BY <1>5, LatestHolding, HoldingHas DEF Hash!FoundDeep, Hash!Step, PlaceInv, Placed
  <2>2. PICK v \in Nat : v = Hash!ValueIn(t, i)
    BY <2>1, ValueType
  <2>3. PICK s \in DOMAIN tables[i] : tables[i][s].key = t /\ tables[i][s].value = v
    BY <2>1, <2>2, ValueType
  <2>4. locals'[t].value = v /\ pc'[t] = "insert" /\ UNCHANGED <<tables, created, given>>
    <3>1. HashMoved(t, locals[t].main, locals[t].count, locals[t].capacity, home[t],
                    Hash!ValueIn(t, Hash!Latest(Hash!Holding(t))))
      BY <1>5, HashMoves
    <3>2. locals'[t].value = v
      BY <3>1, <2>1, <2>2 DEF HashMoved
    <3>3. pc' = [pc EXCEPT ![t] = "insert"] /\ UNCHANGED <<tables, created, given>>
      BY <1>5 DEF Hash!FoundDeep, Hash!Step, Hash!shared
    <3>4. pc'[t] = "insert"
      BY <3>3 DEF HashTypes
    <3> QED BY <3>2, <3>3, <3>4
  <2>5. t # Hash!Nobody
    BY NobodyElse
  <2>6. v <= created
    BY <2>3, <2>5 DEF OwnInv, Bounded
  <2>7. \A j \in DOMAIN tables : \A r \in DOMAIN tables[j] :
            tables[j][r].key # Hash!Nobody => (tables[j][r].key = t <=> tables[j][r].value = v)
    BY <2>3, <2>5 DEF OwnInv, Agreeing
  <2>8. \A u \in Enqueuers : u # t /\ pc[u] = "insert" => locals[u].value # v
    BY <2>3, <2>5 DEF OwnInv, Brings
  <2>9. \A j \in DOMAIN tables : \A r \in DOMAIN tables[j] : tables[j][r].value \in Nat
    BY EntryTypes
  <2>10. created \in Nat /\ created' \in Nat /\ created' >= created /\ v <= created'
    BY <2>4, <2>6 DEF HashTypes
  <2> QED BY <1>1, <1>2, <2>4, <2>7, <2>8, <2>9, <2>10, OwnBrought
<1>6. CASE Hash!CreateProducer(t)
  <2>1. PICK v \in Nat : v = created + 1 /\ created \in Nat /\ v > created
    BY DEF HashTypes
  <2>2. locals'[t].value = v /\ created' = v /\ pc'[t] = "insert" /\ pc[t] = "room" /\ UNCHANGED <<tables, given>>
    BY <1>6, <2>1, HashMoves DEF Hash!CreateProducer, Hash!Step, HashTypes, HashMoved
  <2>3. ~ InTables(t)
    BY <2>2 DEF PlaceInv, Placed, Fresh
  <2>4. \A j \in DOMAIN tables : \A r \in DOMAIN tables[j] : tables[j][r].value \in Nat
    BY EntryTypes
  <2>5. \A j \in DOMAIN tables : \A r \in DOMAIN tables[j] :
            tables[j][r].key # Hash!Nobody => tables[j][r].key # t /\ tables[j][r].value # v
    BY <2>1, <2>3, <2>4 DEF InTables, Has, OwnInv, Bounded
  <2>6. \A u \in Enqueuers : u # t /\ pc[u] = "insert" => locals[u].value # v
    BY <1>2, <2>1 DEF OwnInv, Bounded
  <2>7. created' \in Nat /\ created' >= created /\ v <= created'
    BY <2>1, <2>2
  <2> QED BY <1>1, <1>2, <2>1, <2>2, <2>4, <2>5, <2>6, <2>7, OwnBrought
<1>7. CASE Hash!Resize(t)
  <2>1. /\ UNCHANGED <<created, given>> /\ pc[t] = "resize" /\ pc'[t] = "room"
        /\ \A u \in Enqueuers : pc'[u] = "insert" => pc[u] = "insert" /\ locals'[u] = locals[u]
    BY <1>1, <1>7 DEF Hash!Resize, Hash!Step, HashTypes
  <2>2. CASE ~ Hash!Larger(t)
    <3>1. UNCHANGED tables
      BY <1>7, <2>2 DEF Hash!Resize
    <3>2. Given(t)'
      BY <2>1, <3>1 DEF OwnInv, Given, Holds
    <3> QED BY <1>1, <2>1, <3>1, <3>2, OwnStays
  <2>3. CASE Hash!Larger(t)
    <3>1. locals[t].capacity \in Nat \ {0}
      <4>1. Len(tables) \in DOMAIN tables /\ locals[t].capacity >= Hash!Capacity(Len(tables))
        BY <1>7 DEF Hash!Resize, Hash!Step, PlaceInv, Placed, HashTypes
      <4> QED BY <4>1, CapacityType, Fields
    <3>2. tables' = Append(tables, Hash!EmptyTable(locals[t].capacity))
      BY <1>7, <2>3 DEF Hash!Resize
    <3>3. /\ \A i \in DOMAIN tables : i \in DOMAIN tables' /\ tables'[i] = tables[i]
          /\ \A i \in DOMAIN tables' : \A s \in DOMAIN tables'[i] :
               tables'[i][s].key # Hash!Nobody => i \in DOMAIN tables
      BY <3>1, <3>2, Appended, EmptyIsTable
    <3>4. Agreeing'
      BY <3>3 DEF OwnInv, Agreeing
    <3>5. Bounded'
      BY <2>1, <3>3 DEF OwnInv, Bounded
    <3>6. \A u \in Enqueuers : pc'[u] = "insert" => Brings(u)'
      BY <2>1, <3>3 DEF OwnInv, Brings
    <3>7. \A u \in Enqueuers : Given(u)'
      BY <2>1, <3>3 DEF OwnInv, Given, Holds
    <3> QED BY <2>1, <3>4, <3>5, <3>6, <3>7 DEF OwnInv
  <2> QED BY <2>2, <2>3
<1>8. CASE Hash!Insert(t)
  <2>1. /\ pc[t] = "insert" /\ pc'[t] = "idle" /\ created' = created
        /\ given'[t] = given[t] \cup {locals[t].value}
    BY <1>8 DEF Hash!Insert, Hash!Return, HashTypes
  <2>2. PICK m \in DOMAIN tables : m = locals[t].main
    BY <2>1 DEF PlaceInv, Placed
  <2>3. PICK s \in DOMAIN tables[m] : s = Hash!Slot(t)
    BY <2>2, SlotInTable
  <2>4. PICK v \in Nat : v = locals[t].value
    BY <1>2
  <2>5. PICK e \in Entry : e = [key |-> t, value |-> v]
    BY DEF Entry
  <2>6. tables' = [tables EXCEPT ![m][s] = e] /\ tables[m][s].key = Hash!Nobody
    BY <1>8, <2>2, <2>3, <2>4, <2>5 DEF Hash!Insert, Hash!Free
  <2>7. /\ DOMAIN tables' = DOMAIN tables
        /\ \A j \in DOMAIN tables : DOMAIN tables'[j] = DOMAIN tables[j]
        /\ \A j \in DOMAIN tables : \A r \in DOMAIN tables[j] :
             tables'[j][r] = IF j = m /\ r = s THEN e ELSE tables[j][r]
    BY <2>6, SlotFilled
  <2>8. e.key = t /\ e.value = v /\ t # Hash!Nobody
    BY <2>5, EnqueuersAssumption
  <2>9. \A j \in DOMAIN tables : \A r \in DOMAIN tables[j] :
            tables[j][r].key # Hash!Nobody => (tables[j][r].key = t <=> tables[j][r].value = v)
    BY <2>1, <2>4 DEF OwnInv, Brings
  <2>10. Agreeing'
    BY <2>7, <2>8, <2>9 DEF OwnInv, Agreeing
  <2>11. Bounded'
    <3>1. v <= created
      BY <2>1, <2>4 DEF OwnInv, Bounded
    <3> QED BY <1>1, <2>1, <2>7, <2>8, <3>1 DEF OwnInv, Bounded
  <2>12. \A u \in Enqueuers : pc'[u] = "insert" => u # t /\ pc[u] = "insert" /\ locals'[u] = locals[u] /\ locals[u].value # v
    BY <1>1, <2>1, <2>4 DEF OwnInv
  <2>13. \A u \in Enqueuers : pc'[u] = "insert" => Brings(u)'
    BY <2>7, <2>8, <2>12 DEF OwnInv, Brings
  <2>14. \A u \in Enqueuers : Given(u)'
    <3>1. ASSUME NEW u \in Enqueuers, NEW w \in given[u]
          PROVE  \E i \in DOMAIN tables' : \E r \in DOMAIN tables'[i] :
                     tables'[i][r].key = u /\ tables'[i][r].value = w
      <4>1. PICK i \in DOMAIN tables : \E r \in DOMAIN tables[i] : Holds(i, r, u, w)
        BY <3>1 DEF OwnInv, Given
      <4>2. PICK r \in DOMAIN tables[i] : tables[i][r].key = u /\ tables[i][r].value = w
        BY <4>1 DEF Holds
      <4>3. tables'[i][r] = tables[i][r]
        BY <2>6, <2>7, <4>2, EnqueuersAssumption
      <4> QED BY <2>7, <4>2, <4>3
    <3>2. tables'[m][s].key = t /\ tables'[m][s].value = v
      BY <2>7, <2>8
    <3> QED BY <1>1, <2>1, <2>4, <2>7, <3>1, <3>2 DEF Given, Holds
  <2> QED BY <2>10, <2>11, <2>12, <2>13, <2>14 DEF OwnInv
<1> QED BY <1>3, <1>4, <1>5, <1>6, <1>7, <1>8 DEF Hash!Enqueuer

HashInv == HashTypes /\ PlaceInv /\ SizeInv /\ CrowdInv /\ OwnInv

LEMMA HashInit == ASSUME Hash!Init PROVE HashInv
<1>1. /\ Hash!EmptyTable(InitialCapacity) \in Tables /\ Len(tables) = 1 /\ DOMAIN tables = {1}
      /\ tables[1] = Hash!EmptyTable(InitialCapacity) /\ tables \in Seq(Tables)
      /\ \A s \in DOMAIN tables[1] : tables[1][s].key = Hash!Nobody
  BY EmptyIsTable, EnqueuersAssumption DEF Hash!Init
<1>2. HashTypes
  BY <1>1 DEF Hash!Init, HashTypes, HashPlaces, HashLocals, Hash!NoLocals, Hash!Nobody
<1>3. \A t \in Enqueuers : locals[t].count = 0 /\ pc[t] = "idle" /\ given[t] = {}
  BY DEF Hash!Init, Hash!NoLocals
<1>4. \A t \in Enqueuers : ~ InTables(t) /\ ~ Fresh(t)
  BY <1>1, <1>3, EnqueuersAssumption DEF InTables, Has, Fresh
<1>5. PlaceInv
  <2>1. Growing
    BY <1>1, <1>2, CapacityType DEF Growing
  <2> QED BY <1>1, <1>3, <1>4, <2>1 DEF PlaceInv, Placed, Single
<1>6. SizeInv
  <2>1. Counted = {}
    BY <1>4 DEF Counted
  <2> QED BY <2>1, FS_EmptySet DEF SizeInv, Hash!Init
<1>7. CrowdInv
  <2>1. \A x \in Nat : Small(x) = {}
    BY <1>4 DEF Small, Settling, HashSettled, InTables
  <2> QED BY <2>1 DEF CrowdInv
<1>8. OwnInv
  BY <1>1, <1>3 DEF OwnInv, Agreeing, Bounded, Brings, Given
<1> QED BY <1>2, <1>5, <1>6, <1>7, <1>8 DEF HashInv

LEMMA HashNext == ASSUME HashInv, [Hash!Next]_(Hash!vars) PROVE HashInv'
<1>1. ASSUME NEW t \in Enqueuers, Hash!Enqueuer(t) PROVE HashInv'
  <2>1. count \in Nat
    BY CountedFinite DEF HashInv, SizeInv
  <2> QED BY <1>1, <2>1, TypesStep, PlaceStep, CountStep, OwnStep DEF HashInv
<1>2. CASE UNCHANGED Hash!vars
  <2>1. UNCHANGED <<tables, count, resizing, created, home, pc, locals, given>>
    BY <1>2 DEF Hash!vars, Hash!shared
  <2>2. \A i : Hash!Capacity(i)' = Hash!Capacity(i)
    BY <2>1 DEF Hash!Capacity
  <2>3. HashTypes' /\ PlaceInv'
    BY <2>1, <2>2 DEF HashInv, HashTypes, PlaceInv, Placed, Growing, Single, InTables, Fresh, Has, Quarters
  <2>4. Counted' = Counted /\ \A x \in Nat : Small(x)' = Small(x)
    BY <2>1, <2>2 DEF Counted, Small, Settling, HashSettled, InTables, Fresh, Has, Quarters
  <2>5. OwnInv'
    BY <2>1 DEF HashInv, OwnInv, Agreeing, Bounded, Brings, Given, Holds
  <2> QED BY <2>1, <2>3, <2>4, <2>5 DEF HashInv, SizeInv, CrowdInv
<1> QED BY <1>1, <1>2 DEF Hash!Next

\* A table with every slot taken would hold more threads than may settle in it.
LEMMA RoomLeft ==
    ASSUME HashInv, NEW i \in DOMAIN tables
    PROVE  \E s \in DOMAIN tables[i] : tables[i][s].key = Hash!Nobody
<1> SUFFICES ASSUME \A s \in DOMAIN tables[i] : tables[i][s].key # Hash!Nobody PROVE FALSE
  OBVIOUS
<1>1. /\ HashTypes /\ Hash!Capacity(i) \in Nat \ {0} /\ Quarters(i) \in Nat /\ Quarters(i) <= Hash!Capacity(i)
      /\ DOMAIN tables[i] = 0..(Hash!Capacity(i) - 1)
  BY CapacityType DEF HashInv
<1>2. \A s \in DOMAIN tables[i] : tables[i][s].key \in Small(Quarters(i))
  BY <1>1, EntryTypes DEF Small, Settling, HashSettled, Has
<1> DEFINE f == [s \in DOMAIN tables[i] |-> tables[i][s].key]
<1>3. f \in Injection(DOMAIN tables[i], Small(Quarters(i)))
  <2>1. f \in [DOMAIN tables[i] -> Small(Quarters(i))]
    BY <1>2
  <2>2. \A r, s \in DOMAIN tables[i] : f[r] = f[s] => r = s
    BY DEF HashInv, PlaceInv, Single
  <2> QED BY <2>1, <2>2 DEF Injection, IsInjective
<1>4. Cardinality(DOMAIN tables[i]) <= Cardinality(Small(Quarters(i)))
  <2>1. IsFiniteSet(Small(Quarters(i)))
    BY <1>1, CountedFinite
  <2> HIDE DEF f
  <2> QED BY <1>3, <2>1, FS_Injection
<1>5. Cardinality(DOMAIN tables[i]) = Hash!Capacity(i)
  BY DEF Hash!Capacity, Hash!Cardinality, Cardinality
<1>6. Small(Quarters(i)) # {}
  <2>1. 0 \in DOMAIN tables[i]
    BY <1>1
  <2> QED BY <1>2, <2>1
<1>7. Cardinality(Small(Quarters(i))) < Quarters(i) /\ Cardinality(Small(Quarters(i))) \in Nat
  BY <1>1, <1>6, CountedFinite DEF HashInv, CrowdInv
<1>8. PICK n \in Nat : n = Cardinality(Small(Quarters(i)))
  BY <1>7
<1>9. Hash!Capacity(i) <= n /\ n < Quarters(i)
  BY <1>4, <1>5, <1>7, <1>8
<1> QED BY <1>1, <1>9

(* No table of implicit producers is ever full, for any number of threads, *)
(* tables and allocations that fail, however late a thread adds itself to  *)
(* a table that is no longer the newest (concurrentqueue.h:3389, 3397).    *)
THEOREM TablesNeverFull == Hash!Spec => []NeverFull
<1>1. HashInv => NeverFull
  BY RoomLeft DEF NeverFull, Hash!NeverFull
<1> QED BY <1>1, HashInit, HashNext, PTL DEF Hash!Spec

(* Every call of a thread without a token brings it the same producer,     *)
(* which no other thread is ever given, while the tables grow under it     *)
(* (concurrentqueue.h:3371-3373, 3437-3462).                               *)
THEOREM OneProducerEach == Hash!Spec => []OwnProducer
<1>1. HashInv => OwnProducer
  <2> SUFFICES ASSUME HashInv PROVE OwnProducer
    OBVIOUS
  <2>1. ASSUME NEW t \in Enqueuers, NEW u \in Enqueuers, NEW v \in given[t], NEW w \in given[u]
        PROVE  t = u <=> v = w
    <3>1. PICK i \in DOMAIN tables : \E r \in DOMAIN tables[i] : Holds(i, r, t, v)
      BY DEF HashInv, OwnInv, Given
    <3>2. PICK r \in DOMAIN tables[i] : tables[i][r].key = t /\ tables[i][r].value = v
      BY <3>1 DEF Holds
    <3>3. PICK j \in DOMAIN tables : \E s \in DOMAIN tables[j] : Holds(j, s, u, w)
      BY DEF HashInv, OwnInv, Given
    <3>4. PICK s \in DOMAIN tables[j] : tables[j][s].key = u /\ tables[j][s].value = w
      BY <3>3 DEF Holds
    <3>5. t # Hash!Nobody /\ u # Hash!Nobody
      BY EnqueuersAssumption
    <3> QED BY <3>2, <3>4, <3>5 DEF HashInv, OwnInv, Agreeing
  <2>2. ASSUME NEW t \in Enqueuers PROVE Cardinality(given[t]) <= 1
    <3>1. CASE given[t] = {}
      BY <3>1, FS_EmptySet
    <3>2. CASE given[t] # {}
      <4>1. PICK v : v \in given[t]
        BY <3>2
      <4>2. given[t] = {v}
        BY <2>1, <4>1
      <4> QED BY <4>2, FS_Singleton
    <3> QED BY <3>1, <3>2
  <2> QED BY <2>1, <2>2 DEF OwnProducer, Hash!OwnProducer, Hash!Cardinality, Cardinality
<1> QED BY <1>1, HashInit, HashNext, PTL DEF Hash!Spec

-----------------------------------------------------------------------------
\* The free list.

Node == Nodes \cup {Null}
AdderPlaces == {"idle", "add_head", "add_next", "add_refs", "add_cas", "add_undo", "get_head",
                "get_loop", "get_ref", "get_next", "get_cas", "get_done", "get_undo"}
AdderLocals == [head : Node, refs : Nat, next : Node, node : Node, getting : BOOLEAN]

Early == {"add_head", "add_next", "add_refs"}
Late == {"add_cas", "add_undo"}

ListTypes ==
    /\ freeListHead \in Node
    /\ freeListRefs \in [Nodes -> Nat] /\ freeListNext \in [Nodes -> Node]
    /\ thread \in [Adders -> AdderPlaces] /\ at \in [Adders -> AdderLocals]
    /\ out \subseteq Nodes

-----------------------------------------------------------------------------
\* The list as a sequence: each node once, in the order of their next.
ListLinked(s, top, next) ==
    /\ \A i, j \in 1..Len(s) : s[i] = s[j] => i = j
    /\ top = IF s = <<>> THEN Null ELSE s[1]
    /\ \A i \in 1..Len(s) : next[s[i]] = IF i = Len(s) THEN Null ELSE s[i + 1]
Elements(s) == { s[i] : i \in 1..Len(s) }
Closed(S, top, next) ==
    /\ top # Null => top \in S
    /\ \A m \in S : next[m] # Null => next[m] \in S
Reach(top, next) == { n \in Nodes : \A S \in SUBSET Nodes : Closed(S, top, next) => n \in S }
IsList == \E s \in Seq(Nodes) : ListLinked(s, freeListHead, freeListNext)

LEMMA ListedReach == List!Listed = Reach(freeListHead, freeListNext)
BY DEF List!Listed, Reach, Closed

LEMMA ChainReach ==
    ASSUME NEW s \in Seq(Nodes), NEW top, NEW next, ListLinked(s, top, next), Null \notin Nodes
    PROVE  Reach(top, next) = Elements(s)
<1>1. Elements(s) \in SUBSET Nodes
  BY DEF Elements
<1>2. Closed(Elements(s), top, next)
  <2>1. top # Null => top \in Elements(s)
    BY DEF ListLinked, Elements
  <2>2. ASSUME NEW m \in Elements(s), next[m] # Null PROVE next[m] \in Elements(s)
    <3>1. PICK i \in 1..Len(s) : m = s[i]
      BY DEF Elements
    <3>2. i # Len(s) /\ next[m] = s[i + 1]
      BY <2>2, <3>1 DEF ListLinked
    <3>3. i + 1 \in 1..Len(s)
      BY <3>2
    <3> QED BY <3>2, <3>3 DEF Elements
  <2> QED BY <2>1, <2>2 DEF Closed
<1>3. ASSUME NEW n \in Reach(top, next) PROVE n \in Elements(s)
  BY <1>1, <1>2 DEF Reach
<1>4. ASSUME NEW i \in 1..Len(s), NEW S \in SUBSET Nodes, Closed(S, top, next) PROVE s[i] \in S
  <2> DEFINE missed == { j \in 1..Len(s) : s[j] \notin S }
  <2> SUFFICES ASSUME missed # {} PROVE FALSE
    OBVIOUS
  <2>0. missed \subseteq Nat
    OBVIOUS
  <2>1. \E j \in missed : \A k \in missed : j <= k
    <3> HIDE DEF missed
    <3> QED BY <2>0, Least
  <2>7. PICK j \in missed : \A k \in missed : j <= k
    BY <2>1
  <2>2. j \in 1..Len(s) /\ s[j] \in Nodes /\ s[j] \notin S
    OBVIOUS
  <2>3. j # 1
    BY <1>4, <2>2 DEF ListLinked, Closed
  <2>4. j - 1 \in 1..Len(s) /\ ~ (j <= j - 1) /\ j - 1 # Len(s) /\ (j - 1) + 1 = j
    BY <2>2, <2>3
  <2>5. s[j - 1] \in S
    BY <2>4, <2>7
  <2>6. next[s[j - 1]] = s[j]
    BY <2>4 DEF ListLinked
  <2> QED BY <1>4, <2>2, <2>5, <2>6 DEF Closed
<1>5. ASSUME NEW i \in 1..Len(s) PROVE s[i] \in Reach(top, next)
  BY <1>4 DEF Reach
<1> QED BY <1>3, <1>5 DEF Elements

LEMMA ListKept ==
    ASSUME IsList, Null \notin Nodes, freeListHead' = freeListHead,
           \A n \in List!Listed : freeListNext'[n] = freeListNext[n]
    PROVE  IsList' /\ List!Listed' = List!Listed
<1>1. PICK s \in Seq(Nodes) : ListLinked(s, freeListHead, freeListNext)
  BY DEF IsList
<1>2. List!Listed = Elements(s)
  BY <1>1, ChainReach, ListedReach
<1>3. \A i \in 1..Len(s) : freeListNext'[s[i]] = freeListNext[s[i]]
  BY <1>2 DEF Elements
<1>4. ListLinked(s, freeListHead', freeListNext')
  BY <1>1, <1>3 DEF ListLinked
<1>5. List!Listed' = Reach(freeListHead', freeListNext')
  BY DEF List!Listed, Reach, Closed
<1>6. List!Listed' = Elements(s)
  BY <1>4, <1>5, ChainReach
<1> QED BY <1>2, <1>4, <1>6 DEF IsList

LEMMA ListPop ==
    ASSUME IsList, Null \notin Nodes, freeListHead \in Nodes,
           freeListHead' = freeListNext[freeListHead], UNCHANGED freeListNext
    PROVE  IsList' /\ freeListHead \in List!Listed /\ List!Listed' = List!Listed \ {freeListHead}
<1>1. PICK s \in Seq(Nodes) : ListLinked(s, freeListHead, freeListNext)
  BY DEF IsList
<1>2. List!Listed = Elements(s)
  BY <1>1, ChainReach, ListedReach
<1>3. s # <<>> /\ freeListHead = s[1] /\ Len(s) \in Nat \ {0} /\ 1 \in 1..Len(s)
  BY <1>1 DEF ListLinked
<1>4. PICK r \in Seq(Nodes) : /\ r = Tail(s) /\ Len(r) = Len(s) - 1
                            /\ \A i \in 1..Len(r) : r[i] = s[i + 1]
  <2>1. /\ Tail(s) \in Seq(Nodes) /\ Len(Tail(s)) = Len(s) - 1
        /\ \A i \in 1..Len(Tail(s)) : Tail(s)[i] = s[i + 1]
    BY <1>3, HeadTailProperties
  <2> QED BY <2>1
<1>5. Len(r) = Len(s) - 1 /\ \A i \in 1..Len(r) : r[i] = s[i + 1] /\ i + 1 \in 1..Len(s)
  BY <1>3, <1>4
<1>6. ListLinked(r, freeListHead', freeListNext')
  <2>1. \A i, j \in 1..Len(r) : r[i] = r[j] => i = j
    BY <1>1, <1>5 DEF ListLinked
  <2>2. freeListHead' = IF r = <<>> THEN Null ELSE r[1]
    <3>1. freeListHead' = IF 1 = Len(s) THEN Null ELSE s[1 + 1]
      BY <1>1, <1>3 DEF ListLinked
    <3>2. 1 = Len(s) <=> r = <<>>
      BY <1>3, <1>5
    <3>3. r # <<>> => r[1] = s[2]
      BY <1>5
    <3> QED BY <3>1, <3>2, <3>3
  <2>3. ASSUME NEW i \in 1..Len(r)
        PROVE  freeListNext'[r[i]] = IF i = Len(r) THEN Null ELSE r[i + 1]
    <3>1. freeListNext[s[i + 1]] = IF i + 1 = Len(s) THEN Null ELSE s[i + 1 + 1]
      BY <1>1, <1>5 DEF ListLinked
    <3>2. i # Len(r) => i + 1 \in 1..Len(r)
      OBVIOUS
    <3> QED BY <1>3, <1>5, <3>1, <3>2
  <2> QED BY <2>1, <2>2, <2>3 DEF ListLinked
<1>7. List!Listed' = Reach(freeListHead', freeListNext')
  BY DEF List!Listed, Reach, Closed
<1>8. List!Listed' = Elements(r)
  BY <1>6, <1>7, ChainReach
<1>9. Elements(r) = Elements(s) \ {freeListHead}
  <2>1. ASSUME NEW i \in 1..Len(r) PROVE r[i] \in Elements(s) /\ r[i] # s[1]
    BY <1>1, <1>3, <1>5 DEF ListLinked, Elements
  <2>2. ASSUME NEW i \in 1..Len(s), s[i] # s[1] PROVE s[i] \in Elements(r)
    <3>1. i - 1 \in 1..Len(r) /\ i - 1 + 1 = i
      BY <1>3, <1>5, <2>2
    <3> QED BY <1>5, <3>1 DEF Elements
  <2> QED BY <1>3, <2>1, <2>2 DEF Elements
<1> QED BY <1>2, <1>3, <1>6, <1>8, <1>9 DEF IsList, Elements

LEMMA ListPush ==
    ASSUME IsList, Null \notin Nodes, NEW n \in Nodes \ List!Listed,
           freeListNext[n] = freeListHead, freeListHead' = n, UNCHANGED freeListNext
    PROVE  IsList' /\ List!Listed' = List!Listed \cup {n}
<1>1. PICK s \in Seq(Nodes) : ListLinked(s, freeListHead, freeListNext)
  BY DEF IsList
<1>2. List!Listed = Elements(s)
  BY <1>1, ChainReach, ListedReach
<1>3. PICK r \in Seq(Nodes) : /\ r = <<n>> \o s /\ Len(r) = 1 + Len(s)
                            /\ \A i \in 1..Len(r) : r[i] = IF i <= 1 THEN <<n>>[i] ELSE s[i - 1]
  <2>1. <<n>> \in Seq(Nodes) /\ Len(<<n>>) = 1
    OBVIOUS
  <2>2. /\ <<n>> \o s \in Seq(Nodes) /\ Len(<<n>> \o s) = 1 + Len(s)
        /\ \A i \in 1..Len(<<n>> \o s) : (<<n>> \o s)[i] = IF i <= 1 THEN <<n>>[i] ELSE s[i - 1]
    BY <2>1, ConcatProperties
  <2> QED BY <2>2
<1>4. /\ Len(r) = Len(s) + 1 /\ Len(s) \in Nat /\ r[1] = n
      /\ \A i \in 1..Len(s) : r[i + 1] = s[i] /\ s[i] # n
  BY <1>2, <1>3 DEF Elements
<1>5. \A i \in 2..Len(r) : i - 1 \in 1..Len(s) /\ r[i] = s[i - 1]
  BY <1>4
<1>6. ListLinked(r, freeListHead', freeListNext')
  <2>1. ASSUME NEW i \in 1..Len(r), NEW j \in 1..Len(r), r[i] = r[j] PROVE i = j
    <3>1. CASE i = 1 /\ j # 1
      <4>1. j - 1 \in 1..Len(s) /\ r[j] = s[j - 1]
        BY <1>4, <1>5, <3>1
      <4> QED BY <1>4, <2>1, <3>1, <4>1
    <3>2. CASE i # 1 /\ j = 1
      <4>1. i - 1 \in 1..Len(s) /\ r[i] = s[i - 1]
        BY <1>4, <1>5, <3>2
      <4> QED BY <1>4, <2>1, <3>2, <4>1
    <3>3. CASE i # 1 /\ j # 1
      <4>1. i - 1 \in 1..Len(s) /\ j - 1 \in 1..Len(s) /\ s[i - 1] = s[j - 1]
        BY <1>5, <2>1, <3>3
      <4>2. i - 1 = j - 1
        BY <1>1, <4>1 DEF ListLinked
      <4> QED BY <4>2
    <3> QED BY <3>1, <3>2, <3>3
  <2>2. freeListHead' = IF r = <<>> THEN Null ELSE r[1]
    BY <1>4
  <2>3. ASSUME NEW i \in 1..Len(r)
        PROVE  freeListNext'[r[i]] = IF i = Len(r) THEN Null ELSE r[i + 1]
    <3>1. CASE i = 1
      <4>1. freeListNext[n] = IF s = <<>> THEN Null ELSE s[1]
        BY <1>1 DEF ListLinked
      <4>2. s = <<>> <=> Len(s) = 0
        OBVIOUS
      <4>3. Len(s) # 0 => r[2] = s[1]
        BY <1>4
      <4> QED BY <1>4, <3>1, <4>1, <4>2, <4>3
    <3>2. CASE i # 1
      <4>1. i - 1 \in 1..Len(s) /\ r[i] = s[i - 1]
        BY <1>5, <3>2
      <4>2. freeListNext[s[i - 1]] = IF i - 1 = Len(s) THEN Null ELSE s[i - 1 + 1]
        BY <1>1, <4>1 DEF ListLinked
      <4>3. i - 1 # Len(s) => r[i + 1] = s[i]
        BY <1>4, <4>1
      <4> QED BY <1>4, <4>1, <4>2, <4>3
    <3> QED BY <3>1, <3>2
  <2> QED BY <2>1, <2>2, <2>3 DEF ListLinked
<1>7. List!Listed' = Reach(freeListHead', freeListNext')
  BY DEF List!Listed, Reach, Closed
<1>8. List!Listed' = Elements(r)
  BY <1>6, <1>7, ChainReach
<1>9. Elements(r) = Elements(s) \cup {n}
  <2>1. ASSUME NEW i \in 1..Len(r) PROVE r[i] \in Elements(s) \cup {n}
    <3>1. CASE i = 1
      BY <1>4, <3>1
    <3>2. CASE i # 1
      <4>1. i \in 2..Len(r)
        BY <1>4, <3>2
      <4> QED BY <1>5, <4>1 DEF Elements
    <3> QED BY <3>1, <3>2
  <2>2. \A i \in 1..Len(s) : s[i] \in Elements(r)
    BY <1>4 DEF Elements
  <2>3. n \in Elements(r)
    BY <1>4 DEF Elements
  <2> QED BY <2>1, <2>2, <2>3 DEF Elements
<1> QED BY <1>2, <1>6, <1>8, <1>9 DEF IsList

-----------------------------------------------------------------------------
\* Who counts as a reference of a node, and who has it in hand.
Looking(t, n) ==
    \/ thread[t] \in {"get_next", "get_cas"} /\ at[t].head = n
    \/ thread[t] = "get_undo" /\ at[t].node = n
AddingEarly(t, n) == thread[t] \in Early /\ at[t].node = n
AddingLate(t, n) == thread[t] \in Late /\ at[t].node = n
NodeTaking(t, n) == thread[t] = "get_done" /\ at[t].head = n
ListBusy(t, n) == AddingEarly(t, n) \/ AddingLate(t, n) \/ NodeTaking(t, n)

Lookers(n) == { t \in Adders : Looking(t, n) }
Looks(n) == Cardinality(Lookers(n))

\* A node is in one of six states, which tell what its references add up to.
Idle(n) == \A t \in Adders : ~ ListBusy(t, n)
Only(t, n) == \A u \in Adders : ListBusy(u, n) => u = t
IsOut(n) == n \in out /\ n \notin List!Listed /\ Idle(n) /\ freeListRefs[n] = Looks(n)
IsOn(n) == n \notin out /\ n \in List!Listed /\ Idle(n) /\ freeListRefs[n] = Looks(n) + 1
IsPending(n) ==
    /\ n \notin out /\ n \notin List!Listed /\ Idle(n)
    /\ freeListRefs[n] = Looks(n) + List!ShouldBeOnFreeList /\ Looks(n) >= 1
IsTaken(n) ==
    /\ n \notin out /\ n \notin List!Listed /\ freeListRefs[n] = Looks(n) + 2
    /\ \E t \in Adders : NodeTaking(t, n) /\ Only(t, n)
IsEarly(n) ==
    /\ n \notin out /\ n \notin List!Listed /\ freeListRefs[n] = List!ShouldBeOnFreeList /\ Looks(n) = 0
    /\ \E t \in Adders : AddingEarly(t, n) /\ Only(t, n)
IsLate(n) ==
    /\ n \notin out /\ n \notin List!Listed /\ freeListRefs[n] = Looks(n) + 1
    /\ \E t \in Adders : AddingLate(t, n) /\ Only(t, n)
NodeInv(n) == IsOut(n) \/ IsOn(n) \/ IsPending(n) \/ IsTaken(n) \/ IsEarly(n) \/ IsLate(n)

\* What a thread knows.
Knows(t) ==
    /\ thread[t] \in Early \cup Late \cup {"get_undo"} => at[t].node \in Nodes
    /\ thread[t] \in {"get_ref", "get_next", "get_cas", "get_done"} => at[t].head \in Nodes
    /\ thread[t] = "get_ref" => at[t].refs % List!ShouldBeOnFreeList # 0
    /\ thread[t] = "get_cas" => at[t].next = freeListNext[at[t].head]
    /\ thread[t] \in {"add_refs", "add_cas"} => at[t].next = freeListNext[at[t].node]

ListInv ==
    /\ ListTypes /\ IsList
    /\ \A t \in Adders : Knows(t)
    /\ \A n \in Nodes : NodeInv(n)

LEMMA LookersFinite ==
    \A n : IsFiniteSet(Lookers(n)) /\ Looks(n) \in Nat /\ Looks(n) < List!ShouldBeOnFreeList - 2
<1> TAKE n
<1>1. IsFiniteSet(Lookers(n)) /\ Cardinality(Lookers(n)) <= Cardinality(Adders)
  BY AddersAssumption, FS_Subset DEF Lookers
<1>2. Cardinality(Lookers(n)) \in Nat /\ Cardinality(Adders) \in Nat
  BY <1>1, AddersAssumption, FS_CardinalityType
<1>3. List!ShouldBeOnFreeList \in Nat
  BY DEF List!ShouldBeOnFreeList
<1> QED BY <1>1, <1>2, <1>3, AddersAssumption DEF Looks

LEMMA ListedNodes == List!Listed \subseteq Nodes
BY DEF List!Listed

-----------------------------------------------------------------------------
\* The locals field by field, as each step leaves them.
ListMoved(t, place, top, refs, next, node) ==
    /\ thread' \in [Adders -> AdderPlaces] /\ at' \in [Adders -> AdderLocals]
    /\ thread'[t] = place
    /\ at'[t].head = top /\ at'[t].refs = refs /\ at'[t].next = next /\ at'[t].node = node
    /\ \A u \in Adders : u # t => thread'[u] = thread[u] /\ at'[u] = at[u]

LEMMA AtFields ==
    ASSUME ListTypes, NEW t \in Adders
    PROVE  /\ at[t].head \in Node /\ at[t].refs \in Nat /\ at[t].next \in Node /\ at[t].node \in Node
BY DEF ListTypes, AdderLocals

LEMMA SetHead ==
    ASSUME ListTypes, NEW t \in Adders, NEW x \in Node, at' = [at EXCEPT ![t].head = x],
           NEW p \in AdderPlaces, thread' = [thread EXCEPT ![t] = p]
    PROVE  ListMoved(t, p, x, at[t].refs, at[t].next, at[t].node)
BY DEF ListTypes, AdderLocals, ListMoved

LEMMA SetHeadGetting ==
    ASSUME ListTypes, NEW t \in Adders, NEW x \in Node,
           at' = [at EXCEPT ![t].head = x, ![t].getting = TRUE],
           NEW p \in AdderPlaces, thread' = [thread EXCEPT ![t] = p]
    PROVE  ListMoved(t, p, x, at[t].refs, at[t].next, at[t].node)
BY DEF ListTypes, AdderLocals, ListMoved

LEMMA SetNodeHead ==
    ASSUME ListTypes, NEW t \in Adders, NEW x \in Node, NEW y \in Node,
           at' = [at EXCEPT ![t].node = x, ![t].head = y],
           NEW p \in AdderPlaces, thread' = [thread EXCEPT ![t] = p]
    PROVE  ListMoved(t, p, y, at[t].refs, at[t].next, x)
BY DEF ListTypes, AdderLocals, ListMoved

LEMMA SetNode ==
    ASSUME ListTypes, NEW t \in Adders, NEW x \in Node, at' = [at EXCEPT ![t].node = x],
           NEW p \in AdderPlaces, thread' = [thread EXCEPT ![t] = p]
    PROVE  ListMoved(t, p, at[t].head, at[t].refs, at[t].next, x)
BY DEF ListTypes, AdderLocals, ListMoved

LEMMA SetNext ==
    ASSUME ListTypes, NEW t \in Adders, NEW x \in Node, at' = [at EXCEPT ![t].next = x],
           NEW p \in AdderPlaces, thread' = [thread EXCEPT ![t] = p]
    PROVE  ListMoved(t, p, at[t].head, at[t].refs, x, at[t].node)
BY DEF ListTypes, AdderLocals, ListMoved

LEMMA SetRefs ==
    ASSUME ListTypes, NEW t \in Adders, NEW x \in Nat, at' = [at EXCEPT ![t].refs = x],
           NEW p \in AdderPlaces, thread' = [thread EXCEPT ![t] = p]
    PROVE  ListMoved(t, p, at[t].head, x, at[t].next, at[t].node)
BY DEF ListTypes, AdderLocals, ListMoved

LEMMA SetNone ==
    ASSUME ListTypes, NEW t \in Adders, List!Return(t)
    PROVE  ListMoved(t, "idle", Null, 0, Null, Null)
BY DEF ListTypes, AdderLocals, AdderPlaces, List!NoLocals, Node, ListMoved, List!Return

LEMMA SetPlace ==
    ASSUME ListTypes, NEW t \in Adders, UNCHANGED at,
           NEW p \in AdderPlaces, thread' = [thread EXCEPT ![t] = p]
    PROVE  ListMoved(t, p, at[t].head, at[t].refs, at[t].next, at[t].node)
BY DEF ListTypes, AdderLocals, ListMoved

\* A node that a step leaves alone.
ListUntouched(t, n) ==
    /\ freeListRefs'[n] = freeListRefs[n]
    /\ (n \in out)' <=> n \in out
    /\ (n \in List!Listed)' <=> n \in List!Listed
    /\ Looking(t, n)' <=> Looking(t, n)
    /\ AddingEarly(t, n)' <=> AddingEarly(t, n)
    /\ AddingLate(t, n)' <=> AddingLate(t, n)
    /\ NodeTaking(t, n)' <=> NodeTaking(t, n)

Alike(t) == \A u \in Adders : u # t => thread'[u] = thread[u] /\ at'[u] = at[u]

LEMMA OthersAlike ==
    ASSUME NEW t, Alike(t), NEW u \in Adders, u # t, NEW n
    PROVE  /\ Looking(u, n)' <=> Looking(u, n)
           /\ AddingEarly(u, n)' <=> AddingEarly(u, n)
           /\ AddingLate(u, n)' <=> AddingLate(u, n)
           /\ NodeTaking(u, n)' <=> NodeTaking(u, n)
           /\ ListBusy(u, n)' <=> ListBusy(u, n)
BY DEF Alike, Looking, AddingEarly, AddingLate, NodeTaking, ListBusy

LEMMA SameLooks ==
    ASSUME NEW t \in Adders, Alike(t), NEW n, Looking(t, n)' <=> Looking(t, n)
    PROVE  Looks(n)' = Looks(n)
<1>1. Lookers(n)' = Lookers(n)
  BY OthersAlike DEF Lookers
<1> QED BY <1>1 DEF Looks

LEMMA OneLooksOn ==
    ASSUME NEW t \in Adders, Alike(t), NEW n, ~ Looking(t, n), Looking(t, n)'
    PROVE  Looks(n)' = Looks(n) + 1
<1>1. Lookers(n)' = Lookers(n) \cup {t} /\ t \notin Lookers(n)
  BY OthersAlike DEF Lookers
<1>2. IsFiniteSet(Lookers(n))
  BY LookersFinite
<1>3. Cardinality(Lookers(n) \cup {t}) = Cardinality(Lookers(n)) + 1
  BY <1>1, <1>2, FS_AddElement
<1> QED BY <1>1, <1>3 DEF Looks

LEMMA OneLooksAway ==
    ASSUME NEW t \in Adders, Alike(t), NEW n, Looking(t, n), ~ Looking(t, n)'
    PROVE  Looks(n)' = Looks(n) - 1 /\ Looks(n) >= 1
<1>1. Lookers(n)' = Lookers(n) \ {t} /\ t \in Lookers(n)
  BY OthersAlike DEF Lookers
<1>2. IsFiniteSet(Lookers(n))
  BY LookersFinite
<1>3. Cardinality(Lookers(n) \ {t}) = Cardinality(Lookers(n)) - 1 /\ Cardinality(Lookers(n)) # 0
  BY <1>1, <1>2, FS_RemoveElement, FS_EmptySet
<1>4. Looks(n) \in Nat
  BY LookersFinite
<1> QED BY <1>1, <1>3, <1>4 DEF Looks

LEMMA NodeStays ==
    ASSUME NEW t \in Adders, Alike(t), NEW n \in Nodes, NodeInv(n), ListUntouched(t, n)
    PROVE  NodeInv(n)'
<1>1. Looks(n)' = Looks(n)
  BY SameLooks DEF ListUntouched
<1>2. \A u \in Adders : /\ ListBusy(u, n)' <=> ListBusy(u, n)
                        /\ NodeTaking(u, n)' <=> NodeTaking(u, n)
                        /\ AddingEarly(u, n)' <=> AddingEarly(u, n)
                        /\ AddingLate(u, n)' <=> AddingLate(u, n)
  BY OthersAlike DEF ListUntouched, ListBusy
<1>3. Idle(n)' <=> Idle(n)
  BY <1>2 DEF Idle
<1>4. \A u \in Adders : Only(u, n)' <=> Only(u, n)
  BY <1>2 DEF Only
<1>5. freeListRefs'[n] = freeListRefs[n] /\ ((n \in out)' <=> n \in out) /\ ((n \in List!Listed)' <=> n \in List!Listed)
  BY DEF ListUntouched
<1>6. (IsOut(n)' <=> IsOut(n)) /\ (IsOn(n)' <=> IsOn(n)) /\ (IsPending(n)' <=> IsPending(n))
  BY <1>1, <1>3, <1>5 DEF IsOut, IsOn, IsPending
<1>7. (IsTaken(n)' <=> IsTaken(n)) /\ (IsEarly(n)' <=> IsEarly(n)) /\ (IsLate(n)' <=> IsLate(n))
  BY <1>1, <1>2, <1>4, <1>5 DEF IsTaken, IsEarly, IsLate
<1> QED BY <1>6, <1>7 DEF NodeInv

\* Where a step leaves its thread.
LEMMA ListMoves ==
    ASSUME ListInv, NEW t \in Adders
    PROVE  /\ List!AddLoadHead(t) => ListMoved(t, "add_next", at[t].head, at[t].refs, freeListHead, at[t].node)
           /\ List!AddStoreNext(t) => ListMoved(t, "add_refs", at[t].head, at[t].refs, at[t].next, at[t].node)
           /\ List!AddStoreRefs(t) => ListMoved(t, "add_cas", at[t].head, at[t].refs, at[t].next, at[t].node)
           /\ List!AddDone(t) => \/ ListMoved(t, "get_loop", at[t].head, at[t].refs, at[t].next, Null)
                            \/ ListMoved(t, "idle", Null, 0, Null, Null)
           /\ List!Get(t) => ListMoved(t, "get_loop", freeListHead, at[t].refs, at[t].next, at[t].node)
           /\ List!GetReload(t) => ListMoved(t, "get_loop", freeListHead, at[t].refs, at[t].next, at[t].node)
           /\ List!GetNext(t) => ListMoved(t, "get_cas", at[t].head, at[t].refs, freeListNext[at[t].head], at[t].node)
           /\ List!GetDone(t) => ListMoved(t, "idle", Null, 0, Null, Null)
<1> USE DEF AdderPlaces
<1>1. freeListHead \in Node /\ Null \in Node /\ ListTypes
  BY DEF ListInv, ListTypes, Node
<1>2. List!AddLoadHead(t) => ListMoved(t, "add_next", at[t].head, at[t].refs, freeListHead, at[t].node)
  BY <1>1, SetNext DEF List!AddLoadHead, List!Step
<1>3. List!AddStoreNext(t) => ListMoved(t, "add_refs", at[t].head, at[t].refs, at[t].next, at[t].node)
  BY <1>1, SetPlace DEF List!AddStoreNext, List!Step
<1>4. List!AddStoreRefs(t) => ListMoved(t, "add_cas", at[t].head, at[t].refs, at[t].next, at[t].node)
  BY <1>1, SetPlace DEF List!AddStoreRefs, List!Step
<1>5. List!AddDone(t) => \/ ListMoved(t, "get_loop", at[t].head, at[t].refs, at[t].next, Null)
                    \/ ListMoved(t, "idle", Null, 0, Null, Null)
  BY <1>1, SetNode, SetNone DEF List!AddDone, List!Goto
<1>6. List!Get(t) => ListMoved(t, "get_loop", freeListHead, at[t].refs, at[t].next, at[t].node)
  BY <1>1, SetHeadGetting DEF List!Get, List!Goto
<1>7. List!GetReload(t) => ListMoved(t, "get_loop", freeListHead, at[t].refs, at[t].next, at[t].node)
  BY <1>1, SetHead DEF List!GetReload, List!Step
<1>8. List!GetNext(t) => ListMoved(t, "get_cas", at[t].head, at[t].refs, freeListNext[at[t].head], at[t].node)
  <2> SUFFICES ASSUME List!GetNext(t)
               PROVE  ListMoved(t, "get_cas", at[t].head, at[t].refs, freeListNext[at[t].head], at[t].node)
    OBVIOUS
  <2>1. at[t].head \in Nodes
    BY DEF List!GetNext, List!Step, ListInv, Knows
  <2>2. freeListNext[at[t].head] \in Node
    BY <1>1, <2>1 DEF ListTypes
  <2> QED BY <1>1, <2>2, SetNext DEF List!GetNext, List!Step
<1>9. List!GetDone(t) => ListMoved(t, "idle", Null, 0, Null, Null)
  BY <1>1, SetNone DEF List!GetDone
<1> QED BY <1>2, <1>3, <1>4, <1>5, <1>6, <1>7, <1>8, <1>9

LEMMA MovedAlike ==
    ASSUME NEW t, NEW p, NEW h, NEW r, NEW x, NEW n, ListMoved(t, p, h, r, x, n)
    PROVE  Alike(t)
BY DEF ListMoved, Alike

\* What the others know stays true as long as the next of their nodes does.
LEMMA OthersKnow ==
    ASSUME NEW t \in Adders, Alike(t), NEW u \in Adders, u # t, Knows(u),
           thread[u] = "get_cas" => freeListNext'[at[u].head] = freeListNext[at[u].head],
           thread[u] \in {"add_refs", "add_cas"} => freeListNext'[at[u].node] = freeListNext[at[u].node]
    PROVE  Knows(u)'
BY DEF Alike, Knows

\* A step that leaves head and next alone leaves the list.
LEMMA SameList ==
    ASSUME IsList, UNCHANGED <<freeListHead, freeListNext>>
    PROVE  IsList' /\ List!Listed' = List!Listed
BY AddersAssumption, ListKept

\* What is left to show of a step that only moves its thread.
LEMMA QuietStep ==
    ASSUME ListInv, NEW t \in Adders, UNCHANGED <<List!list, out>>,
           NEW p \in AdderPlaces, NEW h, NEW r, NEW x, NEW m, ListMoved(t, p, h, r, x, m),
           \A n \in Nodes : ListUntouched(t, n), Knows(t)'
    PROVE  ListInv'
<1>1. ListTypes'
  BY DEF ListInv, ListTypes, ListMoved, List!list
<1>2. IsList'
  BY SameList DEF ListInv, List!list
<1>3. Alike(t)
  BY DEF ListMoved, Alike
<1>4. \A u \in Adders : Knows(u)'
  BY <1>3, OthersKnow DEF ListInv, List!list
<1>5. \A n \in Nodes : NodeInv(n)'
  BY <1>3, NodeStays DEF ListInv
<1> QED BY <1>1, <1>2, <1>4, <1>5 DEF ListInv

LEMMA AddLoadHeadStep == ASSUME ListInv, NEW t \in Adders, List!AddLoadHead(t) PROVE ListInv'
<1>1. ListMoved(t, "add_next", at[t].head, at[t].refs, freeListHead, at[t].node)
  BY ListMoves
<1>2. thread[t] = "add_head" /\ UNCHANGED <<List!list, out>>
  BY DEF List!AddLoadHead, List!Step
<1>3. List!Listed' = List!Listed
  BY <1>2, SameList DEF ListInv, List!list
<1>4. \A n \in Nodes : ListUntouched(t, n)
  BY <1>1, <1>2, <1>3 DEF ListUntouched, ListMoved, Looking, AddingEarly, AddingLate, NodeTaking, Early, Late, List!list
<1>5. Knows(t)'
  BY <1>1, <1>2 DEF Knows, ListMoved, ListInv, Early, Late
<1> QED BY <1>1, <1>2, <1>4, <1>5, QuietStep DEF AdderPlaces

LEMMA GetsStep == ASSUME ListInv, NEW t \in Adders, List!Get(t) \/ List!GetReload(t) PROVE ListInv'
<1>1. ListMoved(t, "get_loop", freeListHead, at[t].refs, at[t].next, at[t].node)
  BY ListMoves
<1>2. thread[t] \in {"idle", "get_head"} /\ UNCHANGED <<List!list, out>>
  BY DEF List!Get, List!GetReload, List!Step
<1>3. List!Listed' = List!Listed
  BY <1>2, SameList DEF ListInv, List!list
<1>4. \A n \in Nodes : ListUntouched(t, n)
  BY <1>1, <1>2, <1>3 DEF ListUntouched, ListMoved, Looking, AddingEarly, AddingLate, NodeTaking, Early, Late, List!list
<1>5. Knows(t)'
  BY <1>1, <1>2 DEF Knows, ListMoved, ListInv, Early, Late
<1> QED BY <1>1, <1>2, <1>4, <1>5, QuietStep DEF AdderPlaces

LEMMA GetLoopStep == ASSUME ListInv, NEW t \in Adders, List!GetLoop(t) PROVE ListInv'
<1>1. thread[t] = "get_loop" /\ UNCHANGED <<List!list, out>> /\ ListTypes
  BY DEF List!GetLoop, ListInv
<1>2. List!Listed' = List!Listed
  BY <1>1, SameList DEF ListInv, List!list
<1>3. CASE at[t].head = Null
  <2>1. ListMoved(t, "idle", Null, 0, Null, Null)
    BY <1>1, <1>3, SetNone DEF List!GetLoop
  <2>2. \A n \in Nodes : ListUntouched(t, n)
    BY <1>1, <1>2, <2>1 DEF ListUntouched, ListMoved, Looking, AddingEarly, AddingLate, NodeTaking, Early, Late, List!list
  <2>3. Knows(t)'
    BY <2>1 DEF Knows, ListMoved, Early, Late
  <2> QED BY <1>1, <2>1, <2>2, <2>3, QuietStep DEF AdderPlaces
<1>4. CASE at[t].head # Null
  <2>1. at[t].head \in Nodes
    BY <1>1, <1>4, AtFields DEF Node
  <2>2. PICK r \in Nat : r = freeListRefs[at[t].head]
    BY <1>1, <2>1 DEF ListTypes
  <2>3. PICK p \in {"get_head", "get_ref"} : p = IF List!Unreferenced(r) THEN "get_head" ELSE "get_ref"
    OBVIOUS
  <2>4. thread' = [thread EXCEPT ![t] = p] /\ at' = [at EXCEPT ![t].refs = r]
    BY <1>4, <2>2, <2>3 DEF List!GetLoop, List!Goto
  <2>5. ListMoved(t, p, at[t].head, r, at[t].next, at[t].node)
    BY <1>1, <2>2, <2>3, <2>4, SetRefs DEF AdderPlaces
  <2>6. \A n \in Nodes : ListUntouched(t, n)
    BY <1>1, <1>2, <2>3, <2>5 DEF ListUntouched, ListMoved, Looking, AddingEarly, AddingLate, NodeTaking, Early, Late, List!list
  <2>7. Knows(t)'
    BY <2>1, <2>3, <2>5 DEF Knows, ListMoved, Early, Late, List!Unreferenced
  <2> QED BY <1>1, <2>3, <2>5, <2>6, <2>7, QuietStep DEF AdderPlaces
<1> QED BY <1>3, <1>4

LEMMA GetNextStep == ASSUME ListInv, NEW t \in Adders, List!GetNext(t) PROVE ListInv'
<1>1. ListMoved(t, "get_cas", at[t].head, at[t].refs, freeListNext[at[t].head], at[t].node)
  BY ListMoves
<1>2. thread[t] = "get_next" /\ UNCHANGED <<List!list, out>>
  BY DEF List!GetNext, List!Step
<1>3. List!Listed' = List!Listed
  BY <1>2, SameList DEF ListInv, List!list
<1>4. \A n \in Nodes : ListUntouched(t, n)
  BY <1>1, <1>2, <1>3 DEF ListUntouched, ListMoved, Looking, AddingEarly, AddingLate, NodeTaking, Early, Late, List!list
<1>5. at[t].head \in Nodes
  BY <1>2 DEF ListInv, Knows
<1>6. Knows(t)'
  BY <1>1, <1>2, <1>5 DEF Knows, ListMoved, Early, Late, List!list
<1> QED BY <1>1, <1>2, <1>4, <1>6, QuietStep DEF AdderPlaces

\* The swaps that fail.
LEMMA FailStep ==
    ASSUME ListInv, NEW t \in Adders, List!AddCas(t) \/ List!GetCas(t) \/ List!GetRef(t),
           UNCHANGED <<List!list, out>>,
           List!AddCas(t) => freeListHead # at[t].next, List!GetCas(t) => freeListHead # at[t].head,
           List!GetRef(t) => freeListRefs[at[t].head] # at[t].refs
    PROVE  ListInv'
<1> USE DEF AdderPlaces
<1>1. List!Listed' = List!Listed /\ ListTypes /\ freeListHead \in Node
  BY SameList DEF ListInv, List!list, ListTypes
<1>2. CASE List!AddCas(t)
  <2>1. /\ thread[t] = "add_cas" /\ thread' = [thread EXCEPT ![t] = "add_undo"]
        /\ at' = [at EXCEPT ![t].next = freeListHead]
    BY <1>2 DEF List!AddCas, List!Goto
  <2>2. ListMoved(t, "add_undo", at[t].head, at[t].refs, freeListHead, at[t].node)
    BY <1>1, <2>1, SetNext
  <2>3. \A n \in Nodes : ListUntouched(t, n)
    BY <1>1, <2>1, <2>2 DEF ListUntouched, ListMoved, Looking, AddingEarly, AddingLate, NodeTaking, Early, Late, List!list
  <2>4. Knows(t)'
    BY <2>1, <2>2 DEF Knows, ListMoved, ListInv, Early, Late
  <2> QED BY <2>2, <2>3, <2>4, QuietStep
<1>3. CASE List!GetCas(t)
  <2>1. /\ thread[t] = "get_cas" /\ thread' = [thread EXCEPT ![t] = "get_undo"]
        /\ at' = [at EXCEPT ![t].node = at[t].head, ![t].head = freeListHead]
    BY <1>3 DEF List!GetCas, List!Goto
  <2>2. at[t].head \in Nodes /\ at[t].head \in Node
    BY <2>1 DEF ListInv, Knows, Node
  <2>3. ListMoved(t, "get_undo", freeListHead, at[t].refs, at[t].next, at[t].head)
    BY <1>1, <2>1, <2>2, SetNodeHead
  <2>4. \A n \in Nodes : ListUntouched(t, n)
    BY <1>1, <2>1, <2>3 DEF ListUntouched, ListMoved, Looking, AddingEarly, AddingLate, NodeTaking, Early, Late, List!list
  <2>5. Knows(t)'
    BY <2>2, <2>3 DEF Knows, ListMoved, Early, Late
  <2> QED BY <2>3, <2>4, <2>5, QuietStep
<1>4. CASE List!GetRef(t)
  <2>1. thread[t] = "get_ref" /\ thread' = [thread EXCEPT ![t] = "get_head"] /\ UNCHANGED at
    BY <1>4 DEF List!GetRef, List!Goto
  <2>2. ListMoved(t, "get_head", at[t].head, at[t].refs, at[t].next, at[t].node)
    BY <1>1, <2>1, SetPlace
  <2>3. \A n \in Nodes : ListUntouched(t, n)
    BY <1>1, <2>1, <2>2 DEF ListUntouched, ListMoved, Looking, AddingEarly, AddingLate, NodeTaking, Early, Late, List!list
  <2>4. Knows(t)'
    BY <2>2 DEF Knows, ListMoved, Early, Late
  <2> QED BY <2>2, <2>3, <2>4, QuietStep
<1> QED BY <1>2, <1>3, <1>4

-----------------------------------------------------------------------------
\* The steps that change one node.
LEMMA Classes ==
    ASSUME NEW t \in Adders, NEW n \in Nodes, NodeInv(n)
    PROVE  /\ n \in out => IsOut(n) /\ Only(t, n)
           /\ n \in List!Listed => IsOn(n) /\ Only(t, n)
           /\ NodeTaking(t, n) => IsTaken(n) /\ Only(t, n)
           /\ AddingEarly(t, n) => IsEarly(n) /\ Only(t, n)
           /\ AddingLate(t, n) => IsLate(n) /\ Only(t, n)
           /\ IsPending(n) => Only(t, n)
<1>1. Idle(n) => Only(t, n) /\ ~ ListBusy(t, n)
  BY DEF Idle, Only
<1>2. ListBusy(t, n) => \A u \in Adders : Only(u, n) => u = t
  BY DEF Only
<1>3. IsTaken(n) /\ ListBusy(t, n) => NodeTaking(t, n) /\ Only(t, n)
  BY <1>2 DEF IsTaken
<1>4. IsEarly(n) /\ ListBusy(t, n) => AddingEarly(t, n) /\ Only(t, n)
  BY <1>2 DEF IsEarly
<1>5. IsLate(n) /\ ListBusy(t, n) => AddingLate(t, n) /\ Only(t, n)
  BY <1>2 DEF IsLate
<1>6. /\ ~ (NodeTaking(t, n) /\ AddingEarly(t, n)) /\ ~ (NodeTaking(t, n) /\ AddingLate(t, n))
      /\ ~ (AddingEarly(t, n) /\ AddingLate(t, n))
  BY DEF NodeTaking, AddingEarly, AddingLate, Early, Late
<1>7. n \in out => IsOut(n)
  BY DEF NodeInv, IsOut, IsOn, IsPending, IsTaken, IsEarly, IsLate
<1>8. n \in List!Listed => IsOn(n)
  BY DEF NodeInv, IsOut, IsOn, IsPending, IsTaken, IsEarly, IsLate
<1>9. (IsOut(n) => Idle(n)) /\ (IsOn(n) => Idle(n)) /\ (IsPending(n) => Idle(n))
  BY DEF IsOut, IsOn, IsPending
<1>10. ListBusy(t, n) => IsTaken(n) \/ IsEarly(n) \/ IsLate(n)
  BY <1>1, <1>9 DEF NodeInv
<1>11. ListBusy(t, n) <=> (NodeTaking(t, n) \/ AddingEarly(t, n) \/ AddingLate(t, n))
  BY DEF ListBusy
<1> QED BY <1>1, <1>3, <1>4, <1>5, <1>6, <1>7, <1>8, <1>9, <1>10, <1>11

LEMMA OnlyStays ==
    ASSUME NEW t \in Adders, Alike(t), NEW n, Only(t, n)
    PROVE  Only(t, n)' /\ (~ ListBusy(t, n)' => Idle(n)')
<1>1. \A u \in Adders : u # t => (ListBusy(u, n)' <=> ListBusy(u, n))
  BY OthersAlike
<1> QED BY <1>1 DEF Only, Idle

LEMMA TouchStep ==
    ASSUME ListInv, NEW t \in Adders, ListTypes', IsList', Alike(t), Knows(t)',
           \A u \in Adders : u # t => Knows(u)',
           NEW m \in Nodes, \A n \in Nodes : n # m => ListUntouched(t, n), NodeInv(m)'
    PROVE  ListInv'
<1>1. \A n \in Nodes : NodeInv(n)'
  BY NodeStays DEF ListInv
<1> QED BY <1>1 DEF ListInv

LEMMA RefsSet ==
    ASSUME ListTypes, NEW m \in Nodes, NEW v \in Nat, freeListRefs' = [freeListRefs EXCEPT ![m] = v]
    PROVE  /\ freeListRefs' \in [Nodes -> Nat] /\ freeListRefs'[m] = v
           /\ \A n \in Nodes : n # m => freeListRefs'[n] = freeListRefs[n]
BY DEF ListTypes

LEMMA Bit == List!ShouldBeOnFreeList \in Nat /\ List!ShouldBeOnFreeList > 2
BY DEF List!ShouldBeOnFreeList

LEMMA AddStep == ASSUME ListInv, NEW t \in Adders, NEW n \in Nodes, List!Add(t, n) PROVE ListInv'
<1>1. /\ thread[t] = "idle" /\ n \in out /\ out' = out \ {n} /\ ListTypes
      /\ UNCHANGED <<freeListHead, freeListNext>>
  BY DEF List!Add, ListInv
<1>2. IsList' /\ List!Listed' = List!Listed
  BY <1>1, SameList DEF ListInv
<1>3. IsOut(n) /\ Only(t, n)
  BY <1>1, Classes DEF ListInv
<1>4. PICK v \in Nat : v = freeListRefs[n] + List!ShouldBeOnFreeList
  BY <1>1, Bit DEF ListTypes
<1>5. /\ freeListRefs' \in [Nodes -> Nat] /\ freeListRefs'[n] = v
      /\ \A m \in Nodes : m # n => freeListRefs'[m] = freeListRefs[m]
  BY <1>1, <1>4, RefsSet DEF List!Add
<1>6. n \in Node
  BY DEF Node
<1>7. PICK p \in AdderPlaces : p = IF freeListRefs[n] = 0 THEN "add_head" ELSE "idle"
  BY DEF AdderPlaces
<1>8. PICK x \in Node : x = IF freeListRefs[n] = 0 THEN n ELSE at[t].node
  BY <1>1, <1>6, AtFields
<1>9. ListMoved(t, p, at[t].head, at[t].refs, at[t].next, x)
  <2>1. CASE freeListRefs[n] = 0
    BY <1>1, <1>6, <1>7, <1>8, <2>1, SetNode DEF List!Add, List!Goto
  <2>2. CASE freeListRefs[n] # 0
    BY <1>1, <1>7, <1>8, <2>2 DEF List!Add, ListMoved, ListTypes
  <2> QED BY <2>1, <2>2
<1>10. Alike(t)
  BY <1>9, MovedAlike
<1>11. ~ Looking(t, n) /\ ~ Looking(t, n)' /\ Looks(n)' = Looks(n) /\ Looks(n) \in Nat
  <2>1. ~ Looking(t, n) /\ ~ Looking(t, n)'
    BY <1>1, <1>7, <1>9 DEF Looking, ListMoved
  <2> QED BY <2>1, <1>10, SameLooks, LookersFinite
<1>12. NodeInv(n)'
  <2>1. n \notin out' /\ n \notin List!Listed'
    BY <1>1, <1>2, <1>3 DEF IsOut
  <2>2. freeListRefs[n] = Looks(n)
    BY <1>3 DEF IsOut
  <2>3. CASE freeListRefs[n] = 0
    <3>1. AddingEarly(t, n)'
      BY <1>7, <1>8, <1>9, <2>3 DEF AddingEarly, ListMoved, Early
    <3>2. Only(t, n)'
      BY <1>3, <1>10, OnlyStays
    <3>3. freeListRefs'[n] = List!ShouldBeOnFreeList
      BY <1>4, <1>5, <2>3, Bit
    <3> QED BY <1>11, <2>1, <2>2, <2>3, <3>1, <3>2, <3>3 DEF NodeInv, IsEarly
  <2>4. CASE freeListRefs[n] # 0
    <3>1. ~ ListBusy(t, n)'
      BY <1>7, <1>9, <2>4 DEF ListBusy, AddingEarly, AddingLate, NodeTaking, ListMoved, Early, Late
    <3>2. Idle(n)'
      BY <1>3, <1>10, <3>1, OnlyStays
    <3>3. freeListRefs'[n] = Looks(n)' + List!ShouldBeOnFreeList /\ Looks(n)' >= 1
      BY <1>4, <1>5, <1>11, <2>2, <2>4
    <3> QED BY <2>1, <3>2, <3>3 DEF NodeInv, IsPending
  <2> QED BY <2>3, <2>4
<1>13. ASSUME NEW m \in Nodes, m # n PROVE ListUntouched(t, m)
  <2>1. freeListRefs'[m] = freeListRefs[m] /\ (m \in out' <=> m \in out)
    BY <1>1, <1>5, <1>13
  <2>2. /\ Looking(t, m)' <=> Looking(t, m)
        /\ AddingEarly(t, m)' <=> AddingEarly(t, m)
        /\ AddingLate(t, m)' <=> AddingLate(t, m)
        /\ NodeTaking(t, m)' <=> NodeTaking(t, m)
    BY <1>1, <1>7, <1>8, <1>9, <1>13 DEF ListMoved, Looking, AddingEarly, AddingLate, NodeTaking, Early, Late
  <2> QED BY <1>2, <2>1, <2>2 DEF ListUntouched
<1>14. Knows(t)'
  BY <1>7, <1>8, <1>9 DEF Knows, ListMoved, Early, Late
<1>15. ListTypes'
  BY <1>1, <1>5, <1>9 DEF ListTypes, ListMoved
<1>16. \A u \in Adders : u # t => Knows(u)'
  BY <1>1, <1>10, OthersKnow DEF ListInv
<1> QED BY <1>2, <1>10, <1>12, <1>13, <1>14, <1>15, <1>16, TouchStep

LEMMA AddStoreNextStep == ASSUME ListInv, NEW t \in Adders, List!AddStoreNext(t) PROVE ListInv'
<1>1. PICK m \in Nodes : m = at[t].node
  BY DEF List!AddStoreNext, List!Step, ListInv, Knows, Early
<1>2. ListMoved(t, "add_refs", at[t].head, at[t].refs, at[t].next, m)
  BY <1>1, ListMoves
<1>3. /\ thread[t] = "add_next" /\ UNCHANGED <<freeListHead, freeListRefs, out>> /\ ListTypes
      /\ freeListNext' = [freeListNext EXCEPT ![m] = at[t].next]
  BY <1>1 DEF List!AddStoreNext, List!Step, ListInv
<1>4. AddingEarly(t, m)
  BY <1>1, <1>3 DEF AddingEarly, Early
<1>5. IsEarly(m) /\ Only(t, m)
  BY <1>4, Classes DEF ListInv
<1>6. /\ freeListNext' \in [Nodes -> Node] /\ freeListNext'[m] = at[t].next
      /\ \A n \in Nodes : n # m => freeListNext'[n] = freeListNext[n]
  BY <1>3, AtFields DEF ListTypes
<1>7. IsList' /\ List!Listed' = List!Listed
  <2>1. \A n \in List!Listed : freeListNext'[n] = freeListNext[n]
    BY <1>5, <1>6, ListedNodes DEF IsEarly
  <2> QED BY <1>3, <2>1, ListKept, AddersAssumption DEF ListInv
<1>8. Alike(t)
  BY <1>2, MovedAlike
<1>9. \A n \in Nodes : ListUntouched(t, n)
  BY <1>1, <1>2, <1>3, <1>7 DEF ListUntouched, ListMoved, Looking, AddingEarly, AddingLate, NodeTaking, Early, Late
<1>10. \A n \in Nodes : NodeInv(n)'
  BY <1>8, <1>9, NodeStays DEF ListInv
<1>11. ASSUME NEW u \in Adders, u # t PROVE Knows(u)'
  <2>1. Knows(u)
    BY DEF ListInv
  <2>2. Lookers(m) = {}
    BY <1>5, LookersFinite, FS_EmptySet DEF IsEarly, Looks
  <2>3. ASSUME thread[u] = "get_cas" PROVE freeListNext'[at[u].head] = freeListNext[at[u].head]
    <3>1. at[u].head \in Nodes
      BY <2>1, <2>3 DEF Knows
    <3>2. at[u].head # m
      BY <2>2, <2>3 DEF Lookers, Looking
    <3> QED BY <1>6, <3>1, <3>2
  <2>4. ASSUME thread[u] \in {"add_refs", "add_cas"}
        PROVE  freeListNext'[at[u].node] = freeListNext[at[u].node]
    <3>1. at[u].node \in Nodes
      BY <2>1, <2>4 DEF Knows, Early, Late
    <3>2. at[u].node # m
      BY <1>5, <1>11, <2>4 DEF Only, ListBusy, AddingEarly, AddingLate, Early, Late
    <3> QED BY <1>6, <3>1, <3>2
  <2> QED BY <1>8, <1>11, <2>1, <2>3, <2>4, OthersKnow
<1>12. Knows(t)'
  BY <1>2, <1>6 DEF Knows, ListMoved, Early, Late
<1>13. ListTypes'
  BY <1>2, <1>3, <1>6 DEF ListTypes, ListMoved
<1> QED BY <1>7, <1>10, <1>11, <1>12, <1>13 DEF ListInv

LEMMA AddStoreRefsStep == ASSUME ListInv, NEW t \in Adders, List!AddStoreRefs(t) PROVE ListInv'
<1>1. PICK m \in Nodes : m = at[t].node
  BY DEF List!AddStoreRefs, List!Step, ListInv, Knows, Early
<1>2. ListMoved(t, "add_cas", at[t].head, at[t].refs, at[t].next, m)
  BY <1>1, ListMoves
<1>3. /\ thread[t] = "add_refs" /\ UNCHANGED <<freeListHead, freeListNext, out>> /\ ListTypes
      /\ freeListRefs' = [freeListRefs EXCEPT ![m] = 1]
  BY <1>1 DEF List!AddStoreRefs, List!Step, ListInv
<1>4. IsEarly(m) /\ Only(t, m)
  <2>1. AddingEarly(t, m)
    BY <1>1, <1>3 DEF AddingEarly, Early
  <2> QED BY <2>1, Classes DEF ListInv
<1>5. IsList' /\ List!Listed' = List!Listed
  BY <1>3, SameList DEF ListInv
<1>6. Alike(t)
  BY <1>2, MovedAlike
<1>7. /\ freeListRefs' \in [Nodes -> Nat] /\ freeListRefs'[m] = 1
      /\ \A n \in Nodes : n # m => freeListRefs'[n] = freeListRefs[n]
  BY <1>3, RefsSet
<1>8. ASSUME NEW n \in Nodes, n # m PROVE ListUntouched(t, n)
  BY <1>1, <1>2, <1>3, <1>5, <1>7, <1>8
     DEF ListUntouched, ListMoved, Looking, AddingEarly, AddingLate, NodeTaking, Early, Late
<1>9. NodeInv(m)'
  <2>1. Looking(t, m)' <=> Looking(t, m)
    BY <1>2, <1>3 DEF Looking, ListMoved
  <2>2. Looks(m)' = 0
    BY <1>4, <1>6, <2>1, SameLooks DEF IsEarly
  <2>3. AddingLate(t, m)'
    BY <1>2 DEF AddingLate, ListMoved, Late
  <2>4. Only(t, m)'
    BY <1>4, <1>6, OnlyStays
  <2> QED BY <1>3, <1>4, <1>5, <1>7, <2>2, <2>3, <2>4 DEF NodeInv, IsLate, IsEarly
<1>10. \A u \in Adders : u # t => Knows(u)'
  BY <1>3, <1>6, OthersKnow DEF ListInv
<1>11. Knows(t)'
  BY <1>1, <1>2, <1>3 DEF Knows, ListMoved, Early, Late, ListInv
<1>12. ListTypes'
  BY <1>2, <1>3, <1>7 DEF ListTypes, ListMoved
<1> QED BY <1>5, <1>6, <1>8, <1>9, <1>10, <1>11, <1>12, TouchStep

LEMMA AddCasStep ==
    ASSUME ListInv, NEW t \in Adders, List!AddCas(t), freeListHead = at[t].next
    PROVE  ListInv'
<1>1. PICK m \in Nodes : m = at[t].node
  BY DEF List!AddCas, ListInv, Knows, Late
<1>2. /\ thread[t] = "add_cas" /\ freeListHead' = m /\ UNCHANGED <<freeListRefs, freeListNext, out>>
      /\ List!AddDone(t) /\ ListTypes
  BY <1>1 DEF List!AddCas, ListInv
<1>3. PICK p \in {"get_loop", "idle"}, h \in Node, r \in Nat, x \in Node : ListMoved(t, p, h, r, x, Null)
  <2>1. Null \in Node /\ 0 \in Nat
    BY DEF Node
  <2> QED BY <1>2, <2>1, ListMoves, AtFields
<1>4. Alike(t)
  BY <1>3, MovedAlike
<1>5. IsLate(m) /\ Only(t, m)
  <2>1. AddingLate(t, m)
    BY <1>1, <1>2 DEF AddingLate, Late
  <2> QED BY <2>1, Classes DEF ListInv
<1>6. IsList' /\ List!Listed' = List!Listed \cup {m}
  <2>1. freeListNext[m] = freeListHead
    BY <1>1, <1>2 DEF ListInv, Knows
  <2>2. m \in Nodes \ List!Listed /\ IsList
    BY <1>5 DEF IsLate, ListInv
  <2> QED BY <1>2, <2>1, <2>2, ListPush, AddersAssumption
<1>7. ASSUME NEW n \in Nodes, n # m PROVE ListUntouched(t, n)
  <2>1. /\ Looking(t, n)' <=> Looking(t, n)
        /\ AddingEarly(t, n)' <=> AddingEarly(t, n)
        /\ AddingLate(t, n)' <=> AddingLate(t, n)
        /\ NodeTaking(t, n)' <=> NodeTaking(t, n)
    BY <1>1, <1>2, <1>3, <1>7 DEF ListMoved, Looking, AddingEarly, AddingLate, NodeTaking, Early, Late
  <2> QED BY <1>2, <1>6, <1>7, <2>1 DEF ListUntouched
<1>8. NodeInv(m)'
  <2>1. ~ Looking(t, m) /\ ~ Looking(t, m)' /\ ~ ListBusy(t, m)'
    BY <1>2, <1>3 DEF Looking, ListMoved, ListBusy, AddingEarly, AddingLate, NodeTaking, Early, Late
  <2>2. Looks(m)' = Looks(m)
    BY <1>4, <2>1, SameLooks
  <2>3. Idle(m)'
    BY <1>4, <1>5, <2>1, OnlyStays
  <2> QED BY <1>2, <1>5, <1>6, <2>2, <2>3 DEF NodeInv, IsLate, IsOn
<1>9. \A u \in Adders : u # t => Knows(u)'
  BY <1>2, <1>4, OthersKnow DEF ListInv
<1>10. Knows(t)'
  BY <1>3 DEF Knows, ListMoved, Early, Late
<1>11. ListTypes'
  BY <1>2, <1>3 DEF ListTypes, ListMoved, Node
<1> QED BY <1>4, <1>6, <1>7, <1>8, <1>9, <1>10, <1>11, TouchStep

LEMMA AddUndoStep == ASSUME ListInv, NEW t \in Adders, List!AddUndo(t) PROVE ListInv'
<1>1. PICK m \in Nodes : m = at[t].node
  BY DEF List!AddUndo, ListInv, Knows, Late
<1>2. /\ thread[t] = "add_undo" /\ UNCHANGED <<freeListHead, freeListNext, out>> /\ ListTypes
  BY DEF List!AddUndo, ListInv
<1>3. IsLate(m) /\ Only(t, m)
  <2>1. AddingLate(t, m)
    BY <1>1, <1>2 DEF AddingLate, Late
  <2> QED BY <2>1, Classes DEF ListInv
<1>4. IsList' /\ List!Listed' = List!Listed
  BY <1>2, SameList DEF ListInv
<1>5. PICK v \in Nat : v = freeListRefs[m] + List!ShouldBeOnFreeList - 1
  BY <1>2, Bit DEF ListTypes
<1>6. /\ freeListRefs' \in [Nodes -> Nat] /\ freeListRefs'[m] = v
      /\ \A n \in Nodes : n # m => freeListRefs'[n] = freeListRefs[n]
  BY <1>1, <1>2, <1>5, RefsSet DEF List!AddUndo
<1>7. Looks(m) \in Nat /\ freeListRefs[m] = Looks(m) + 1
  BY <1>3, LookersFinite DEF IsLate
<1>8. CASE freeListRefs[m] = 1
  <2>1. thread' = [thread EXCEPT ![t] = "add_next"] /\ UNCHANGED at
    BY <1>1, <1>8 DEF List!AddUndo, List!LastReference, List!Goto
  <2>2. ListMoved(t, "add_next", at[t].head, at[t].refs, at[t].next, m)
    BY <1>1, <1>2, <2>1, SetPlace DEF AdderPlaces
  <2>3. Alike(t)
    BY <2>2, MovedAlike
  <2>4. ASSUME NEW n \in Nodes, n # m PROVE ListUntouched(t, n)
    BY <1>1, <1>2, <1>4, <1>6, <2>2, <2>4
       DEF ListUntouched, ListMoved, Looking, AddingEarly, AddingLate, NodeTaking, Early, Late
  <2>5. NodeInv(m)'
    <3>1. ~ Looking(t, m) /\ ~ Looking(t, m)' /\ AddingEarly(t, m)'
      BY <1>2, <2>2 DEF Looking, ListMoved, AddingEarly, Early
    <3>2. Looks(m)' = 0
      BY <1>7, <1>8, <2>3, <3>1, SameLooks
    <3>3. Only(t, m)'
      BY <1>3, <2>3, OnlyStays
    <3>4. freeListRefs'[m] = List!ShouldBeOnFreeList
      BY <1>5, <1>6, <1>8, Bit
    <3> QED BY <1>2, <1>3, <1>4, <3>1, <3>2, <3>3, <3>4 DEF NodeInv, IsEarly, IsLate
  <2>6. \A u \in Adders : u # t => Knows(u)'
    BY <1>2, <2>3, OthersKnow DEF ListInv
  <2>7. Knows(t)'
    BY <2>2 DEF Knows, ListMoved, Early, Late
  <2>8. ListTypes'
    BY <1>2, <1>6, <2>2 DEF ListTypes, ListMoved
  <2> QED BY <1>4, <2>3, <2>4, <2>5, <2>6, <2>7, <2>8, TouchStep
<1>9. CASE freeListRefs[m] # 1
  <2>1. List!AddDone(t)
    BY <1>1, <1>9 DEF List!AddUndo, List!LastReference
  <2>2. PICK p \in {"get_loop", "idle"}, h \in Node, r \in Nat, x \in Node : ListMoved(t, p, h, r, x, Null)
    <3>1. Null \in Node /\ 0 \in Nat
      BY DEF Node
    <3> QED BY <1>2, <2>1, <3>1, ListMoves, AtFields
  <2>3. Alike(t)
    BY <2>2, MovedAlike
  <2>4. ASSUME NEW n \in Nodes, n # m PROVE ListUntouched(t, n)
    <3>1. /\ Looking(t, n)' <=> Looking(t, n)
          /\ AddingEarly(t, n)' <=> AddingEarly(t, n)
          /\ AddingLate(t, n)' <=> AddingLate(t, n)
          /\ NodeTaking(t, n)' <=> NodeTaking(t, n)
      BY <1>1, <1>2, <2>2, <2>4 DEF ListMoved, Looking, AddingEarly, AddingLate, NodeTaking, Early, Late
    <3> QED BY <1>2, <1>4, <1>6, <2>4, <3>1 DEF ListUntouched
  <2>5. NodeInv(m)'
    <3>1. ~ Looking(t, m) /\ ~ Looking(t, m)' /\ ~ ListBusy(t, m)'
      BY <1>2, <2>2 DEF Looking, ListMoved, ListBusy, AddingEarly, AddingLate, NodeTaking, Early, Late
    <3>2. Looks(m)' = Looks(m) /\ Looks(m) >= 1
      BY <1>7, <1>9, <2>3, <3>1, SameLooks
    <3>3. Idle(m)'
      BY <1>3, <2>3, <3>1, OnlyStays
    <3>4. freeListRefs'[m] = Looks(m) + List!ShouldBeOnFreeList
      BY <1>5, <1>6, <1>7, Bit
    <3> QED BY <1>2, <1>3, <1>4, <3>2, <3>3, <3>4 DEF NodeInv, IsPending, IsLate
  <2>6. \A u \in Adders : u # t => Knows(u)'
    BY <1>2, <2>3, OthersKnow DEF ListInv
  <2>7. Knows(t)'
    BY <2>2 DEF Knows, ListMoved, Early, Late
  <2>8. ListTypes'
    BY <1>2, <1>6, <2>2 DEF ListTypes, ListMoved
  <2> QED BY <1>4, <2>3, <2>4, <2>5, <2>6, <2>7, <2>8, TouchStep
<1> QED BY <1>8, <1>9

\* A node with some references that are not the bit alone is not about to be put on the list.
LEMMA LookOn ==
    ASSUME NEW t \in Adders, Alike(t), NEW m \in Nodes, NodeInv(m), freeListRefs[m] # List!ShouldBeOnFreeList,
           ~ Looking(t, m), Looking(t, m)', ~ ListBusy(t, m), ~ ListBusy(t, m)',
           freeListRefs'[m] = freeListRefs[m] + 1, out' = out, List!Listed' = List!Listed
    PROVE  NodeInv(m)'
<1>1. Looks(m)' = Looks(m) + 1 /\ Looks(m) \in Nat
  BY OneLooksOn, LookersFinite
<1>2. \A u \in Adders : /\ ListBusy(u, m)' <=> ListBusy(u, m)
                        /\ NodeTaking(u, m)' <=> NodeTaking(u, m)
                        /\ AddingLate(u, m)' <=> AddingLate(u, m)
  BY OthersAlike DEF ListBusy
<1>3. (Idle(m)' <=> Idle(m)) /\ \A u \in Adders : Only(u, m)' <=> Only(u, m)
  BY <1>2 DEF Idle, Only
<1>4. ~ IsEarly(m)
  BY DEF IsEarly
<1>5. (IsOut(m) => IsOut(m)') /\ (IsOn(m) => IsOn(m)') /\ (IsPending(m) => IsPending(m)')
  BY <1>1, <1>3, Bit DEF IsOut, IsOn, IsPending
<1>6. (IsTaken(m) => IsTaken(m)') /\ (IsLate(m) => IsLate(m)')
  BY <1>1, <1>2, <1>3 DEF IsTaken, IsLate
<1> QED BY <1>4, <1>5, <1>6 DEF NodeInv

\* And one that is looked at stays what it is when a look ends that was not the last.
LEMMA LookAway ==
    ASSUME NEW t \in Adders, Alike(t), NEW m \in Nodes, NodeInv(m), freeListRefs[m] # List!ShouldBeOnFreeList + 1,
           Looking(t, m), ~ Looking(t, m)', ~ ListBusy(t, m), ~ ListBusy(t, m)',
           freeListRefs'[m] = freeListRefs[m] - 1, out' = out, List!Listed' = List!Listed
    PROVE  NodeInv(m)'
<1>1. Looks(m)' = Looks(m) - 1 /\ Looks(m) >= 1 /\ Looks(m) \in Nat
  BY OneLooksAway, LookersFinite
<1>2. \A u \in Adders : /\ ListBusy(u, m)' <=> ListBusy(u, m)
                        /\ NodeTaking(u, m)' <=> NodeTaking(u, m)
                        /\ AddingLate(u, m)' <=> AddingLate(u, m)
  BY OthersAlike DEF ListBusy
<1>3. (Idle(m)' <=> Idle(m)) /\ \A u \in Adders : Only(u, m)' <=> Only(u, m)
  BY <1>2 DEF Idle, Only
<1>4. ~ IsEarly(m)
  BY <1>1 DEF IsEarly
<1>5. (IsOut(m) => IsOut(m)') /\ (IsOn(m) => IsOn(m)') /\ (IsPending(m) => IsPending(m)')
  BY <1>1, <1>3, Bit DEF IsOut, IsOn, IsPending
<1>6. (IsTaken(m) => IsTaken(m)') /\ (IsLate(m) => IsLate(m)')
  BY <1>1, <1>2, <1>3 DEF IsTaken, IsLate
<1> QED BY <1>4, <1>5, <1>6 DEF NodeInv

LEMMA GetRefStep ==
    ASSUME ListInv, NEW t \in Adders, List!GetRef(t), freeListRefs[at[t].head] = at[t].refs
    PROVE  ListInv'
<1>1. PICK m \in Nodes : m = at[t].head
  BY DEF List!GetRef, ListInv, Knows
<1>2. /\ thread[t] = "get_ref" /\ UNCHANGED <<freeListHead, freeListNext, out>> /\ ListTypes
      /\ thread' = [thread EXCEPT ![t] = "get_next"] /\ UNCHANGED at
      /\ freeListRefs' = [freeListRefs EXCEPT ![m] = @ + 1]
  BY <1>1 DEF List!GetRef, List!Goto, ListInv
<1>3. ListMoved(t, "get_next", m, at[t].refs, at[t].next, at[t].node)
  BY <1>1, <1>2, SetPlace DEF AdderPlaces
<1>4. Alike(t)
  BY <1>3, MovedAlike
<1>5. IsList' /\ List!Listed' = List!Listed
  BY <1>2, SameList DEF ListInv
<1>6. /\ freeListRefs' \in [Nodes -> Nat] /\ freeListRefs'[m] = freeListRefs[m] + 1
      /\ \A n \in Nodes : n # m => freeListRefs'[n] = freeListRefs[n]
  BY <1>2 DEF ListTypes
<1>7. freeListRefs[m] # List!ShouldBeOnFreeList
  <2>1. freeListRefs[m] % List!ShouldBeOnFreeList # 0
    BY <1>1, <1>2 DEF ListInv, Knows
  <2>2. List!ShouldBeOnFreeList % List!ShouldBeOnFreeList = 0
    BY DEF List!ShouldBeOnFreeList
  <2> QED BY <2>1, <2>2
<1>8. ASSUME NEW n \in Nodes, n # m PROVE ListUntouched(t, n)
  BY <1>1, <1>2, <1>3, <1>5, <1>6, <1>8
     DEF ListUntouched, ListMoved, Looking, AddingEarly, AddingLate, NodeTaking, Early, Late
<1>9. NodeInv(m)'
  <2>1. ~ Looking(t, m) /\ Looking(t, m)' /\ ~ ListBusy(t, m) /\ ~ ListBusy(t, m)'
    BY <1>2, <1>3 DEF Looking, ListMoved, ListBusy, AddingEarly, AddingLate, NodeTaking, Early, Late
  <2> QED BY <1>2, <1>4, <1>5, <1>6, <1>7, <2>1, LookOn DEF ListInv
<1>10. \A u \in Adders : u # t => Knows(u)'
  BY <1>2, <1>4, OthersKnow DEF ListInv
<1>11. Knows(t)'
  BY <1>3 DEF Knows, ListMoved, Early, Late
<1>12. ListTypes'
  BY <1>2, <1>3, <1>6 DEF ListTypes, ListMoved
<1> QED BY <1>4, <1>5, <1>8, <1>9, <1>10, <1>11, <1>12, TouchStep

LEMMA GetCasStep ==
    ASSUME ListInv, NEW t \in Adders, List!GetCas(t), freeListHead = at[t].head
    PROVE  ListInv'
<1>1. PICK m \in Nodes : m = at[t].head
  BY DEF List!GetCas, ListInv, Knows
<1>2. /\ thread[t] = "get_cas" /\ UNCHANGED <<freeListRefs, freeListNext, out>> /\ ListTypes
      /\ freeListHead = m /\ freeListHead' = at[t].next
      /\ thread' = [thread EXCEPT ![t] = "get_done"] /\ UNCHANGED at
  BY <1>1 DEF List!GetCas, List!Goto, ListInv
<1>3. ListMoved(t, "get_done", m, at[t].refs, at[t].next, at[t].node)
  BY <1>1, <1>2, SetPlace DEF AdderPlaces
<1>4. Alike(t)
  BY <1>3, MovedAlike
<1>5. IsList' /\ m \in List!Listed /\ List!Listed' = List!Listed \ {m}
  <2>1. freeListHead' = freeListNext[freeListHead] /\ IsList
    BY <1>1, <1>2 DEF ListInv, Knows
  <2> QED BY <1>2, <2>1, ListPop, AddersAssumption
<1>6. IsOn(m) /\ Only(t, m)
  BY <1>5, Classes DEF ListInv
<1>7. ASSUME NEW n \in Nodes, n # m PROVE ListUntouched(t, n)
  BY <1>1, <1>2, <1>3, <1>5, <1>7
     DEF ListUntouched, ListMoved, Looking, AddingEarly, AddingLate, NodeTaking, Early, Late
<1>8. NodeInv(m)'
  <2>1. Looking(t, m) /\ ~ Looking(t, m)' /\ NodeTaking(t, m)'
    BY <1>1, <1>2, <1>3 DEF Looking, ListMoved, NodeTaking
  <2>2. Looks(m)' = Looks(m) - 1 /\ Looks(m) \in Nat /\ freeListRefs[m] = Looks(m) + 1
    BY <1>4, <1>6, <2>1, OneLooksAway, LookersFinite DEF IsOn
  <2>3. Only(t, m)'
    BY <1>4, <1>6, OnlyStays
  <2>4. freeListRefs'[m] = Looks(m)' + 2
    BY <1>2, <2>2
  <2>5. m \notin out' /\ m \notin List!Listed'
    BY <1>2, <1>5, <1>6 DEF IsOn
  <2> QED BY <2>1, <2>3, <2>4, <2>5 DEF NodeInv, IsTaken
<1>9. \A u \in Adders : u # t => Knows(u)'
  BY <1>2, <1>4, OthersKnow DEF ListInv
<1>10. Knows(t)'
  BY <1>3 DEF Knows, ListMoved, Early, Late
<1>11. ListTypes'
  BY <1>2, <1>3, AtFields DEF ListTypes, ListMoved
<1> QED BY <1>4, <1>5, <1>7, <1>8, <1>9, <1>10, <1>11, TouchStep

LEMMA GetDoneStep == ASSUME ListInv, NEW t \in Adders, List!GetDone(t) PROVE ListInv'
<1>1. PICK m \in Nodes : m = at[t].head
  BY DEF List!GetDone, ListInv, Knows
<1>2. /\ thread[t] = "get_done" /\ UNCHANGED <<freeListHead, freeListNext>> /\ ListTypes
      /\ out' = out \cup {m} /\ freeListRefs' = [freeListRefs EXCEPT ![m] = @ - 2]
  BY <1>1 DEF List!GetDone, ListInv
<1>3. ListMoved(t, "idle", Null, 0, Null, Null)
  BY ListMoves
<1>4. Alike(t)
  BY <1>3, MovedAlike
<1>5. IsList' /\ List!Listed' = List!Listed
  BY <1>2, SameList DEF ListInv
<1>6. IsTaken(m) /\ Only(t, m)
  <2>1. NodeTaking(t, m)
    BY <1>1, <1>2 DEF NodeTaking
  <2> QED BY <2>1, Classes DEF ListInv
<1>7. freeListRefs[m] = Looks(m) + 2 /\ Looks(m) \in Nat
  BY <1>6, LookersFinite DEF IsTaken
<1>8. PICK v \in Nat : v = freeListRefs[m] - 2 /\ v = Looks(m)
  BY <1>7
<1>9. /\ freeListRefs' \in [Nodes -> Nat] /\ freeListRefs'[m] = v
      /\ \A n \in Nodes : n # m => freeListRefs'[n] = freeListRefs[n]
  BY <1>2, <1>8, RefsSet
<1>10. ASSUME NEW n \in Nodes, n # m PROVE ListUntouched(t, n)
  <2>1. /\ Looking(t, n)' <=> Looking(t, n)
        /\ AddingEarly(t, n)' <=> AddingEarly(t, n)
        /\ AddingLate(t, n)' <=> AddingLate(t, n)
        /\ NodeTaking(t, n)' <=> NodeTaking(t, n)
    BY <1>1, <1>2, <1>3, <1>10 DEF ListMoved, Looking, AddingEarly, AddingLate, NodeTaking, Early, Late
  <2> QED BY <1>2, <1>5, <1>9, <1>10, <2>1 DEF ListUntouched
<1>11. NodeInv(m)'
  <2>1. ~ Looking(t, m) /\ ~ Looking(t, m)' /\ ~ ListBusy(t, m)'
    BY <1>2, <1>3 DEF Looking, ListMoved, ListBusy, AddingEarly, AddingLate, NodeTaking, Early, Late
  <2>2. Looks(m)' = Looks(m)
    BY <1>4, <2>1, SameLooks
  <2>3. Idle(m)'
    BY <1>4, <1>6, <2>1, OnlyStays
  <2> QED BY <1>2, <1>5, <1>6, <1>8, <1>9, <2>2, <2>3 DEF NodeInv, IsTaken, IsOut
<1>12. \A u \in Adders : u # t => Knows(u)'
  BY <1>2, <1>4, OthersKnow DEF ListInv
<1>13. Knows(t)'
  BY <1>3 DEF Knows, ListMoved, Early, Late
<1>14. ListTypes'
  BY <1>2, <1>3, <1>9 DEF ListTypes, ListMoved
<1> QED BY <1>4, <1>5, <1>10, <1>11, <1>12, <1>13, <1>14, TouchStep

LEMMA GetUndoStep == ASSUME ListInv, NEW t \in Adders, List!GetUndo(t) PROVE ListInv'
<1>1. PICK m \in Nodes : m = at[t].node
  BY DEF List!GetUndo, ListInv, Knows
<1>2. /\ thread[t] = "get_undo" /\ UNCHANGED <<freeListHead, freeListNext, at, out>> /\ ListTypes
      /\ freeListRefs' = [freeListRefs EXCEPT ![m] = @ - 1]
  BY <1>1 DEF List!GetUndo, ListInv
<1>3. PICK p \in {"add_head", "get_loop"} :
         p = IF freeListRefs[m] = List!ShouldBeOnFreeList + 1 THEN "add_head" ELSE "get_loop"
  OBVIOUS
<1>4. ListMoved(t, p, at[t].head, at[t].refs, at[t].next, m)
  BY <1>1, <1>2, <1>3, SetPlace DEF AdderPlaces, List!GetUndo, List!Goto, List!PutsBack
<1>5. Alike(t)
  BY <1>4, MovedAlike
<1>6. IsList' /\ List!Listed' = List!Listed
  BY <1>2, SameList DEF ListInv
<1>7. Looking(t, m) /\ ~ Looking(t, m)' /\ ~ ListBusy(t, m)
  BY <1>1, <1>2, <1>3, <1>4 DEF Looking, ListMoved, ListBusy, AddingEarly, AddingLate, NodeTaking, Early, Late
<1>8. Looks(m)' = Looks(m) - 1 /\ Looks(m) >= 1 /\ Looks(m) \in Nat /\ Looks(m) < List!ShouldBeOnFreeList - 2
  BY <1>5, <1>7, OneLooksAway, LookersFinite
<1>9. NodeInv(m)
  BY DEF ListInv
<1>10. freeListRefs[m] \in Nat /\ freeListRefs[m] >= 1
  BY <1>2, <1>8, <1>9, Bit
     DEF ListTypes, NodeInv, IsOut, IsOn, IsPending, IsTaken, IsEarly, IsLate
<1>11. PICK v \in Nat : v = freeListRefs[m] - 1
  BY <1>10
<1>12. /\ freeListRefs' \in [Nodes -> Nat] /\ freeListRefs'[m] = v
       /\ \A n \in Nodes : n # m => freeListRefs'[n] = freeListRefs[n]
  BY <1>2, <1>11, RefsSet
<1>13. ASSUME NEW n \in Nodes, n # m PROVE ListUntouched(t, n)
  BY <1>1, <1>2, <1>3, <1>4, <1>6, <1>12, <1>13
     DEF ListUntouched, ListMoved, Looking, AddingEarly, AddingLate, NodeTaking, Early, Late
<1>14. NodeInv(m)'
  <2>1. CASE freeListRefs[m] = List!ShouldBeOnFreeList + 1
    <3>1. IsPending(m) /\ Looks(m) = 1
      BY <1>8, <1>9, <2>1, Bit DEF NodeInv, IsOut, IsOn, IsPending, IsTaken, IsEarly, IsLate
    <3>2. Only(t, m)
      BY <1>9, <3>1, Classes
    <3>3. Only(t, m)' /\ AddingEarly(t, m)'
      BY <1>3, <1>4, <1>5, <2>1, <3>2, OnlyStays DEF AddingEarly, Early, ListMoved
    <3>4. freeListRefs'[m] = List!ShouldBeOnFreeList /\ Looks(m)' = 0
      BY <1>8, <1>11, <1>12, <2>1, <3>1, Bit
    <3> QED BY <1>2, <1>6, <3>1, <3>3, <3>4 DEF NodeInv, IsPending, IsEarly
  <2>2. CASE freeListRefs[m] # List!ShouldBeOnFreeList + 1
    <3>1. ~ ListBusy(t, m)'
      BY <1>3, <1>4, <2>2 DEF ListBusy, AddingEarly, AddingLate, NodeTaking, ListMoved, Early, Late
    <3> QED BY <1>2, <1>5, <1>6, <1>7, <1>9, <1>11, <1>12, <2>2, <3>1, LookAway
  <2> QED BY <2>1, <2>2
<1>15. \A u \in Adders : u # t => Knows(u)'
  BY <1>2, <1>5, OthersKnow DEF ListInv
<1>16. Knows(t)'
  BY <1>3, <1>4 DEF Knows, ListMoved, Early, Late
<1>17. ListTypes'
  BY <1>2, <1>3, <1>4, <1>12 DEF ListTypes, ListMoved
<1> QED BY <1>5, <1>6, <1>13, <1>14, <1>15, <1>16, <1>17, TouchStep

LEMMA ListInvNext == ASSUME ListInv, [List!Next]_(List!vars) PROVE ListInv'
<1>1. CASE UNCHANGED List!vars
  <2>1. UNCHANGED <<freeListHead, freeListRefs, freeListNext, thread, at, out>>
    BY <1>1 DEF List!vars, List!list
  <2>2. IsList' /\ List!Listed' = List!Listed
    BY <2>1, SameList DEF ListInv
  <2>3. ListTypes' /\ \A t \in Adders : Knows(t)'
    BY <2>1 DEF ListInv, ListTypes, Knows
  <2>4. \A n : Looks(n)' = Looks(n)
    BY <2>1 DEF Looks, Lookers, Looking
  <2>5. ASSUME NEW n \in Nodes PROVE NodeInv(n)'
    <3>1. NodeInv(n)
      BY DEF ListInv
    <3>2. \A t \in Adders : /\ ListBusy(t, n)' <=> ListBusy(t, n)
                            /\ NodeTaking(t, n)' <=> NodeTaking(t, n)
                            /\ AddingEarly(t, n)' <=> AddingEarly(t, n)
                            /\ AddingLate(t, n)' <=> AddingLate(t, n)
      BY <2>1 DEF ListBusy, NodeTaking, AddingEarly, AddingLate
    <3>3. (Idle(n)' <=> Idle(n)) /\ \A t \in Adders : Only(t, n)' <=> Only(t, n)
      BY <3>2 DEF Idle, Only
    <3>4. (IsOut(n) => IsOut(n)') /\ (IsOn(n) => IsOn(n)') /\ (IsPending(n) => IsPending(n)')
      BY <2>1, <2>2, <2>4, <3>3 DEF IsOut, IsOn, IsPending
    <3>5. (IsTaken(n) => IsTaken(n)') /\ (IsEarly(n) => IsEarly(n)') /\ (IsLate(n) => IsLate(n)')
      BY <2>1, <2>2, <2>4, <3>2, <3>3 DEF IsTaken, IsEarly, IsLate
    <3> QED BY <3>1, <3>4, <3>5 DEF NodeInv
  <2> QED BY <2>2, <2>3, <2>5 DEF ListInv
<1>2. ASSUME NEW t \in Adders, List!Thread(t) PROVE ListInv'
  <2>1. CASE \E n \in Nodes : List!Add(t, n)
    BY <2>1, AddStep
  <2>2. CASE List!AddLoadHead(t) \/ List!AddStoreNext(t) \/ List!AddStoreRefs(t) \/ List!AddUndo(t)
    BY <2>2, AddLoadHeadStep, AddStoreNextStep, AddStoreRefsStep, AddUndoStep
  <2>3. CASE List!Get(t) \/ List!GetReload(t) \/ List!GetLoop(t) \/ List!GetNext(t) \/ List!GetDone(t) \/ List!GetUndo(t)
    BY <2>3, GetsStep, GetLoopStep, GetNextStep, GetDoneStep, GetUndoStep
  <2>4. CASE List!AddCas(t)
    <3>1. CASE freeListHead = at[t].next
      BY <2>4, <3>1, AddCasStep
    <3>2. CASE freeListHead # at[t].next
      <4>1. UNCHANGED <<List!list, out>> /\ thread[t] = "add_cas"
        BY <2>4, <3>2 DEF List!AddCas, List!list
      <4> QED BY <2>4, <3>2, <4>1, FailStep DEF List!GetCas, List!GetRef
    <3> QED BY <3>1, <3>2
  <2>5. CASE List!GetCas(t)
    <3>1. CASE freeListHead = at[t].head
      BY <2>5, <3>1, GetCasStep
    <3>2. CASE freeListHead # at[t].head
      <4>1. UNCHANGED <<List!list, out>> /\ thread[t] = "get_cas"
        BY <2>5, <3>2 DEF List!GetCas, List!list
      <4> QED BY <2>5, <3>2, <4>1, FailStep DEF List!AddCas, List!GetRef
    <3> QED BY <3>1, <3>2
  <2>6. CASE List!GetRef(t)
    <3>1. CASE freeListRefs[at[t].head] = at[t].refs
      BY <2>6, <3>1, GetRefStep
    <3>2. CASE freeListRefs[at[t].head] # at[t].refs
      <4>1. UNCHANGED <<List!list, out>> /\ thread[t] = "get_ref"
        BY <2>6, <3>2 DEF List!GetRef, List!list
      <4> QED BY <2>6, <3>2, <4>1, FailStep DEF List!AddCas, List!GetCas
    <3> QED BY <3>1, <3>2
  <2> QED BY <1>2, <2>1, <2>2, <2>3, <2>4, <2>5, <2>6 DEF List!Thread
<1> QED BY <1>1, <1>2 DEF List!Next

LEMMA ListInvInit == ASSUME List!Init PROVE ListInv
<1>1. ListTypes
  BY DEF List!Init, ListTypes, Node, AdderPlaces, AdderLocals, List!NoLocals
<1>2. IsList /\ List!Listed = {}
  <2>0. << >> \in Seq(Nodes)
    OBVIOUS
  <2>1. PICK s \in Seq(Nodes) : s = << >>
    BY <2>0
  <2>2. ListLinked(s, freeListHead, freeListNext)
    BY <2>1 DEF ListLinked, List!Init
  <2>3. Elements(s) = {}
    BY <2>1 DEF Elements
  <2> QED BY <2>2, <2>3, ListedReach, ChainReach, AddersAssumption DEF IsList
<1>3. \A t \in Adders : Knows(t)
  BY DEF List!Init, Knows, Early, Late
<1>4. ASSUME NEW n \in Nodes PROVE NodeInv(n)
  <2>1. Lookers(n) = {} /\ Idle(n)
    BY DEF List!Init, Lookers, Looking, Idle, ListBusy, AddingEarly, AddingLate, NodeTaking, Early, Late
  <2>2. Looks(n) = 0
    BY <2>1, FS_EmptySet DEF Looks
  <2> QED BY <1>2, <2>1, <2>2 DEF List!Init, NodeInv, IsOut
<1> QED BY <1>1, <1>2, <1>3, <1>4 DEF ListInv

LEMMA ListInvHandsOutOnce == ASSUME ListInv PROVE List!HandedOutOnce
<1>1. ASSUME NEW n \in List!Taken
      PROVE  n \in Nodes /\ n \notin List!Listed /\ n \notin out /\ freeListRefs[n] < List!ShouldBeOnFreeList
  <2>1. PICK t \in Adders : thread[t] = "get_done" /\ n = at[t].head
    BY DEF List!Taken
  <2>2. n \in Nodes /\ NodeTaking(t, n)
    BY <2>1 DEF ListInv, Knows, NodeTaking
  <2>3. IsTaken(n)
    BY <2>2, Classes DEF ListInv
  <2>4. Looks(n) \in Nat /\ Looks(n) < List!ShouldBeOnFreeList - 2
    BY LookersFinite
  <2> QED BY <2>2, <2>3, <2>4, Bit DEF IsTaken
<1>2. ASSUME NEW n \in out PROVE n \notin List!Listed /\ freeListRefs[n] < List!ShouldBeOnFreeList
  <2>1. n \in Nodes
    BY DEF ListInv, ListTypes
  <2>2. IsOut(n)
    BY <2>1 DEF ListInv, NodeInv, IsOn, IsOut, IsPending, IsTaken, IsEarly, IsLate
  <2>3. Looks(n) \in Nat /\ Looks(n) < List!ShouldBeOnFreeList - 2
    BY LookersFinite
  <2> QED BY <2>2, <2>3, Bit DEF IsOut
<1>3. ASSUME NEW t \in Adders, NEW u \in Adders, thread[t] = "get_done", thread[u] = "get_done",
             at[t].head = at[u].head
      PROVE  t = u
  <2>1. PICK n \in Nodes : n = at[t].head
    BY <1>3 DEF ListInv, Knows
  <2>2. NodeTaking(t, n) /\ NodeTaking(u, n)
    BY <1>3, <2>1 DEF NodeTaking
  <2>3. Only(t, n)
    BY <2>2, Classes DEF ListInv
  <2> QED BY <2>2, <2>3 DEF Only, ListBusy
<1> QED BY <1>1, <1>2, <1>3 DEF List!HandedOutOnce

LEMMA ListInvLosesNone == ASSUME ListInv PROVE List!NoneLost
<1> SUFFICES ASSUME NEW n \in Nodes, n \notin out, n \notin List!Taken, n \notin List!Listed
             PROVE  \/ \E t \in Adders : thread[t] \in Early \cup Late /\ at[t].node = n
                    \/ freeListRefs[n] > List!ShouldBeOnFreeList /\ \E t \in Adders : Looking(t, n)
  <2>1. Early \cup Late = {"add_head", "add_next", "add_refs", "add_cas", "add_undo"}
    BY DEF Early, Late
  <2>2. ASSUME NEW n, NEW t \in Adders, Looking(t, n)
        PROVE  \/ thread[t] \in {"get_next", "get_cas", "get_done"} /\ at[t].head = n
               \/ thread[t] = "get_undo" /\ at[t].node = n
    BY <2>2 DEF Looking
  <2> QED BY <2>1, <2>2, Zenon DEF List!NoneLost
<1>1. NodeInv(n) /\ ~ IsOut(n) /\ ~ IsOn(n)
  BY DEF ListInv, IsOut, IsOn
<1>2. ~ IsTaken(n)
  BY DEF IsTaken, NodeTaking, List!Taken
<1>3. CASE IsEarly(n) \/ IsLate(n)
  BY <1>3 DEF IsEarly, IsLate, AddingEarly, AddingLate
<1>4. CASE IsPending(n)
  <2>1. Looks(n) \in Nat /\ Looks(n) >= 1 /\ freeListRefs[n] = Looks(n) + List!ShouldBeOnFreeList
    BY <1>4, LookersFinite DEF IsPending
  <2>2. Lookers(n) # {}
    BY <2>1, FS_EmptySet DEF Looks
  <2> QED BY <2>1, <2>2, Bit DEF Lookers
<1> QED BY <1>1, <1>2, <1>3, <1>4 DEF NodeInv

(* A node of the free list is handed to one thread at a time and none is   *)
(* lost, for any number of threads and nodes and in every order of their   *)
(* compare-and-swaps (concurrentqueue.h:1423-1488).                        *)
THEOREM NodesKept == List!Spec => []NodesAccounted
<1>1. List!Init => ListInv
  BY ListInvInit
<1>2. ListInv /\ [List!Next]_(List!vars) => ListInv'
  BY ListInvNext
<1>3. ListInv => NodesAccounted
  BY ListInvHandsOutOnce, ListInvLosesNone DEF NodesAccounted
<1> QED BY <1>1, <1>2, <1>3, PTL DEF List!Spec

=============================================================================
