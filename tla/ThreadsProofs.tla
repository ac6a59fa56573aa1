---------------------------- MODULE ThreadsProofs ----------------------------
(***************************************************************************)
(* What threads share without the system's locks, for any finite sets of    *)
(* threads, lockers and consumers.                                          *)
(*                                                                          *)
(* The benaphore: the argument counts.  Whoever has come and not gone is    *)
(* counted in contention, the lock itself is at one place at a time, and a  *)
(* sleeper is either owed a signal by the negative count or is about to     *)
(* have one.                                                                *)
(*                                                                          *)
(* The producers: the list is a sequence that only grows at its head, so    *)
(* its links stay; a producer is inactive exactly while no thread holds it. *)
(* A thread makes a producer only when it has passed every one of the list, *)
(* each held by another thread at that moment.  Counting the threads beyond *)
(* the k newest producers shows there are never more producers than         *)
(* threads.  A consumer walks the list it began with as a ring, and has     *)
(* seen what lies between the token's producer and where it is.             *)
(***************************************************************************)
EXTENDS MCThreads, FiniteSetTheorems, SequenceTheorems, TLAPS

-----------------------------------------------------------------------------
\* The benaphore.

Positions == {"out", "try", "look", "exchange", "subtract", "sleep", "in", "signal", "post"}
NumberAt(places) == Cardinality({ t \in Lockers : locker[t] \in places })

TypeOK ==
    /\ contention \in Int /\ count \in Int /\ kernel \in Nat
    /\ locker \in [Lockers -> Positions]
    /\ seen \in [Lockers -> Int] /\ spin \in [Lockers -> Int]

Queued == {"look", "exchange", "subtract", "sleep"}
Positive(n) == IF n > 0 THEN n ELSE 0
Negative(n) == IF n < 0 THEN -n ELSE 0

AllCounted == contention = NumberAt({"in"}) + NumberAt(Queued)

\* The lock is held, handed over, or free.
InOnePlace ==
    NumberAt({"in"}) + NumberAt({"signal"}) + NumberAt({"post"}) + kernel + Positive(count)
      = IF contention > 0 THEN 1 ELSE 0

SleepersOwed == NumberAt({"sleep"}) = Negative(count) + NumberAt({"post"}) + kernel

SeenPositive == \A t \in Lockers : locker[t] = "exchange" => seen[t] > 0

IInv == TypeOK /\ AllCounted /\ InOnePlace /\ SleepersOwed /\ SeenPositive

-----------------------------------------------------------------------------
\* A number of threads at some places is natural, and some are there if it
\* is not 0.
LEMMA NumberAtNat ==
    ASSUME IsFiniteSet(Lockers), NEW places
    PROVE  /\ NumberAt(places) \in Nat
           /\ NumberAt(places) # 0 <=> \E t \in Lockers : locker[t] \in places
<1> DEFINE S == { t \in Lockers : locker[t] \in places }
<1>1. IsFiniteSet(S)
  BY FS_Subset
<1>2. Cardinality(S) \in Nat /\ (Cardinality(S) = 0 <=> S = {})
  BY <1>1, FS_CardinalityType, FS_EmptySet
<1> QED BY <1>2 DEF NumberAt

\* A thread that moves is counted where it goes and no longer where it was.
LEMMA Moved ==
    ASSUME IsFiniteSet(Lockers), locker \in [Lockers -> Positions],
           NEW t \in Lockers, NEW to, locker' = [locker EXCEPT ![t] = to], NEW places
    PROVE  NumberAt(places)' = NumberAt(places) + (IF to \in places THEN 1 ELSE 0)
                                 - (IF locker[t] \in places THEN 1 ELSE 0)
<1> DEFINE S == { u \in Lockers : locker[u] \in places }
           T == { u \in Lockers : locker'[u] \in places }
           R == S \ {t}
<1>1. IsFiniteSet(S) /\ IsFiniteSet(T) /\ IsFiniteSet(R) /\ t \notin R
  BY FS_Subset
<1>2. \A u \in Lockers \ {t} : locker'[u] = locker[u]
  OBVIOUS
<1>3. locker'[t] = to
  OBVIOUS
<1>4. S = (IF locker[t] \in places THEN R \cup {t} ELSE R)
  OBVIOUS
<1>5. T = (IF to \in places THEN R \cup {t} ELSE R)
  BY <1>2, <1>3
<1>6. Cardinality(R) \in Nat /\ Cardinality(R \cup {t}) = Cardinality(R) + 1
  BY <1>1, FS_CardinalityType, FS_AddElement
<1>7. NumberAt(places) = Cardinality(S) /\ NumberAt(places)' = Cardinality(T)
  BY DEF NumberAt
<1> HIDE DEF S, T, R
<1>8. Cardinality(S) = Cardinality(R) + (IF locker[t] \in places THEN 1 ELSE 0)
  BY <1>4, <1>6
<1>9. Cardinality(T) = Cardinality(R) + (IF to \in places THEN 1 ELSE 0)
  BY <1>5, <1>6
<1> QED BY <1>6, <1>7, <1>8, <1>9

-----------------------------------------------------------------------------
LEMMA InvInit == ASSUME IsFiniteSet(Lockers), InitLock PROVE IInv
<1>1. \A places : "out" \notin places => NumberAt(places) = 0
  <2>1. ASSUME NEW places, "out" \notin places PROVE NumberAt(places) = 0
    <3>1. ~ \E t \in Lockers : locker[t] \in places
      BY <2>1 DEF InitLock
    <3> QED BY <3>1, NumberAtNat
  <2> QED BY <2>1
<1>2. TypeOK /\ SeenPositive
  BY DEF InitLock, TypeOK, SeenPositive, Positions
<1>3. /\ NumberAt({"in"}) = 0 /\ NumberAt(Queued) = 0 /\ NumberAt({"signal"}) = 0
      /\ NumberAt({"post"}) = 0 /\ NumberAt({"sleep"}) = 0
  BY <1>1 DEF Queued
<1> QED BY <1>2, <1>3 DEF IInv, AllCounted, InOnePlace, SleepersOwed, Positive, Negative, InitLock

\* All numbers at once.
LEMMA Numbers ==
    ASSUME IsFiniteSet(Lockers), locker \in [Lockers -> Positions],
           NEW t \in Lockers, NEW to \in Positions, locker' = [locker EXCEPT ![t] = to]
    PROVE  /\ NumberAt({"in"}) \in Nat /\ NumberAt(Queued) \in Nat /\ NumberAt({"signal"}) \in Nat
           /\ NumberAt({"post"}) \in Nat /\ NumberAt({"sleep"}) \in Nat
           /\ \A places \in {{"in"}, Queued, {"signal"}, {"post"}, {"sleep"}} :
                /\ NumberAt(places)' = NumberAt(places) + (IF to \in places THEN 1 ELSE 0)
                                         - (IF locker[t] \in places THEN 1 ELSE 0)
                /\ locker[t] \in places => NumberAt(places) > 0
<1>1. ASSUME NEW places PROVE NumberAt(places) \in Nat
  BY NumberAtNat
<1>2. ASSUME NEW places
      PROVE  NumberAt(places)' = NumberAt(places) + (IF to \in places THEN 1 ELSE 0)
                                   - (IF locker[t] \in places THEN 1 ELSE 0)
  BY Moved
<1>3. ASSUME NEW places, locker[t] \in places PROVE NumberAt(places) > 0
  BY <1>1, <1>3, NumberAtNat
<1> QED BY <1>1, <1>2, <1>3

LEMMA InvNext == ASSUME IsFiniteSet(Lockers), IInv, [NextLock]_lockVars PROVE IInv'
<1> USE DEF IInv
<1>1. CASE UNCHANGED lockVars
  BY <1>1 DEF lockVars, TypeOK, AllCounted, InOnePlace, SleepersOwed, SeenPositive, NumberAt
<1>2. ASSUME NEW t \in Lockers, Locker(t) PROVE IInv'
  <2> DEFINE M(to) == locker' = [locker EXCEPT ![t] = to]
  <2> SUFFICES ASSUME NEW to \in Positions, M(to) PROVE IInv'
    <3>1. \E to \in Positions : M(to)
      BY <1>2 DEF Locker, Step, Lock, TryLock, TryLockExchange, LookAgain, Again, Exchange, Subtract,
                  Wake, Unlock, Signal, Post, Positions
    <3> QED BY <3>1
  <2>1. TypeOK'
    BY <1>2 DEF TypeOK, Locker, Step, Lock, TryLock, TryLockExchange, LookAgain, Exchange, Subtract,
                Wake, Unlock, Signal, Post, Positions
  <2>2. SeenPositive'
    BY <1>2 DEF SeenPositive, TypeOK, Locker, Step, Lock, TryLock, TryLockExchange, LookAgain, Again,
                Exchange, Subtract, Wake, Unlock, Signal, Post
  \* The counts of threads that the invariant speaks of, before and after.
  <2> DEFINE Gain(places) == (IF to \in places THEN 1 ELSE 0) - (IF locker[t] \in places THEN 1 ELSE 0)
  <2>3. /\ NumberAt({"in"}) \in Nat /\ NumberAt(Queued) \in Nat /\ NumberAt({"signal"}) \in Nat
        /\ NumberAt({"post"}) \in Nat /\ NumberAt({"sleep"}) \in Nat
        /\ NumberAt({"in"})' = NumberAt({"in"}) + Gain({"in"})
        /\ NumberAt(Queued)' = NumberAt(Queued) + Gain(Queued)
        /\ NumberAt({"signal"})' = NumberAt({"signal"}) + Gain({"signal"})
        /\ NumberAt({"post"})' = NumberAt({"post"}) + Gain({"post"})
        /\ NumberAt({"sleep"})' = NumberAt({"sleep"}) + Gain({"sleep"})
        /\ locker[t] = "in" => NumberAt({"in"}) > 0
    BY Numbers DEF TypeOK
  <2>4. (AllCounted /\ InOnePlace /\ SleepersOwed)'
    <3>0. locker'[t] = to
      BY DEF TypeOK
    <3> USE <2>3, <3>0 DEF TypeOK, AllCounted, InOnePlace, SleepersOwed, Positive, Negative, Queued, Step
    <3>1. CASE Lock(t)
      BY <3>1 DEF Lock
    <3>2. CASE TryLock(t)
      <4>1. to = "try" /\ locker[t] = "out"
        BY <3>2 DEF TryLock
      <4>2. /\ NumberAt({"in"})' = NumberAt({"in"}) /\ NumberAt(Queued)' = NumberAt(Queued)
            /\ NumberAt({"signal"})' = NumberAt({"signal"})
            /\ NumberAt({"post"})' = NumberAt({"post"})
            /\ NumberAt({"sleep"})' = NumberAt({"sleep"})
        BY <4>1
      <4>3. contention' = contention /\ count' = count /\ kernel' = kernel
        BY <3>2 DEF TryLock
      <4> HIDE <2>3, <3>0
      <4>4. /\ NumberAt({"in"}) \in Nat /\ NumberAt(Queued) \in Nat /\ NumberAt({"signal"}) \in Nat
            /\ NumberAt({"post"}) \in Nat /\ NumberAt({"sleep"}) \in Nat
        BY <2>3
      <4>5. AllCounted'
        BY <4>2, <4>3, <4>4
      <4>6. InOnePlace'
        BY <4>2, <4>3, <4>4
      <4>7. SleepersOwed'
        <5> HIDE DEF Negative
        <5>1. Negative(count') = Negative(count) /\ Negative(count) \in Int /\ kernel \in Int
          BY <4>3 DEF Negative
        <5>2. NumberAt({"sleep"}) = Negative(count) + NumberAt({"post"}) + kernel
          OBVIOUS
        <5>3. SleepersOwed' <=> NumberAt({"sleep"})' = Negative(count') + NumberAt({"post"})' + kernel'
          OBVIOUS
        <5> HIDE DEF SleepersOwed
        <5> QED BY <5>1, <5>2, <5>3, <4>2, <4>3, <4>4
      <4> QED BY <4>5, <4>6, <4>7
    <3>3. CASE TryLockExchange(t)
      BY <3>3 DEF TryLockExchange
    <3>4. CASE LookAgain(t)
      BY <3>4 DEF LookAgain, Again
    <3>5. CASE Exchange(t)
      BY <3>5 DEF Exchange, Again, SeenPositive
    <3>6. CASE Subtract(t)
      BY <3>6 DEF Subtract
    <3>7. CASE Wake(t)
      BY <3>7 DEF Wake
    <3>8. CASE Unlock(t)
      BY <3>8 DEF Unlock, Contended
    <3>9. CASE Signal(t)
      BY <3>9 DEF Signal, Sleepers
    <3>10. CASE Post(t)
      <4>1. to = "out" /\ locker[t] = "post"
        BY <3>10 DEF Post
      <4>2. /\ NumberAt({"in"})' = NumberAt({"in"}) /\ NumberAt(Queued)' = NumberAt(Queued)
            /\ NumberAt({"signal"})' = NumberAt({"signal"})
            /\ NumberAt({"post"})' = NumberAt({"post"}) - 1
            /\ NumberAt({"sleep"})' = NumberAt({"sleep"})
        BY <4>1
      <4>3. contention' = contention /\ count' = count /\ kernel' = kernel + 1
        BY <3>10 DEF Post
      <4> HIDE <2>3, <3>0
      <4>4. /\ NumberAt({"in"}) \in Nat /\ NumberAt(Queued) \in Nat /\ NumberAt({"signal"}) \in Nat
            /\ NumberAt({"post"}) \in Nat /\ NumberAt({"sleep"}) \in Nat
        BY <2>3
      <4>5. AllCounted'
        BY <4>2, <4>3, <4>4
      <4>6. InOnePlace'
        BY <4>2, <4>3, <4>4
      <4>7. SleepersOwed'
        <5> HIDE DEF Negative
        <5>1. Negative(count') = Negative(count) /\ Negative(count) \in Int /\ kernel \in Int
          BY <4>3 DEF Negative
        <5>2. NumberAt({"sleep"}) = Negative(count) + NumberAt({"post"}) + kernel
          OBVIOUS
        <5>3. SleepersOwed' <=> NumberAt({"sleep"})' = Negative(count') + NumberAt({"post"})' + kernel'
          OBVIOUS
        <5> HIDE DEF SleepersOwed
        <5> QED BY <5>1, <5>2, <5>3, <4>2, <4>3, <4>4
      <4> QED BY <4>5, <4>6, <4>7
    <3> QED BY <1>2, <3>1, <3>2, <3>3, <3>4, <3>5, <3>6, <3>7, <3>8, <3>9, <3>10 DEF Locker
  <2> QED BY <2>1, <2>2, <2>4
<1> QED BY <1>1, <1>2 DEF NextLock

-----------------------------------------------------------------------------
\* The invariant makes the lock sound: two threads in would be two locks in
\* one place, and a sleeper that nobody owes a signal would be owed one by
\* nobody.
LEMMA InvSound == ASSUME IsFiniteSet(Lockers), IInv PROVE LockSound
<1> DEFINE In == { t \in Lockers : locker[t] = "in" }
<1>1. In = { t \in Lockers : locker[t] \in {"in"} }
  OBVIOUS
<1>2. \A places : NumberAt(places) \in Nat
  BY NumberAtNat
<1>3. MutualExclusion
  <2>1. NumberAt({"in"}) \in Nat /\ NumberAt({"signal"}) \in Nat /\ NumberAt({"post"}) \in Nat
    BY <1>2
  <2>2. NumberAt({"in"}) <= 1
    BY <2>1 DEF IInv, TypeOK, InOnePlace, Positive
  <2> QED BY <1>1, <2>2 DEF MutualExclusion, NumberAt
<1>4. NoWakeupLost
  <2> SUFFICES ASSUME \E t \in Lockers : Waiting(t),
                      ~ \E t \in Lockers : locker[t] \in {"in", "signal", "post"}
               PROVE  \/ kernel > 0 /\ \E t \in Lockers : locker[t] = "sleep"
                      \/ count > 0 /\ \E t \in Lockers : locker[t] \in {"look", "exchange", "subtract"}
    BY DEF NoWakeupLost
  <2>1. NumberAt({"in"}) = 0 /\ NumberAt({"signal"}) = 0 /\ NumberAt({"post"}) = 0
    BY NumberAtNat
  <2>2. NumberAt(Queued) > 0 /\ NumberAt(Queued) \in Nat
    BY <1>2, NumberAtNat DEF Waiting, Queued
  <2>3. contention > 0 /\ kernel + Positive(count) = 1 /\ NumberAt({"sleep"}) = Negative(count) + kernel
    BY <2>1, <2>2 DEF IInv, TypeOK, AllCounted, InOnePlace, SleepersOwed, Positive, Negative
  <2>4. CASE kernel > 0
    <3>1. NumberAt({"sleep"}) # 0
      BY <2>3, <2>4 DEF IInv, TypeOK, Negative
    <3>2. \E t \in Lockers : locker[t] \in {"sleep"}
      BY <3>1, NumberAtNat
    <3> QED BY <2>4, <3>2
  <2>5. CASE ~ kernel > 0
    <3>1. count > 0 /\ NumberAt({"sleep"}) = 0
      BY <2>3, <2>5 DEF IInv, TypeOK, Positive, Negative
    <3>2. ~ \E t \in Lockers : locker[t] \in {"sleep"}
      BY <3>1, NumberAtNat
    <3> QED BY <3>1, <3>2 DEF Waiting
  <2> QED BY <2>4, <2>5
<1> QED BY <1>3, <1>4 DEF LockSound

(* The benaphore is a lock for any number of threads: one of them is in at  *)
(* a time, and no wakeup is lost (tracy_benaphore.h:34-58,                  *)
(* tracy_sema.h:195-240).                                                   *)
THEOREM BenaphoreSound == ASSUME IsFiniteSet(Lockers) PROVE LockSpec => []LockSound
<1>1. InitLock => IInv
  BY InvInit
<1>2. IInv /\ [NextLock]_lockVars => IInv'
  BY InvNext
<1>3. IInv => LockSound
  BY InvSound
<1> QED BY <1>1, <1>2, <1>3, PTL DEF LockSpec

-----------------------------------------------------------------------------
\* The list of producers.

LEMMA Least == ASSUME NEW T, T \subseteq Nat, T # {} PROVE \E x \in T : \A y \in T : x <= y
<1>1. \E x \in T : \A y \in T : ~ (<<y, x>> \in OpToRel(<, Nat))
  BY WFMin, NatLessThanWellFounded
<1>2. PICK x \in T : \A y \in T : ~ (<<y, x>> \in OpToRel(<, Nat))  BY <1>1
<1>3. ASSUME NEW y \in T, y < x PROVE FALSE
  <2>1. <<y, x>> \in OpToRel(<, Nat)  BY <1>3 DEF OpToRel
  <2> QED BY <2>1, <1>2
<1> QED BY <1>3

\* A walk, step by step.
IsWalk(f, p, n) == f = [k \in 0..n |-> IF k = 0 THEN p ELSE After(f[k - 1])]

LEMMA WalkExists == ASSUME NEW p, NEW n \in Nat PROVE \E f : IsWalk(f, p, n)
<1> DEFINE T == { m \in Nat : ~ \E f : IsWalk(f, p, m) }
<1> SUFFICES ASSUME T # {} PROVE FALSE
  OBVIOUS
<1>1. PICK m \in T : \A l \in T : m <= l
  <2>1. T \subseteq Nat
    OBVIOUS
  <2> HIDE DEF T
  <2> QED BY <2>1, Least
<1>2. CASE m = 0
  <2>1. IsWalk([k \in 0..0 |-> p], p, 0)
    BY DEF IsWalk
  <2> QED BY <1>2, <2>1
<1>3. CASE m # 0
  <2>1. m - 1 \in Nat /\ m \in Nat /\ m - 1 \notin T
    BY <1>1, <1>3
  <2>2. PICK f : IsWalk(f, p, m - 1)
    BY <2>1
  <2>3. \A k \in 0..(m - 1) : f[k] = IF k = 0 THEN p ELSE After(f[k - 1])
    BY <2>2 DEF IsWalk
  <2>4. PICK x : x = After(f[m - 1])
    OBVIOUS
  <2>5. PICK g : g = [k \in 0..m |-> IF k = m THEN x ELSE f[k]]
    OBVIOUS
  <2>6. \A k \in 0..m : g[k] = IF k = 0 THEN p ELSE After(g[k - 1])
    <3> SUFFICES ASSUME NEW k \in 0..m PROVE g[k] = IF k = 0 THEN p ELSE After(g[k - 1])
      OBVIOUS
    <3>1. CASE k = m
      <4>1. k # 0 /\ k - 1 \in 0..m /\ k - 1 # m /\ g[k - 1] = f[m - 1]
        BY <1>3, <2>1, <2>5, <3>1
      <4> QED BY <2>4, <2>5, <3>1, <4>1
    <3>2. CASE k # m
      <4>1. k \in 0..(m - 1) /\ g[k] = f[k]
        BY <2>1, <2>5, <3>2
      <4>2. k # 0 => k - 1 \in 0..m /\ k - 1 # m /\ g[k - 1] = f[k - 1]
        BY <2>1, <2>5, <3>2
      <4> QED BY <2>3, <4>1, <4>2
    <3> QED BY <3>1, <3>2
  <2>7. IsWalk(g, p, m)
    BY <2>5, <2>6 DEF IsWalk
  <2> QED BY <2>1, <2>7
<1> QED BY <1>2, <1>3

LEMMA WalkedIs == ASSUME NEW p, NEW n \in Nat PROVE \E f : IsWalk(f, p, n) /\ Walked(p, n) = f[n]
<1>1. PICK f : f = CHOOSE g : IsWalk(g, p, n)
  OBVIOUS
<1>2. IsWalk(f, p, n)
  BY <1>1, WalkExists
<1>3. Walked(p, n) = f[n]
  BY <1>1 DEF Walked, IsWalk
<1> QED BY <1>2, <1>3

-----------------------------------------------------------------------------
\* The list as a sequence: each producer once, the newest first.
Linked(s, first, links) ==
    /\ \A i, j \in 1..Len(s) : s[i] = s[j] => i = j
    /\ first = IF s = <<>> THEN Null ELSE s[1]
    /\ \A i \in 1..Len(s) : links[s[i]] = IF i = Len(s) THEN Null ELSE s[i + 1]
Elements(s) == { s[i] : i \in 1..Len(s) }

LEMMA NullApart == Null \notin Objects
BY DEF Null, Objects

\* After a producer of the list comes one of the list, and the walk from the tail is the list.
LEMMA AfterOnList ==
    ASSUME NEW s \in Seq(Objects), Linked(s, listTail, next), NEW i \in 1..Len(s)
    PROVE  /\ After(s[i]) \in Elements(s)
           /\ i # Len(s) => After(s[i]) = s[i + 1]
<1>1. s # <<>> /\ listTail = s[1] /\ 1 \in 1..Len(s)
  BY DEF Linked
<1>2. s[i] \in Objects
  OBVIOUS
<1>3. CASE i = Len(s)
  BY <1>1, <1>3 DEF Linked, After, Elements
<1>4. CASE i # Len(s)
  <2>1. i + 1 \in 1..Len(s) /\ s[i + 1] \in Objects
    BY <1>4
  <2>2. next[s[i]] = s[i + 1]
    BY <1>4 DEF Linked
  <2> QED BY <2>1, <2>2, NullApart DEF After, Elements
<1> QED BY <1>3, <1>4

LEMMA WalkStays ==
    ASSUME NEW s \in Seq(Objects), Linked(s, listTail, next), NEW p \in Elements(s), NEW n \in Nat
    PROVE  Walked(p, n) \in Elements(s)
<1>1. PICK f : IsWalk(f, p, n) /\ Walked(p, n) = f[n]
  BY WalkedIs
<1>2. \A k \in 0..n : f[k] = IF k = 0 THEN p ELSE After(f[k - 1])
  BY <1>1 DEF IsWalk
<1> DEFINE T == { k \in 0..n : f[k] \notin Elements(s) }
<1>3. T = {}
  <2> SUFFICES ASSUME T # {} PROVE FALSE
    OBVIOUS
  <2>1. PICK k \in T : \A l \in T : k <= l
    <3>1. T \subseteq Nat
      OBVIOUS
    <3> HIDE DEF T
    <3> QED BY <3>1, Least
  <2>2. k # 0
    BY <1>2, <2>1
  <2>3. k - 1 \in 0..n /\ k \in 0..n /\ k - 1 \notin T
    BY <2>1, <2>2
  <2>4. PICK i \in 1..Len(s) : f[k - 1] = s[i]
    BY <2>3 DEF Elements
  <2>5. f[k] = After(s[i])
    BY <1>2, <2>2, <2>3, <2>4
  <2> QED BY <2>1, <2>5, AfterOnList
<1>4. n \in 0..n
  OBVIOUS
<1> QED BY <1>1, <1>3, <1>4

LEMMA WalkReaches ==
    ASSUME NEW s \in Seq(Objects), Linked(s, listTail, next), NEW i \in 1..Len(s)
    PROVE  Walked(listTail, i - 1) = s[i]
<1>1. PICK n \in Nat : n = i - 1
  OBVIOUS
<1>2. PICK f : IsWalk(f, listTail, n) /\ Walked(listTail, n) = f[n]
  BY WalkedIs
<1>3. \A k \in 0..n : f[k] = IF k = 0 THEN listTail ELSE After(f[k - 1])
  BY <1>2 DEF IsWalk
<1> DEFINE T == { k \in 0..n : f[k] # s[k + 1] }
<1>4. T = {}
  <2> SUFFICES ASSUME T # {} PROVE FALSE
    OBVIOUS
  <2>1. PICK k \in T : \A l \in T : k <= l
    <3>1. T \subseteq Nat
      OBVIOUS
    <3> HIDE DEF T
    <3> QED BY <3>1, Least
  <2>2. k # 0
    BY <1>3, <2>1 DEF Linked
  <2>3. k - 1 \in 0..n /\ k \in 0..n /\ k - 1 \notin T
    BY <2>1, <2>2
  <2>4. f[k - 1] = s[k] /\ k \in 1..Len(s) /\ k # Len(s)
    BY <1>1, <2>2, <2>3
  <2>5. f[k] = After(s[k])
    BY <1>3, <2>2, <2>3, <2>4
  <2> QED BY <2>1, <2>4, <2>5, AfterOnList
<1>5. n \in 0..n /\ n + 1 = i
  BY <1>1
<1> QED BY <1>1, <1>2, <1>4, <1>5

\* A new first one.
LEMMA Pushed ==
    ASSUME NEW s \in Seq(Objects), Linked(s, listTail, next), NEW n \in Objects \ Elements(s),
           next[n] = listTail
    PROVE  \E r \in Seq(Objects) :
             /\ Len(r) = Len(s) + 1 /\ r[1] = n /\ \A i \in 1..Len(s) : r[i + 1] = s[i]
             /\ Linked(r, n, next) /\ Elements(r) = Elements(s) \cup {n}
<1>3. PICK r \in Seq(Objects) : /\ r = <<n>> \o s /\ Len(r) = 1 + Len(s)
                            /\ \A i \in 1..Len(r) : r[i] = IF i <= 1 THEN <<n>>[i] ELSE s[i - 1]
  <2>1. <<n>> \in Seq(Objects) /\ Len(<<n>>) = 1
    OBVIOUS
  <2>2. /\ <<n>> \o s \in Seq(Objects) /\ Len(<<n>> \o s) = 1 + Len(s)
        /\ \A i \in 1..Len(<<n>> \o s) : (<<n>> \o s)[i] = IF i <= 1 THEN <<n>>[i] ELSE s[i - 1]
    BY <2>1, ConcatProperties
  <2> QED BY <2>2
<1>4. /\ Len(r) = Len(s) + 1 /\ Len(s) \in Nat /\ r[1] = n
      /\ \A i \in 1..Len(s) : r[i + 1] = s[i] /\ s[i] # n
  BY <1>3 DEF Elements
<1>5. \A i \in 2..Len(r) : i - 1 \in 1..Len(s) /\ r[i] = s[i - 1]
  BY <1>4
<1>6. Linked(r, n, next)
  <2>1. ASSUME NEW i \in 1..Len(r), NEW j \in 1..Len(r), r[i] = r[j] PROVE i = j
    <3>1. CASE i = 1 /\ j # 1
      <4>1. j - 1 \in 1..Len(s) /\ r[j] = s[j - 1]
        BY <1>4, <1>5, <3>1
      <4> QED BY <1>4, <2>1, <3>1, <4>1
    <3>2. CASE i # 1 /\ j = 1
      <4>1. i - 1 \in 1..Len(s) /\ r[i] = s[i - 1]
        BY <1>4, <1>5, <3>2
      <4> QED BY <1>4, <2>1, <3>2, <4>1
    <3>3. CASE i # 1 /\ j # 1
      <4>1. i - 1 \in 1..Len(s) /\ j - 1 \in 1..Len(s) /\ s[i - 1] = s[j - 1]
        BY <1>5, <2>1, <3>3
      <4>2. i - 1 = j - 1
        BY <4>1 DEF Linked
      <4> QED BY <4>2
    <3> QED BY <3>1, <3>2, <3>3
  <2>2. n = IF r = <<>> THEN Null ELSE r[1]
    BY <1>4
  <2>3. ASSUME NEW i \in 1..Len(r)
        PROVE  next[r[i]] = IF i = Len(r) THEN Null ELSE r[i + 1]
    <3>1. CASE i = 1
      <4>1. next[n] = IF s = <<>> THEN Null ELSE s[1]
        BY DEF Linked
      <4>2. s = <<>> <=> Len(s) = 0
        OBVIOUS
      <4>3. Len(s) # 0 => r[2] = s[1]
        BY <1>4
      <4> QED BY <1>4, <3>1, <4>1, <4>2, <4>3
    <3>2. CASE i # 1
      <4>1. i - 1 \in 1..Len(s) /\ r[i] = s[i - 1]
        BY <1>5, <3>2
      <4>2. next[s[i - 1]] = IF i - 1 = Len(s) THEN Null ELSE s[i - 1 + 1]
        BY <4>1 DEF Linked
      <4>3. i - 1 # Len(s) => r[i + 1] = s[i]
        BY <1>4, <4>1
      <4> QED BY <1>4, <4>1, <4>2, <4>3
    <3> QED BY <3>1, <3>2
  <2> QED BY <2>1, <2>2, <2>3 DEF Linked
<1>9. Elements(r) = Elements(s) \cup {n}
  <2>1. ASSUME NEW i \in 1..Len(r) PROVE r[i] \in Elements(s) \cup {n}
    <3>1. CASE i = 1
      BY <1>4, <3>1
    <3>2. CASE i # 1
      <4>1. i \in 2..Len(r)
        BY <1>4, <3>2
      <4> QED BY <1>5, <4>1 DEF Elements
    <3> QED BY <3>1, <3>2
  <2>2. \A i \in 1..Len(s) : s[i] \in Elements(r)
    BY <1>4 DEF Elements
  <2>3. n \in Elements(r)
    BY <1>4 DEF Elements
  <2> QED BY <2>1, <2>2, <2>3 DEF Elements
<1> QED BY <1>3, <1>4, <1>6, <1>9

-----------------------------------------------------------------------------
Places == {"out", "look", "swap", "create", "push", "hold"}
Link == Objects \cup {Null}
Tokens == [initial : Nat, known : Nat, consumed : Nat, current : Link, desired : Link]
Calls == [ptr : Link, tail : Link, left : Nat, count : Nat, listed : SUBSET Objects, seen : SUBSET Objects]

ListTypes ==
    /\ listTail \in Link /\ next \in [Objects -> Link] /\ inactive \in [Objects -> BOOLEAN]
    /\ producerCount \in Nat
    /\ thread \in [Threads -> Places] /\ at \in [Threads -> Link]

RoundTypes ==
    /\ pending \in [Objects -> Nat] /\ globalOffset \in Nat
    /\ consumer \in [Consumers -> {"idle", "round", "done"}]
    /\ token \in [Consumers -> Tokens] /\ call \in [Consumers -> Calls]

\* Where the threads are, relative to the list s.
Links(s) ==
    /\ Linked(s, listTail, next)
    /\ \A p \in Objects : next[p] \in Elements(s) \cup {Null}
    /\ s # <<>> => producerCount >= 1

Placed(s, t) ==
    /\ thread[t] \in {"look", "swap", "hold"} => at[t] \in Elements(s)
    /\ thread[t] = "push" => at[t] \in Objects \ Elements(s) /\ producerCount >= 1
    /\ thread[t] \in {"out", "create"} => at[t] = Null

Holds(t, p) == thread[t] = "hold" /\ at[t] = p
Owned(s) ==
    /\ \A p \in Objects : inactive[p] <=> p \in Elements(s) /\ ~ \E t \in Threads : Holds(t, p)
    /\ \A t, u \in Threads : thread[t] \in {"hold", "push"} /\ thread[u] \in {"hold", "push"}
                               /\ at[t] = at[u] => t = u

\* The threads beyond the k newest producers: each of those is skipped, while
\* one holds it, by at most all the threads beyond the newer ones but that one.
Beyond(s, k) ==
    { t \in Threads : \/ thread[t] \in {"create", "push"}
                      \/ /\ thread[t] \in {"look", "swap", "hold"}
                         /\ \E i \in 1..Len(s) : i > k /\ s[i] = at[t] }
Crowd(s) == \A k \in 0..Len(s) : Cardinality(Beyond(s, k)) <= Cardinality(Threads) - k

OwnInv(s) == Links(s) /\ (\A t \in Threads : Placed(s, t)) /\ Owned(s) /\ Crowd(s)

LEMMA BeyondFinite ==
    ASSUME NEW s, NEW k
    PROVE  /\ IsFiniteSet(Beyond(s, k)) /\ Cardinality(Beyond(s, k)) \in Nat
           /\ Cardinality(Threads) \in Nat
BY ThreadsAssumption, FS_Subset, FS_CardinalityType DEF Beyond

\* No more are beyond a place than were, or only one that was beyond the newer ones.
LEMMA CrowdStays ==
    ASSUME NEW s \in Seq(Objects), Crowd(s),
           \A k \in 0..Len(s) : \A t \in Threads : t \in Beyond(s, k)' => t \in Beyond(s, k)
    PROVE  Crowd(s)'
<1>1. ASSUME NEW k \in 0..Len(s) PROVE Cardinality(Beyond(s, k)') <= Cardinality(Beyond(s, k))
  <2>1. Beyond(s, k)' \subseteq Beyond(s, k)
    BY DEF Beyond
  <2> QED BY <2>1, BeyondFinite, FS_Subset
<1>2. ASSUME NEW k \in 0..Len(s) PROVE Cardinality(Beyond(s, k)') \in Nat
  BY ThreadsAssumption, FS_Subset, FS_CardinalityType DEF Beyond
<1> QED BY <1>1, <1>2, BeyondFinite DEF Crowd

LEMMA GoesFields ==
    ASSUME ListTypes, NEW t \in Threads, NEW from \in Places, NEW to \in Places, NEW p \in Link,
           Goes(t, from, to, p)
    PROVE  /\ thread' \in [Threads -> Places] /\ at' \in [Threads -> Link]
           /\ thread[t] = from /\ thread'[t] = to /\ at'[t] = p
           /\ \A u \in Threads : u # t => thread'[u] = thread[u] /\ at'[u] = at[u]
BY DEF Goes, ListTypes

\* A thread that goes on in the list as it is, without taking or leaving a producer.
LEMMA StartTokenStep ==
    ASSUME ListTypes, NEW s \in Seq(Objects), OwnInv(s), NEW t \in Threads, StartToken(t)
    PROVE  ListTypes' /\ OwnInv(s)'
<1>1. PICK to \in {"create", "look"} : to = IF listTail = Null THEN "create" ELSE "look"
  OBVIOUS
<1>2. Goes(t, "out", to, listTail) /\ UNCHANGED <<listTail, next, inactive, producerCount>>
  BY <1>1 DEF StartToken, list
<1>3. /\ thread' \in [Threads -> Places] /\ at' \in [Threads -> Link]
      /\ thread[t] = "out" /\ thread'[t] = to /\ at'[t] = listTail
      /\ \A u \in Threads : u # t => thread'[u] = thread[u] /\ at'[u] = at[u]
  BY <1>2, GoesFields DEF Places, ListTypes
<1>4. ListTypes'
  BY <1>2, <1>3 DEF ListTypes
<1>5. Links(s)'
  BY <1>2 DEF OwnInv, Links
<1>6. to = "look" => s # <<>> /\ listTail = s[1] /\ listTail \in Elements(s)
  BY <1>1 DEF OwnInv, Links, Linked, Elements
<1>7. \A u \in Threads : Placed(s, u)'
  BY <1>1, <1>2, <1>3, <1>6 DEF OwnInv, Placed
<1>8. Owned(s)'
  <2>1. \A u \in Threads : \A p : Holds(u, p)' <=> Holds(u, p)
    BY <1>3 DEF Holds
  <2>2. \A u \in Threads : /\ thread'[u] \in {"hold", "push"} <=> thread[u] \in {"hold", "push"}
                           /\ thread'[u] \in {"hold", "push"} => at'[u] = at[u]
    BY <1>3
  <2> QED BY <1>2, <2>1, <2>2 DEF OwnInv, Owned
<1>9. Crowd(s)'
  <2>1. ASSUME NEW k \in 1..Len(s), NEW u \in Threads, u \in Beyond(s, k)' PROVE u \in Beyond(s, k)
    <3>1. CASE u # t
      BY <1>3, <2>1, <3>1 DEF Beyond
    <3>2. CASE u = t
      <4>1. s # <<>>
        BY <2>1
      <4>2. listTail = s[1] /\ listTail # Null
        BY <4>1, NullApart DEF OwnInv, Links, Linked
      <4>3. PICK i \in 1..Len(s) : i > k /\ s[i] = at'[t]
        BY <1>1, <1>3, <2>1, <3>2, <4>2 DEF Beyond
      <4>4. i = 1
        BY <1>3, <2>1, <4>2, <4>3 DEF OwnInv, Links, Linked
      <4> QED BY <2>1, <4>3, <4>4
    <3> QED BY <3>1, <3>2
  <2>2. ASSUME NEW k \in 0..Len(s) PROVE Cardinality(Beyond(s, k)') <= Cardinality(Threads) - k
    <3>1. CASE k = 0
      <4>1. Beyond(s, k)' \subseteq Threads
        BY DEF Beyond
      <4> QED BY <3>1, <4>1, ThreadsAssumption, FS_Subset, FS_CardinalityType
    <3>2. CASE k # 0
      <4>1. Beyond(s, k)' \subseteq Beyond(s, k)
        BY <2>1, <3>2 DEF Beyond
      <4>2. Cardinality(Beyond(s, k)') <= Cardinality(Beyond(s, k)) /\ Cardinality(Beyond(s, k)') \in Nat
        BY <4>1, BeyondFinite, FS_Subset, FS_CardinalityType
      <4> QED BY <4>2, BeyondFinite DEF OwnInv, Crowd
    <3> QED BY <3>1, <3>2
  <2> QED BY <2>2 DEF Crowd
<1> QED BY <1>4, <1>5, <1>7, <1>8, <1>9 DEF OwnInv

\* What the others hold stays so, and where they are.
LEMMA OwnedStays ==
    ASSUME NEW s, Owned(s), NEW t \in Threads, UNCHANGED inactive,
           thread[t] \notin {"hold", "push"}, thread'[t] \notin {"hold", "push"},
           \A u \in Threads : u # t => thread'[u] = thread[u] /\ at'[u] = at[u]
    PROVE  Owned(s)'
<1>1. \A u \in Threads : \A p : Holds(u, p)' <=> Holds(u, p)
  BY DEF Holds
<1>2. \A u \in Threads : /\ thread'[u] \in {"hold", "push"} <=> thread[u] \in {"hold", "push"}
                         /\ thread'[u] \in {"hold", "push"} => at'[u] = at[u]
  OBVIOUS
<1> QED BY <1>1, <1>2 DEF Owned

\* A producer that somebody holds is passed.
LEMMA Pass ==
    ASSUME ListTypes, NEW s \in Seq(Objects), OwnInv(s), NEW t \in Threads,
           NEW from \in {"look", "swap"}, ~ inactive[at[t]],
           Goes(t, from, IF next[at[t]] = Null THEN "create" ELSE "look", next[at[t]]),
           UNCHANGED <<listTail, next, inactive, producerCount>>
    PROVE  ListTypes' /\ OwnInv(s)'
<1>1. PICK to \in {"create", "look"} : to = IF next[at[t]] = Null THEN "create" ELSE "look"
  OBVIOUS
<1>2. PICK i \in 1..Len(s) : at[t] = s[i]
  <2>1. thread[t] = from
    BY DEF Goes
  <2> QED BY <2>1 DEF OwnInv, Placed, Elements
<1>3. s[i] \in Objects /\ s[i] \in Elements(s)
  BY DEF Elements
<1>4. PICK p \in Link : p = next[s[i]]
  BY <1>3 DEF ListTypes
<1>5. Goes(t, from, to, p)
  BY <1>1, <1>2, <1>4
<1>6. /\ thread' \in [Threads -> Places] /\ at' \in [Threads -> Link]
      /\ thread[t] = from /\ thread'[t] = to /\ at'[t] = p
      /\ \A u \in Threads : u # t => thread'[u] = thread[u] /\ at'[u] = at[u]
  <2>1. from \in Places /\ to \in Places
    BY DEF Places
  <2> QED BY <1>5, <2>1, GoesFields
<1>7. PICK v \in Threads : thread[v] = "hold" /\ at[v] = s[i]
  BY <1>2, <1>3 DEF OwnInv, Owned, Holds
<1>8. v # t
  BY <1>6, <1>7
<1>9. ListTypes'
  BY <1>6 DEF ListTypes
<1>10. Links(s)'
  BY DEF OwnInv, Links
<1>11. p = IF i = Len(s) THEN Null ELSE s[i + 1]
  BY <1>4 DEF OwnInv, Links, Linked
<1>12. to = IF i = Len(s) THEN "create" ELSE "look"
  <2>1. i # Len(s) => i + 1 \in 1..Len(s) /\ s[i + 1] \in Objects
    OBVIOUS
  <2> QED BY <1>1, <1>2, <1>4, <1>11, <2>1, NullApart
<1>13. to = "look" => p \in Elements(s)
  BY <1>11, <1>12 DEF Elements
<1>14. ASSUME NEW u \in Threads PROVE Placed(s, u)'
  <2>1. CASE u = t
    BY <1>6, <1>11, <1>12, <1>13, <2>1 DEF Placed
  <2>2. CASE u # t
    BY <1>6, <2>2 DEF OwnInv, Placed
  <2> QED BY <2>1, <2>2
<1>15. Owned(s)'
  BY <1>6, OwnedStays DEF OwnInv
<1>16. ASSUME NEW k \in 0..Len(s) PROVE Cardinality(Beyond(s, k)') <= Cardinality(Threads) - k
  <2>1. ASSUME k # i PROVE Beyond(s, k)' \subseteq Beyond(s, k)
    <3> SUFFICES ASSUME NEW u \in Threads, u \in Beyond(s, k)' PROVE u \in Beyond(s, k)
      BY DEF Beyond
    <3>1. CASE u # t
      BY <1>6, <3>1 DEF Beyond
    <3>2. CASE u = t
      <4>1. i > k
        <5>1. CASE to = "create"
          BY <1>12, <2>1, <5>1
        <5>2. CASE to = "look"
          <6>1. PICK j \in 1..Len(s) : j > k /\ s[j] = p
            BY <1>6, <3>2, <5>2 DEF Beyond
          <6>2. i + 1 \in 1..Len(s) /\ p = s[i + 1]
            BY <1>11, <1>12, <5>2
          <6>3. j = i + 1
            BY <6>1, <6>2 DEF OwnInv, Links, Linked
          <6> QED BY <2>1, <6>1, <6>3
        <5> QED BY <5>1, <5>2
      <4> QED BY <1>2, <1>6, <3>2, <4>1 DEF Beyond
    <3> QED BY <3>1, <3>2
  <2>2. ASSUME k = i PROVE Beyond(s, k)' \subseteq Beyond(s, k - 1) \ {v}
    <3> SUFFICES ASSUME NEW u \in Threads, u \in Beyond(s, k)' PROVE u \in Beyond(s, k - 1) /\ u # v
      BY DEF Beyond
    <3>1. CASE u # t
      <4>1. u \in Beyond(s, k)
        BY <1>6, <3>1 DEF Beyond
      <4>2. u \in Beyond(s, k - 1)
        BY <2>2, <4>1 DEF Beyond
      <4>3. v \notin Beyond(s, k)
        BY <1>7, <2>2 DEF Beyond, OwnInv, Links, Linked
      <4> QED BY <4>1, <4>2, <4>3
    <3>2. CASE u = t
      BY <1>2, <1>6, <1>8, <2>2, <3>2 DEF Beyond
    <3> QED BY <3>1, <3>2
  <2>3. ASSUME k # i PROVE Cardinality(Beyond(s, k)') <= Cardinality(Threads) - k
    <3>1. Cardinality(Beyond(s, k)') <= Cardinality(Beyond(s, k)) /\ Cardinality(Beyond(s, k)') \in Nat
      BY <2>1, <2>3, BeyondFinite, FS_Subset, FS_CardinalityType
    <3> QED BY <3>1, BeyondFinite DEF OwnInv, Crowd
  <2>4. ASSUME k = i PROVE Cardinality(Beyond(s, k)') <= Cardinality(Threads) - k
    <3>1. PICK l \in 0..Len(s) : l = k - 1
      BY <2>4
    <3>2. v \in Beyond(s, l)
      BY <1>7, <2>4, <3>1 DEF Beyond
    <3>3. Beyond(s, k)' \subseteq Beyond(s, l) \ {v}
      BY <2>2, <2>4, <3>1
    <3>4. IsFiniteSet(Beyond(s, l) \ {v}) /\ Cardinality(Beyond(s, l) \ {v}) = Cardinality(Beyond(s, l)) - 1
      BY <3>2, BeyondFinite, FS_RemoveElement
    <3>5. /\ Cardinality(Beyond(s, k)') <= Cardinality(Beyond(s, l) \ {v})
          /\ Cardinality(Beyond(s, k)') \in Nat
      BY <3>3, <3>4, FS_Subset, FS_CardinalityType
    <3>6. Cardinality(Beyond(s, l)) <= Cardinality(Threads) - l
      BY DEF OwnInv, Crowd
    <3> QED BY <3>1, <3>4, <3>5, <3>6, BeyondFinite
  <2> QED BY <2>3, <2>4
<1>17. Crowd(s)'
  BY <1>16 DEF Crowd
<1> QED BY <1>9, <1>10, <1>14, <1>15, <1>17 DEF OwnInv

LEMMA LookStep ==
    ASSUME ListTypes, NEW s \in Seq(Objects), OwnInv(s), NEW t \in Threads, Look(t)
    PROVE  ListTypes' /\ OwnInv(s)'
<1>1. thread[t] = "look" /\ UNCHANGED <<listTail, next, inactive, producerCount>>
  BY DEF Look, list
<1>2. CASE ~ inactive[at[t]]
  BY <1>1, <1>2, Pass DEF Look
<1>3. CASE inactive[at[t]]
  <2>1. Goes(t, "look", "swap", at[t]) /\ at[t] \in Link
    BY <1>3 DEF Look, ListTypes
  <2>2. /\ thread' \in [Threads -> Places] /\ at' \in [Threads -> Link]
        /\ thread'[t] = "swap" /\ at'[t] = at[t]
        /\ \A u \in Threads : u # t => thread'[u] = thread[u] /\ at'[u] = at[u]
    BY <2>1, GoesFields DEF Places
  <2>3. ListTypes' /\ Links(s)'
    BY <1>1, <2>2 DEF ListTypes, OwnInv, Links
  <2>4. \A u \in Threads : Placed(s, u)'
    BY <1>1, <2>2 DEF OwnInv, Placed
  <2>5. Owned(s)'
    BY <1>1, <2>2, OwnedStays DEF OwnInv
  <2>6. \A k \in 0..Len(s) : \A u \in Threads : u \in Beyond(s, k)' => u \in Beyond(s, k)
    BY <1>1, <2>2 DEF Beyond
  <2>7. Crowd(s)'
    BY <2>6, CrowdStays DEF OwnInv
  <2> QED BY <2>3, <2>4, <2>5, <2>7 DEF OwnInv
<1> QED BY <1>2, <1>3

\* The swap of inactive takes the producer, or it is passed.
LEMMA RecycleStep ==
    ASSUME ListTypes, NEW s \in Seq(Objects), OwnInv(s), NEW t \in Threads, Recycle(t)
    PROVE  ListTypes' /\ OwnInv(s)'
<1>1. /\ thread[t] = "swap" /\ UNCHANGED <<listTail, next, producerCount>>
      /\ inactive' = [inactive EXCEPT ![at[t]] = FALSE]
  BY DEF Recycle
<1>2. at[t] \in Elements(s) /\ at[t] \in Objects
  BY <1>1 DEF OwnInv, Placed, Elements
<1>3. CASE ~ inactive[at[t]]
  <2>1. UNCHANGED inactive
    BY <1>1, <1>2, <1>3 DEF ListTypes
  <2> QED BY <1>1, <1>3, <2>1, Pass DEF Recycle
<1>4. CASE inactive[at[t]]
  <2>1. Goes(t, "swap", "hold", at[t]) /\ at[t] \in Link
    BY <1>4 DEF Recycle, ListTypes
  <2>2. /\ thread' \in [Threads -> Places] /\ at' \in [Threads -> Link]
        /\ thread'[t] = "hold" /\ at'[t] = at[t]
        /\ \A u \in Threads : u # t => thread'[u] = thread[u] /\ at'[u] = at[u]
    BY <2>1, GoesFields DEF Places
  <2>3. ListTypes' /\ Links(s)'
    BY <1>1, <2>2 DEF ListTypes, OwnInv, Links
  <2>4. \A u \in Threads : Placed(s, u)'
    BY <1>1, <1>2, <2>2 DEF OwnInv, Placed
  <2>5. Owned(s)'
    <3>1. ASSUME NEW p \in Objects
          PROVE  inactive'[p] <=> p \in Elements(s) /\ ~ \E u \in Threads : Holds(u, p)'
      <4>1. CASE p = at[t]
        BY <1>1, <1>2, <2>2, <4>1 DEF ListTypes, Holds
      <4>2. CASE p # at[t]
        <5>1. \A u \in Threads : Holds(u, p)' <=> Holds(u, p)
          BY <1>1, <2>2, <4>2 DEF Holds
        <5>2. inactive'[p] <=> inactive[p]
          BY <1>1, <4>2 DEF ListTypes
        <5> QED BY <5>1, <5>2 DEF OwnInv, Owned
      <4> QED BY <4>1, <4>2
    <3>2. ASSUME NEW u \in Threads, thread[u] \in {"hold", "push"} PROVE at[u] # at[t]
      BY <1>2, <1>4, <3>2 DEF OwnInv, Owned, Holds, Placed
    <3>3. \A u, v \in Threads : thread'[u] \in {"hold", "push"} /\ thread'[v] \in {"hold", "push"}
                               /\ at'[u] = at'[v] => u = v
      BY <2>2, <3>2 DEF OwnInv, Owned
    <3> QED BY <3>1, <3>3 DEF Owned
  <2>6. \A k \in 0..Len(s) : \A u \in Threads : u \in Beyond(s, k)' => u \in Beyond(s, k)
    BY <1>1, <2>2 DEF Beyond
  <2>7. Crowd(s)'
    BY <2>6, CrowdStays DEF OwnInv
  <2> QED BY <2>3, <2>4, <2>5, <2>7 DEF OwnInv
<1> QED BY <1>3, <1>4

LEMMA ReleaseStep ==
    ASSUME ListTypes, NEW s \in Seq(Objects), OwnInv(s), NEW t \in Threads, Release(t)
    PROVE  ListTypes' /\ OwnInv(s)'
<1>1. /\ thread[t] = "hold" /\ UNCHANGED <<listTail, next, producerCount>>
      /\ inactive' = [inactive EXCEPT ![at[t]] = TRUE] /\ Goes(t, "hold", "out", Null)
  BY DEF Release
<1>2. at[t] \in Elements(s) /\ at[t] \in Objects
  BY <1>1 DEF OwnInv, Placed, Elements
<1>3. /\ thread' \in [Threads -> Places] /\ at' \in [Threads -> Link]
      /\ thread'[t] = "out" /\ at'[t] = Null
      /\ \A u \in Threads : u # t => thread'[u] = thread[u] /\ at'[u] = at[u]
  BY <1>1, GoesFields DEF Places, Link
<1>4. ListTypes' /\ Links(s)'
  BY <1>1, <1>3 DEF ListTypes, OwnInv, Links
<1>5. \A u \in Threads : Placed(s, u)'
  BY <1>1, <1>3 DEF OwnInv, Placed
<1>6. Owned(s)'
  <2>1. ASSUME NEW u \in Threads, u # t, thread[u] \in {"hold", "push"} PROVE at[u] # at[t]
    BY <1>1, <2>1 DEF OwnInv, Owned
  <2>2. ASSUME NEW p \in Objects
        PROVE  inactive'[p] <=> p \in Elements(s) /\ ~ \E u \in Threads : Holds(u, p)'
    <3>1. CASE p = at[t]
      <4>1. inactive'[p]
        BY <1>1, <1>2, <3>1 DEF ListTypes
      <4>2. \A u \in Threads : ~ Holds(u, p)'
        BY <1>3, <2>1, <3>1 DEF Holds
      <4> QED BY <1>2, <3>1, <4>1, <4>2
    <3>2. CASE p # at[t]
      <4>1. \A u \in Threads : Holds(u, p)' <=> Holds(u, p)
        BY <1>1, <1>3, <3>2 DEF Holds
      <4>2. inactive'[p] <=> inactive[p]
        BY <1>1, <3>2 DEF ListTypes
      <4> QED BY <4>1, <4>2 DEF OwnInv, Owned
    <3> QED BY <3>1, <3>2
  <2>3. \A u, v \in Threads : thread'[u] \in {"hold", "push"} /\ thread'[v] \in {"hold", "push"}
                               /\ at'[u] = at'[v] => u = v
    BY <1>3 DEF OwnInv, Owned
  <2> QED BY <2>2, <2>3 DEF Owned
<1>7. \A k \in 0..Len(s) : \A u \in Threads : u \in Beyond(s, k)' => u \in Beyond(s, k)
  BY <1>1, <1>3 DEF Beyond
<1>8. Crowd(s)'
  BY <1>7, CrowdStays DEF OwnInv
<1> QED BY <1>4, <1>5, <1>6, <1>8 DEF OwnInv

-----------------------------------------------------------------------------
\* A thread that finds every producer in use can make one: there are as many
\* as threads, and those that all others hold or make are fewer.
LEMMA ProducerLeft ==
    ASSUME ListTypes, NEW s \in Seq(Objects), OwnInv(s), NEW t \in Threads, thread[t] = "create"
    PROVE  Fresh # {}
<1> SUFFICES ASSUME Fresh = {} PROVE FALSE
  OBVIOUS
<1> DEFINE Pushers == { u \in Threads : thread[u] = "push" }
           Made == { at[u] : u \in Pushers }
<1>1. Objects \subseteq Elements(s) \cup Made
  <2> SUFFICES ASSUME NEW p \in Objects, p \notin Elements(s) PROVE p \in Made
    OBVIOUS
  <2>1. p # Null
    BY NullApart
  <2>2. p # listTail
    BY <2>1 DEF OwnInv, Links, Linked, Elements
  <2>3. \A q \in Objects : next[q] # p
    BY <2>1 DEF OwnInv, Links
  <2>4. PICK u \in Threads : at[u] = p
    BY <2>2, <2>3 DEF Fresh
  <2>5. thread[u] = "push"
    BY <2>1, <2>4 DEF OwnInv, Placed, ListTypes, Places
  <2> QED BY <2>4, <2>5
<1>2. IsFiniteSet(Elements(s)) /\ Cardinality(Elements(s)) <= Len(s)
  <2> DEFINE f == [i \in 1..Len(s) |-> s[i]]
  <2>1. f \in Surjection(1..Len(s), Elements(s))
    BY DEF Surjection, Elements
  <2>2. IsFiniteSet(1..Len(s)) /\ Cardinality(1..Len(s)) = Len(s)
    <3>1. PICK n \in Nat : n = Len(s)
      OBVIOUS
    <3>2. IsFiniteSet(1..n) /\ Cardinality(1..n) = n
      BY FS_Interval
    <3> QED BY <3>1, <3>2
  <2> HIDE DEF f
  <2> QED BY <2>1, <2>2, FS_Surjection
<1>3. IsFiniteSet(Pushers)
  BY ThreadsAssumption, FS_Subset
<1>4. IsFiniteSet(Made) /\ Cardinality(Made) <= Cardinality(Pushers)
  <2> DEFINE f == [u \in Pushers |-> at[u]]
  <2>1. f \in Surjection(Pushers, Made)
    BY DEF Surjection
  <2> HIDE DEF f, Pushers, Made
  <2> QED BY <1>3, <2>1, FS_Surjection
<1>5. Cardinality(Pushers) + 1 <= Cardinality(Threads) - Len(s)
  <2>1. Pushers \cup {t} \subseteq Beyond(s, Len(s)) /\ t \notin Pushers
    BY DEF Beyond
  <2>2. Cardinality(Pushers \cup {t}) = Cardinality(Pushers) + 1
    BY <1>3, <2>1, FS_AddElement
  <2>3. Cardinality(Pushers \cup {t}) <= Cardinality(Beyond(s, Len(s))) /\ Cardinality(Pushers) \in Nat
    BY <1>3, <2>1, BeyondFinite, FS_Subset, FS_CardinalityType
  <2>4. Cardinality(Beyond(s, Len(s))) <= Cardinality(Threads) - Len(s)
    BY DEF OwnInv, Crowd
  <2> QED BY <2>2, <2>3, <2>4, BeyondFinite
<1>6. Cardinality(Objects) = Cardinality(Threads) /\ Cardinality(Threads) \in Nat
  BY ThreadsAssumption, FS_CardinalityType, FS_Interval DEF Objects
<1>7. Cardinality(Objects) <= Cardinality(Elements(s)) + Cardinality(Made)
  <2> HIDE DEF Made
  <2>1. IsFiniteSet(Elements(s) \cup Made)
    BY <1>2, <1>4, FS_Union
  <2>2. Cardinality(Objects) <= Cardinality(Elements(s) \cup Made)
    BY <1>1, <2>1, FS_Subset
  <2>3. Cardinality(Elements(s) \cup Made)
          = Cardinality(Elements(s)) + Cardinality(Made) - Cardinality(Elements(s) \cap Made)
    BY <1>2, <1>4, FS_Union
  <2>4. IsFiniteSet(Elements(s) \cap Made)
    BY <1>2, FS_Subset
  <2>5. /\ Cardinality(Elements(s) \cap Made) \in Nat /\ Cardinality(Elements(s)) \in Nat
        /\ Cardinality(Made) \in Nat /\ Cardinality(Elements(s) \cup Made) \in Nat
    BY <1>2, <1>4, <2>1, <2>4, FS_CardinalityType
  <2> QED BY <1>6, <2>2, <2>3, <2>5
<1>8. Cardinality(Elements(s)) \in Nat /\ Cardinality(Made) \in Nat /\ Cardinality(Pushers) \in Nat
  BY <1>2, <1>3, <1>4, FS_CardinalityType
<1> HIDE DEF Pushers, Made
<1> QED BY <1>2, <1>4, <1>5, <1>6, <1>7, <1>8

LEMMA CreateStep ==
    ASSUME ListTypes, NEW s \in Seq(Objects), OwnInv(s), NEW t \in Threads, Create(t)
    PROVE  /\ ListTypes' /\ OwnInv(s)'
           /\ \A q \in Elements(s) : next'[q] = next[q]
<1>1. thread[t] = "create" /\ UNCHANGED <<listTail, inactive>> /\ producerCount' = producerCount + 1
  BY DEF Create, Goes
<1>2. PICK p \in Fresh : p = CHOOSE x \in Fresh : \A q \in Fresh : x <= q
  <2>1. Fresh \subseteq Nat /\ Fresh # {}
    BY <1>1, ProducerLeft DEF Fresh, Objects
  <2>2. \E x \in Fresh : \A q \in Fresh : x <= q
    BY <2>1, Least
  <2> QED BY <2>2
<1>3. p \in Objects /\ p # listTail /\ (\A q \in Objects : next[q] # p) /\ \A u \in Threads : at[u] # p
  BY DEF Fresh
<1>4. p \in Link
  BY <1>3 DEF Link
<1>5. /\ thread' \in [Threads -> Places] /\ at' \in [Threads -> Link]
      /\ thread'[t] = "push" /\ at'[t] = p
      /\ \A u \in Threads : u # t => thread'[u] = thread[u] /\ at'[u] = at[u]
  <2>1. Goes(t, "create", "push", p)
    BY <1>2 DEF Create
  <2> QED BY <1>4, <2>1, GoesFields DEF Places
<1>6. next' = [next EXCEPT ![p] = listTail]
  BY <1>5 DEF Create
<1>7. /\ next' \in [Objects -> Link] /\ next'[p] = listTail
      /\ \A q \in Objects : q # p => next'[q] = next[q]
  BY <1>3, <1>6 DEF ListTypes
<1>8. p \notin Elements(s)
  <2> SUFFICES ASSUME NEW i \in 1..Len(s), p = s[i] PROVE FALSE
    BY DEF Elements
  <2>1. i # 1
    BY <1>3 DEF OwnInv, Links, Linked
  <2>2. PICK j \in 1..Len(s) : j + 1 = i /\ j # Len(s)
    BY <2>1
  <2>3. next[s[j]] = s[i] /\ s[j] \in Objects
    BY <2>2 DEF OwnInv, Links, Linked
  <2> QED BY <1>3, <2>3
<1>9. listTail \in Elements(s) \cup {Null} /\ Elements(s) \subseteq Objects
  BY DEF OwnInv, Links, Linked, Elements
<1>10. \A q \in Elements(s) : next'[q] = next[q]
  BY <1>7, <1>8, <1>9
<1>11. ListTypes'
  BY <1>1, <1>5, <1>7 DEF ListTypes
<1>12. Links(s)'
  <2>1. Linked(s, listTail', next')
    BY <1>1, <1>10 DEF OwnInv, Links, Linked, Elements
  <2>2. \A q \in Objects : next'[q] \in Elements(s) \cup {Null}
    BY <1>7, <1>9 DEF OwnInv, Links
  <2> QED BY <1>1, <2>1, <2>2 DEF OwnInv, Links, ListTypes
<1>13. \A u \in Threads : Placed(s, u)'
  BY <1>1, <1>3, <1>5, <1>8 DEF OwnInv, Placed, ListTypes
<1>14. Owned(s)'
  <2>1. \A u \in Threads : \A q : Holds(u, q)' <=> Holds(u, q)
    BY <1>1, <1>5 DEF Holds
  <2>2. \A u, v \in Threads : thread'[u] \in {"hold", "push"} /\ thread'[v] \in {"hold", "push"}
                               /\ at'[u] = at'[v] => u = v
    BY <1>3, <1>5 DEF OwnInv, Owned
  <2> QED BY <1>1, <2>1, <2>2 DEF OwnInv, Owned
<1>15. Crowd(s)'
  <2>1. \A k \in 0..Len(s) : \A u \in Threads : u \in Beyond(s, k)' => u \in Beyond(s, k)
    BY <1>1, <1>5 DEF Beyond
  <2> QED BY <2>1, CrowdStays DEF OwnInv
<1> QED BY <1>10, <1>11, <1>12, <1>13, <1>14, <1>15 DEF OwnInv

\* The compare-and-swap of the tail that fails.
LEMMA PushFails ==
    ASSUME ListTypes, NEW s \in Seq(Objects), OwnInv(s), NEW t \in Threads, Push(t),
           listTail # next[at[t]]
    PROVE  /\ ListTypes' /\ OwnInv(s)'
           /\ \A q \in Elements(s) : next'[q] = next[q]
<1>1. /\ thread[t] = "push" /\ UNCHANGED <<listTail, inactive, producerCount, thread, at>>
      /\ next' = [next EXCEPT ![at[t]] = listTail]
  BY DEF Push, producing
<1>2. at[t] \in Objects /\ at[t] \notin Elements(s)
  BY <1>1 DEF OwnInv, Placed
<1>3. /\ next' \in [Objects -> Link] /\ next'[at[t]] = listTail
      /\ \A q \in Objects : q # at[t] => next'[q] = next[q]
  BY <1>1, <1>2 DEF ListTypes
<1>4. listTail \in Elements(s) \cup {Null} /\ Elements(s) \subseteq Objects
  BY DEF OwnInv, Links, Linked, Elements
<1>5. \A q \in Elements(s) : next'[q] = next[q]
  BY <1>2, <1>3, <1>4
<1>6. ListTypes'
  BY <1>1, <1>3 DEF ListTypes
<1>7. Links(s)'
  <2>1. Linked(s, listTail', next')
    BY <1>1, <1>5 DEF OwnInv, Links, Linked, Elements
  <2>2. \A q \in Objects : next'[q] \in Elements(s) \cup {Null}
    BY <1>3, <1>4 DEF OwnInv, Links
  <2> QED BY <1>1, <2>1, <2>2 DEF OwnInv, Links
<1>8. (\A u \in Threads : Placed(s, u)') /\ Owned(s)' /\ Crowd(s)'
  BY <1>1 DEF OwnInv, Placed, Owned, Holds, Crowd, Beyond
<1> QED BY <1>5, <1>6, <1>7, <1>8 DEF OwnInv

\* And the one that does not: one more is first, and its thread is beyond none any more.
LEMMA PushWorks ==
    ASSUME ListTypes, NEW s \in Seq(Objects), OwnInv(s), NEW t \in Threads, Push(t),
           listTail = next[at[t]]
    PROVE  ListTypes' /\ UNCHANGED next
           /\ \E r \in Seq(Objects) : OwnInv(r)' /\ Elements(s) \subseteq Elements(r)
<1>1. PICK n \in Objects \ Elements(s) : n = at[t] /\ thread[t] = "push" /\ producerCount >= 1
  BY DEF Push, OwnInv, Placed
<1>2. /\ UNCHANGED <<next, inactive, producerCount>> /\ listTail' = n /\ next[n] = listTail
      /\ Goes(t, "push", "hold", n)
  BY <1>1 DEF Push
<1>3. /\ thread' \in [Threads -> Places] /\ at' \in [Threads -> Link]
      /\ thread'[t] = "hold" /\ at'[t] = n
      /\ \A u \in Threads : u # t => thread'[u] = thread[u] /\ at'[u] = at[u]
  BY <1>2, GoesFields DEF Places, Link
<1>4. PICK r \in Seq(Objects) :
        /\ Len(r) = Len(s) + 1 /\ r[1] = n /\ \A i \in 1..Len(s) : r[i + 1] = s[i]
        /\ Linked(r, n, next) /\ Elements(r) = Elements(s) \cup {n}
  BY <1>2, Pushed DEF OwnInv, Links
<1>5. ListTypes'
  BY <1>2, <1>3 DEF ListTypes, Link
<1>6. Links(r)'
  BY <1>1, <1>2, <1>4 DEF OwnInv, Links
<1>7. ASSUME NEW u \in Threads PROVE Placed(r, u)'
  <2>1. CASE u = t
    BY <1>3, <1>4, <2>1 DEF Placed
  <2>2. CASE u # t
    <3>1. thread[u] = "push" => at[u] # n
      BY <1>1, <2>2 DEF OwnInv, Owned
    <3> QED BY <1>2, <1>3, <1>4, <2>2, <3>1 DEF OwnInv, Placed
  <2> QED BY <2>1, <2>2
<1>8. Owned(r)'
  <2>1. ASSUME NEW p \in Objects
        PROVE  inactive'[p] <=> p \in Elements(r) /\ ~ \E u \in Threads : Holds(u, p)'
    <3>1. CASE p = n
      BY <1>1, <1>2, <1>3, <3>1 DEF OwnInv, Owned, Holds
    <3>2. CASE p # n
      <4>1. \A u \in Threads : Holds(u, p)' <=> Holds(u, p)
        BY <1>1, <1>3, <3>2 DEF Holds
      <4> QED BY <1>2, <1>4, <3>2, <4>1 DEF OwnInv, Owned
    <3> QED BY <3>1, <3>2
  <2>2. \A u, v \in Threads : thread'[u] \in {"hold", "push"} /\ thread'[v] \in {"hold", "push"}
                               /\ at'[u] = at'[v] => u = v
    BY <1>1, <1>3 DEF OwnInv, Owned
  <2> QED BY <2>1, <2>2 DEF Owned
<1>9. ASSUME NEW k \in 0..Len(r) PROVE Cardinality(Beyond(r, k)') <= Cardinality(Threads) - k
  <2>1. CASE k = 0
    <3>1. Beyond(r, k)' \subseteq Threads
      BY DEF Beyond
    <3> QED BY <2>1, <3>1, ThreadsAssumption, FS_Subset, FS_CardinalityType
  <2>2. CASE k # 0
    <3>1. PICK l \in 0..Len(s) : l = k - 1
      BY <1>4, <2>2
    <3>2. t \in Beyond(s, l)
      BY <1>1 DEF Beyond
    <3>3. Beyond(r, k)' \subseteq Beyond(s, l) \ {t}
      <4> SUFFICES ASSUME NEW u \in Threads, u \in Beyond(r, k)' PROVE u \in Beyond(s, l) /\ u # t
        BY DEF Beyond
      <4>1. u # t
        <5> SUFFICES ASSUME u = t PROVE FALSE
          OBVIOUS
        <5>1. PICK i \in 1..Len(r) : i > k /\ r[i] = n
          BY <1>3 DEF Beyond
        <5> QED BY <1>4, <3>1, <5>1 DEF Linked
      <4>2. CASE thread[u] \in {"create", "push"}
        BY <4>1, <4>2 DEF Beyond
      <4>3. CASE thread[u] \notin {"create", "push"}
        <5>1. PICK i \in 1..Len(r) : i > k /\ r[i] = at[u] /\ thread[u] \in {"look", "swap", "hold"}
          BY <1>3, <4>1, <4>3 DEF Beyond
        <5>2. PICK j \in 1..Len(s) : j = i - 1
          BY <1>4, <3>1, <5>1
        <5>3. s[j] = at[u] /\ j > l
          BY <1>4, <3>1, <5>1, <5>2
        <5> QED BY <4>1, <5>1, <5>3 DEF Beyond
      <4> QED BY <4>1, <4>2, <4>3
    <3>4. IsFiniteSet(Beyond(s, l) \ {t}) /\ Cardinality(Beyond(s, l) \ {t}) = Cardinality(Beyond(s, l)) - 1
      BY <3>2, BeyondFinite, FS_RemoveElement
    <3>5. /\ Cardinality(Beyond(r, k)') <= Cardinality(Beyond(s, l) \ {t})
          /\ Cardinality(Beyond(r, k)') \in Nat
      BY <3>3, <3>4, FS_Subset, FS_CardinalityType
    <3>6. Cardinality(Beyond(s, l)) <= Cardinality(Threads) - l
      BY DEF OwnInv, Crowd
    <3> QED BY <3>1, <3>4, <3>5, <3>6, BeyondFinite
  <2> QED BY <2>1, <2>2
<1>10. OwnInv(r)'
  BY <1>6, <1>7, <1>8, <1>9 DEF OwnInv, Crowd
<1> QED BY <1>2, <1>4, <1>5, <1>10

\* What a thread does leaves a list, which only grows and keeps its order.
LEMMA ThreadStepKeeps ==
    ASSUME ListTypes, NEW s \in Seq(Objects), OwnInv(s), NEW t \in Threads, Thread(t)
    PROVE  /\ ListTypes'
           /\ \E r \in Seq(Objects) : OwnInv(r)' /\ Elements(s) \subseteq Elements(r)
           /\ \A q \in Elements(s) : next'[q] = next[q]
<1>1. CASE StartToken(t) \/ Look(t) \/ Recycle(t) \/ Release(t)
  <2>1. UNCHANGED next
    BY <1>1 DEF StartToken, Look, Recycle, Release, list
  <2> QED BY <1>1, <2>1, StartTokenStep, LookStep, RecycleStep, ReleaseStep
<1>2. CASE Create(t)
  BY <1>2, CreateStep
<1>3. CASE Push(t)
  BY <1>3, PushFails, PushWorks
<1>4. CASE Produce(t)
  <2>1. UNCHANGED <<listTail, next, inactive, producerCount, thread, at>>
    BY <1>4 DEF Produce, list, producing
  <2>2. ListTypes' /\ OwnInv(s)'
    BY <2>1 DEF ListTypes, OwnInv, Links, Placed, Owned, Holds, Crowd, Beyond
  <2> QED BY <2>1, <2>2
<1> QED BY <1>1, <1>2, <1>3, <1>4 DEF Thread

-----------------------------------------------------------------------------
\* A call that has brought nothing yet has gone round the list r it began with,
\* from its token's producer on.
Came(c, r) ==
    \E j, q \in 1..Len(r) :
        /\ token[c].current = r[j] /\ call[c].ptr = r[q]
        /\ \A i \in 1..Len(r) : (q > j /\ i >= j /\ i < q) \/ (q <= j /\ (i >= j \/ i < q))
                                  => r[i] \in call[c].seen
Empty(c, r) ==
    /\ Linked(r, call[c].tail, next)
    /\ call[c].listed = Elements(r)
    /\ consumer[c] = "round" => Came(c, r)
    /\ consumer[c] = "done" => call[c].listed \subseteq call[c].seen

InRound(s, c) ==
    /\ token[c].current \in Elements(s) /\ call[c].ptr \in Elements(s) /\ call[c].tail \in Elements(s)
    /\ call[c].left >= 1
RoundInv(s, c) ==
    /\ token[c].desired \in Elements(s) \cup {Null} /\ token[c].current \in Elements(s) \cup {Null}
    /\ token[c].desired # Null => token[c].current # Null
    /\ consumer[c] = "round" => InRound(s, c)
    /\ consumer[c] \in {"round", "done"} /\ call[c].count = 0 =>
         \E r \in Seq(Objects) : Elements(r) \subseteq Elements(s) /\ Empty(c, r)

RingInv ==
    /\ ListTypes /\ RoundTypes
    /\ \E s \in Seq(Objects) : OwnInv(s) /\ \A c \in Consumers : RoundInv(s, c)

\* A consumer that stands still is not disturbed by a list that grows.
LEMMA RoundStays ==
    ASSUME NEW s, NEW r, NEW c, RoundInv(s, c), Elements(s) \subseteq Elements(r),
           \A q \in Elements(s) : next'[q] = next[q],
           token'[c] = token[c], call'[c] = call[c], consumer'[c] = consumer[c]
    PROVE  RoundInv(r, c)'
<1>1. ASSUME consumer[c] \in {"round", "done"}, call[c].count = 0
      PROVE  \E l \in Seq(Objects) : Elements(l) \subseteq Elements(r) /\ Empty(c, l)'
  <2>1. PICK l \in Seq(Objects) : Elements(l) \subseteq Elements(s) /\ Empty(c, l)
    BY <1>1 DEF RoundInv
  <2>2. Linked(l, call'[c].tail, next')
    BY <2>1 DEF Empty, Linked, Elements
  <2>3. Came(c, l) => Came(c, l)'
    BY DEF Came
  <2>4. Empty(c, l)'
    BY <2>1, <2>2, <2>3 DEF Empty
  <2> QED BY <2>1, <2>4
<1>2. consumer[c] = "round" => InRound(r, c)'
  BY DEF RoundInv, InRound
<1> QED BY <1>1, <1>2 DEF RoundInv

LEMMA ThreadKeepsRing == ASSUME RingInv, NEW t \in Threads, Thread(t) PROVE RingInv'
<1>1. PICK s \in Seq(Objects) : OwnInv(s) /\ \A c \in Consumers : RoundInv(s, c)
  BY DEF RingInv
<1>2. ListTypes /\ RoundTypes
  BY DEF RingInv
<1>3. PICK r \in Seq(Objects) : OwnInv(r)' /\ Elements(s) \subseteq Elements(r)
  BY <1>1, <1>2, ThreadStepKeeps
<1>4. ListTypes' /\ \A q \in Elements(s) : next'[q] = next[q]
  BY <1>1, <1>2, ThreadStepKeeps
<1>5. UNCHANGED consuming
  BY DEF Thread, StartToken, Look, Recycle, Create, Push, Produce, Release
<1>6. RoundTypes'
  <2>1. pending' \in [Objects -> Nat]
    <3>1. CASE Produce(t)
      <4>1. at[t] \in Objects
        BY <1>1, <3>1 DEF Produce, OwnInv, Placed, Elements
      <4> QED BY <1>2, <3>1, <4>1 DEF Produce, RoundTypes
    <3>2. CASE ~ Produce(t)
      BY <1>2, <3>2 DEF Thread, StartToken, Look, Recycle, Create, Push, Release, RoundTypes
    <3> QED BY <3>1, <3>2
  <2> QED BY <1>2, <1>5, <2>1 DEF RoundTypes, consuming
<1>7. \A c \in Consumers : RoundInv(r, c)'
  BY <1>1, <1>3, <1>4, <1>5, RoundStays DEF consuming
<1> QED BY <1>3, <1>4, <1>6, <1>7 DEF RingInv

-----------------------------------------------------------------------------
\* The steps of a consumer, on the list as it is.
OnList(s) == ListTypes /\ RoundTypes /\ Links(s)

LEMMA Remainder == ASSUME NEW a \in Int, NEW b \in Nat, b >= 1 PROVE a % b \in 0..(b - 1)
OBVIOUS

LEMMA ListNotEmpty ==
    ASSUME NEW s \in Seq(Objects), OnList(s), listTail # Null
    PROVE  1 \in 1..Len(s) /\ listTail \in Elements(s) /\ producerCount \in Nat /\ producerCount >= 1
BY DEF OnList, Links, Linked, Elements, ListTypes

MovedTo(tok, p, g) == [tok EXCEPT !.desired = p, !.current = p, !.known = g, !.consumed = 0]
LEMMA TokenMoved ==
    ASSUME NEW tok \in Tokens, NEW p \in Link, NEW g \in Nat
    PROVE  /\ MovedTo(tok, p, g) \in Tokens
           /\ MovedTo(tok, p, g).current = p /\ MovedTo(tok, p, g).desired = p
BY DEF Tokens, MovedTo

LEMMA RotatedOn ==
    ASSUME NEW s \in Seq(Objects), OnList(s), listTail # Null, NEW tok \in Tokens,
           tok.desired \in Elements(s) \cup {Null}
    PROVE  /\ Rotated(tok) \in Tokens
           /\ Rotated(tok).current \in Elements(s) /\ Rotated(tok).desired \in Elements(s)
<1>1. listTail \in Elements(s) /\ producerCount \in Nat /\ producerCount >= 1
  BY ListNotEmpty
<1>2. globalOffset \in Nat /\ OffsetMod \in Nat /\ OffsetMod >= 1 /\ Linked(s, listTail, next)
  BY ListAssumption DEF OnList, RoundTypes, Links
<1>3. Elements(s) \subseteq Objects
  BY DEF Elements
<1>4. PICK known : known = IF tok.known = None THEN OffsetMod - 1 ELSE tok.known
  OBVIOUS
<1>5. known \in Int
  BY <1>2, <1>4 DEF Tokens
<1>6. PICK back \in Nat : back = producerCount - 1 - (tok.initial % producerCount)
  <2>1. tok.initial \in Int
    BY DEF Tokens
  <2>2. tok.initial % producerCount \in 0..(producerCount - 1)
    BY <1>1, <2>1, Remainder
  <2> QED BY <1>1, <2>2
<1>7. PICK home : home = IF tok.desired = Null THEN Walked(listTail, back) ELSE tok.desired
  OBVIOUS
<1>8. home \in Elements(s)
  BY <1>1, <1>2, <1>7, WalkStays
<1>9. PICK delta \in Nat :
        delta = ((globalOffset + OffsetMod - known) % OffsetMod) % producerCount
  <2>1. globalOffset + OffsetMod - known \in Int
    BY <1>2, <1>5
  <2>2. PICK m \in Int : m = (globalOffset + OffsetMod - known) % OffsetMod
    <3>1. (globalOffset + OffsetMod - known) % OffsetMod \in 0..(OffsetMod - 1)
      BY <1>2, <2>1, Remainder
    <3> QED BY <1>2, <3>1
  <2>3. m % producerCount \in 0..(producerCount - 1)
    BY <1>1, <2>2, Remainder
  <2> QED BY <1>1, <2>2, <2>3
<1>10. PICK there : there = Walked(home, delta)
  OBVIOUS
<1>11. there \in Elements(s)
  BY <1>2, <1>8, <1>9, <1>10, WalkStays
<1>12. Rotated(tok) = MovedTo(tok, there, globalOffset)
  BY <1>4, <1>6, <1>7, <1>9, <1>10 DEF Rotated, MovedTo
<1>13. PICK g \in Nat, p \in Link : g = globalOffset /\ p = there
  BY <1>2, <1>3, <1>11 DEF Link
<1>14. /\ MovedTo(tok, p, g) \in Tokens
       /\ MovedTo(tok, p, g).current = p /\ MovedTo(tok, p, g).desired = p
  BY TokenMoved
<1> QED BY <1>11, <1>12, <1>13, <1>14

\* What a consumer finds on the list is what is on it.
LEMMA ListedIs ==
    ASSUME NEW s \in Seq(Objects), Linked(s, listTail, next), s # <<>>,
           Len(s) <= Cardinality(Objects), Cardinality(Objects) \in Nat
    PROVE  \A p \in Objects : InList(p) <=> p \in Elements(s)
<1>1. listTail = s[1] /\ listTail # Null /\ listTail \in Elements(s)
  BY NullApart DEF Linked, Elements
<1>2. ASSUME NEW n \in 0..Cardinality(Objects) PROVE Walked(listTail, n) \in Elements(s)
  <2>1. n \in Nat
    BY <1>2
  <2> QED BY <1>1, <2>1, WalkStays
<1>3. ASSUME NEW i \in 1..Len(s)
      PROVE  \E n \in 0..Cardinality(Objects) : Walked(listTail, n) = s[i]
  <2>1. i - 1 \in 0..Cardinality(Objects)
    OBVIOUS
  <2> QED BY <2>1, WalkReaches
<1> QED BY <1>1, <1>2, <1>3 DEF InList, Elements

\* The list is not longer than there are producers.
LEMMA ListShort ==
    ASSUME NEW s \in Seq(Objects), OwnInv(s)
    PROVE  Len(s) <= Cardinality(Objects) /\ Cardinality(Objects) \in Nat
<1>1. Cardinality(Objects) = Cardinality(Threads) /\ Cardinality(Threads) \in Nat
  BY ThreadsAssumption, FS_CardinalityType, FS_Interval DEF Objects
<1>2. PICK k \in 0..Len(s) : k = Len(s)
  OBVIOUS
<1>3. Cardinality(Beyond(s, k)) <= Cardinality(Threads) - k
  BY DEF OwnInv, Crowd
<1> QED BY <1>1, <1>2, <1>3, BeyondFinite

-----------------------------------------------------------------------------
LEMMA TokenUsed ==
    ASSUME NEW tok \in Tokens, NEW n \in Nat
    PROVE  /\ [tok EXCEPT !.consumed = n] \in Tokens
           /\ [tok EXCEPT !.consumed = n].current = tok.current
           /\ [tok EXCEPT !.consumed = n].desired = tok.desired
BY DEF Tokens

LEMMA TakenIs ==
    ASSUME NEW p \in Objects, pending \in [Objects -> Nat], NEW max \in Nat, NEW n, n = Taken(p, max),
           Take(p, n)
    PROVE  n \in Nat /\ n <= max /\ n <= pending[p] /\ pending' \in [Objects -> Nat]
BY DEF Taken, Take

\* The token a dequeue starts with, and the start.
LEMMA BeginToken ==
    ASSUME NEW s \in Seq(Objects), OnList(s), listTail # Null, NEW c \in Consumers, RoundInv(s, c),
           NEW tok,
           tok = IF token[c].desired = Null \/ token[c].known # globalOffset
                   THEN Rotated(token[c]) ELSE token[c]
    PROVE  tok \in Tokens /\ tok.current \in Elements(s) /\ tok.desired \in Elements(s)
<1>1. token[c] \in Tokens /\ token[c].desired \in Elements(s) \cup {Null}
      /\ token[c].current \in Elements(s) \cup {Null}
      /\ (token[c].desired # Null => token[c].current # Null)
  BY DEF OnList, RoundTypes, RoundInv
<1> QED BY <1>1, RotatedOn

CallOf(p, q, left, n, L, S) ==
    [ptr |-> p, tail |-> q, left |-> left, count |-> n, listed |-> L, seen |-> S]
LEMMA CallBegun ==
    ASSUME NEW p \in Link, NEW q \in Link, NEW left \in Nat, NEW n \in Nat,
           NEW L \in SUBSET Objects, NEW S \in SUBSET Objects, NEW rec, rec = CallOf(p, q, left, n, L, S)
    PROVE  /\ rec \in Calls /\ rec.ptr = p /\ rec.tail = q /\ rec.left = left
           /\ rec.count = n /\ rec.listed = L /\ rec.seen = S
BY DEF Calls, CallOf

LEMMA NoCallType == NoCall \in Calls
BY DEF NoCall, Calls, Link

\* One consumer's part of the state is replaced, and the list is as it was.
Stepped(c, tok, rec, to) ==
    /\ token' = [token EXCEPT ![c] = tok] /\ call' = [call EXCEPT ![c] = rec]
    /\ consumer' = [consumer EXCEPT ![c] = to]

LEMMA SteppedKeeps ==
    ASSUME NEW s \in Seq(Objects), ListTypes, RoundTypes, OwnInv(s),
           \A d \in Consumers : RoundInv(s, d),
           UNCHANGED <<list, producing>>, pending' \in [Objects -> Nat], globalOffset' \in Nat,
           NEW c \in Consumers, NEW tok \in Tokens, NEW rec \in Calls,
           NEW to \in {"idle", "round", "done"}, Stepped(c, tok, rec, to),
           tok.desired \in Elements(s) \cup {Null}, tok.current \in Elements(s) \cup {Null},
           tok.desired # Null => tok.current # Null,
           to = "round" => InRound(s, c)',
           to \in {"round", "done"} /\ rec.count = 0 =>
              \E r \in Seq(Objects) : Elements(r) \subseteq Elements(s) /\ Empty(c, r)'
    PROVE  RingInv'
<1>1. /\ token'[c] = tok /\ call'[c] = rec /\ consumer'[c] = to
      /\ token' \in [Consumers -> Tokens] /\ call' \in [Consumers -> Calls]
      /\ consumer' \in [Consumers -> {"idle", "round", "done"}]
      /\ \A d \in Consumers : d # c => token'[d] = token[d] /\ call'[d] = call[d]
                                       /\ consumer'[d] = consumer[d]
  BY DEF Stepped, RoundTypes
<1>2. ListTypes' /\ RoundTypes'
  BY <1>1 DEF ListTypes, RoundTypes, list, producing
<1>3. OwnInv(s)'
  BY DEF OwnInv, Links, Placed, Owned, Holds, Crowd, Beyond, list, producing
<1>4. RoundInv(s, c)'
  BY <1>1 DEF RoundInv
<1>5. ASSUME NEW d \in Consumers, d # c PROVE RoundInv(s, d)'
  BY <1>1, <1>5, RoundStays DEF list
<1> QED BY <1>2, <1>3, <1>4, <1>5 DEF RingInv

LEMMA BeginStep ==
    ASSUME RingInv, NEW c \in Consumers, NEW max \in {1, MaxBulk}, Begin(c, max)
    PROVE  RingInv'
<1>1. PICK s \in Seq(Objects) : OwnInv(s) /\ \A d \in Consumers : RoundInv(s, d)
  BY DEF RingInv
<1>2. ListTypes /\ RoundTypes /\ Linked(s, listTail, next) /\ OnList(s) /\ listTail # Null
  BY <1>1 DEF RingInv, OwnInv, Links, OnList, Begin
<1>3. Elements(s) \subseteq Objects /\ max \in Nat /\ max >= 1
  BY ListAssumption DEF Elements
<1>4. PICK tok \in Tokens :
        /\ tok.current \in Elements(s) /\ tok.desired \in Elements(s)
        /\ tok = IF token[c].desired = Null \/ token[c].known # globalOffset
                   THEN Rotated(token[c]) ELSE token[c]
  <2>1. PICK tok : tok = IF token[c].desired = Null \/ token[c].known # globalOffset
                           THEN Rotated(token[c]) ELSE token[c]
    OBVIOUS
  <2> QED BY <1>1, <1>2, <2>1, BeginToken
<1>5. PICK n : n = Taken(tok.current, max)
  OBVIOUS
<1>7. PICK after : after = [tok EXCEPT !.consumed = IF kind[c] = "bulk" /\ @ + n > Quota THEN Quota ELSE @ + n]
  OBVIOUS
<1>8. PICK rec : rec = IF n = max THEN NoCall ELSE
          [ptr |-> After(tok.current), tail |-> listTail, left |-> max - n, count |-> n,
           listed |-> { p \in Objects : InList(p) }, seen |-> {tok.current}]
  OBVIOUS
<1>9. PICK to \in {"idle", "round", "done"} : to = IF n = max THEN "idle" ELSE "round"
  OBVIOUS
<1>10. /\ Take(tok.current, n) /\ Stepped(c, after, rec, to) /\ UNCHANGED <<list, producing, kind>>
       /\ globalOffset' = IF n = max /\ ReachesQuota(c, after)
                            THEN (globalOffset + 1) % OffsetMod ELSE globalOffset
  BY <1>4, <1>5, <1>7, <1>8, <1>9 DEF Begin, Stepped
<1>11. n \in Nat /\ n <= max /\ pending' \in [Objects -> Nat]
  BY <1>2, <1>3, <1>4, <1>5, <1>10, TakenIs DEF RoundTypes
<1>12. globalOffset' \in Nat
  <2>1. globalOffset \in Nat /\ OffsetMod \in Nat /\ OffsetMod >= 1
    BY <1>2, ListAssumption DEF RoundTypes
  <2>2. (globalOffset + 1) % OffsetMod \in 0..(OffsetMod - 1)
    BY <2>1, Remainder
  <2> QED BY <1>10, <2>1, <2>2
<1>13. after \in Tokens /\ after.current = tok.current /\ after.desired = tok.desired
  <2>1. tok.consumed \in Nat /\ Quota \in Nat
    BY ListAssumption DEF Tokens
  <2>2. PICK m \in Nat : m = IF kind[c] = "bulk" /\ tok.consumed + n > Quota THEN Quota ELSE tok.consumed + n
    BY <1>11, <2>1
  <2>3. after = [tok EXCEPT !.consumed = m]
    BY <1>7, <2>2
  <2> QED BY <2>3, TokenUsed
<1>14. PICK j \in 1..Len(s) : tok.current = s[j]
  BY <1>4 DEF Elements
<1>15. /\ After(s[j]) \in Elements(s) /\ (j # Len(s) => After(s[j]) = s[j + 1])
       /\ listTail = s[1] /\ 1 \in 1..Len(s) /\ listTail \in Elements(s) /\ s # <<>>
       /\ (j = Len(s) => After(s[j]) = s[1])
  <2>1. listTail = s[1] /\ 1 \in 1..Len(s) /\ s # <<>>
    BY <1>2, <1>14 DEF Linked
  <2>2. j = Len(s) => next[s[j]] = Null
    BY <1>2 DEF Linked
  <2> QED BY <1>2, <2>1, <2>2, AfterOnList DEF After, Elements
<1>16. \A p \in Objects : InList(p) <=> p \in Elements(s)
  BY <1>1, <1>2, <1>15, ListShort, ListedIs
<1>17. PICK listed : listed = { p \in Objects : InList(p) }
  OBVIOUS
<1>18. listed = Elements(s)
  BY <1>3, <1>16, <1>17
<1>19. n # max => /\ rec \in Calls /\ rec.ptr = After(s[j]) /\ rec.tail = listTail
                  /\ rec.left = max - n /\ rec.listed = Elements(s) /\ rec.seen = {s[j]}
  <2> SUFFICES ASSUME n # max
               PROVE  /\ rec \in Calls /\ rec.ptr = After(s[j]) /\ rec.tail = listTail
                      /\ rec.left = max - n /\ rec.listed = Elements(s) /\ rec.seen = {s[j]}
    OBVIOUS
  <2>1. PICK left \in Nat : left = max - n
    BY <1>3, <1>11
  <2>2. PICK had \in SUBSET Objects : had = {s[j]}
    <3>1. s[j] \in Objects
      OBVIOUS
    <3>2. {s[j]} \in SUBSET Objects
      BY <3>1
    <3> QED BY <3>2
  <2>3. PICK p \in Link, q \in Link : p = After(s[j]) /\ q = listTail
    BY <1>3, <1>15 DEF Link
  <2>4. rec = CallOf(p, q, left, n, listed, had)
    BY <1>8, <1>14, <1>17, <2>1, <2>2, <2>3 DEF CallOf
  <2>5. listed \in SUBSET Objects
    BY <1>3, <1>18
  <2>6. PICK L \in SUBSET Objects, m \in Nat : L = listed /\ m = n
    BY <1>11, <2>5
  <2>7. rec = CallOf(p, q, left, m, L, had)
    BY <2>4, <2>6
  <2>8. /\ rec \in Calls /\ rec.ptr = p /\ rec.tail = q /\ rec.left = left
        /\ rec.listed = L /\ rec.seen = had
    BY <2>7, CallBegun
  <2> QED BY <1>18, <2>1, <2>2, <2>3, <2>6, <2>8
<1>20. rec \in Calls
  BY <1>8, <1>19, NoCallType
<1>21. token'[c] = after /\ call'[c] = rec /\ consumer'[c] = to
  BY <1>2, <1>10 DEF Stepped, RoundTypes
<1>22. to = "round" => InRound(s, c)'
  BY <1>3, <1>4, <1>9, <1>11, <1>13, <1>15, <1>19, <1>21 DEF InRound
<1>23. to # "idle" => Empty(c, s)'
  <2> SUFFICES ASSUME n # max PROVE Empty(c, s)'
    BY <1>9
  <2>1. PICK q \in 1..Len(s) : q = IF j = Len(s) THEN 1 ELSE j + 1
    BY <1>15
  <2>2. call'[c].ptr = s[q] /\ token'[c].current = s[j] /\ call'[c].seen = {s[j]}
    BY <1>13, <1>14, <1>15, <1>19, <1>21, <2>1
  <2>3. Came(c, s)'
    BY <2>1, <2>2 DEF Came
  <2>4. next' = next /\ call'[c].tail = listTail /\ call'[c].listed = Elements(s) /\ consumer'[c] = "round"
    BY <1>9, <1>10, <1>19, <1>21 DEF list
  <2> QED BY <1>2, <2>3, <2>4 DEF Empty
<1>24. to \in {"round", "done"} /\ rec.count = 0 =>
         \E r \in Seq(Objects) : Elements(r) \subseteq Elements(s) /\ Empty(c, r)'
  BY <1>23
<1>25. after.current \in Elements(s) /\ after.desired \in Elements(s) /\ after.current # Null
  BY <1>3, <1>4, <1>13, NullApart
<1> QED BY <1>1, <1>2, <1>10, <1>11, <1>12, <1>13, <1>20, <1>22, <1>24, <1>25, SteppedKeeps

\* The producers after the token's, one by one.
CallMoved(rec, p, left, n, S) == [rec EXCEPT !.ptr = p, !.left = left, !.count = n, !.seen = S]
LEMMA CallGoesOn ==
    ASSUME NEW old \in Calls, NEW p \in Link, NEW left \in Nat, NEW n \in Nat, NEW S \in SUBSET Objects,
           NEW rec, rec = CallMoved(old, p, left, n, S)
    PROVE  /\ rec \in Calls /\ rec.ptr = p /\ rec.tail = old.tail /\ rec.left = left
           /\ rec.count = n /\ rec.listed = old.listed /\ rec.seen = S
BY DEF Calls, CallMoved

Served(tok, p, n) == [tok EXCEPT !.current = p, !.consumed = n]
LEMMA TokenServed ==
    ASSUME NEW tok \in Tokens, NEW p \in Link, NEW n \in Nat
    PROVE  /\ Served(tok, p, n) \in Tokens /\ Served(tok, p, n).current = p
           /\ Served(tok, p, n).desired = tok.desired
BY DEF Tokens, Served

\* One producer further round the list r, which is checked.
LEMMA CameOn ==
    ASSUME NEW r \in Seq(Objects), NEW c \in Consumers, Linked(r, call[c].tail, next), Came(c, r),
           call[c].ptr # token[c].current, UNCHANGED next,
           token'[c].current = token[c].current,
           call'[c].ptr = IF next[call[c].ptr] = Null THEN call[c].tail ELSE next[call[c].ptr],
           call'[c].seen = call[c].seen \cup {call[c].ptr}
    PROVE  Came(c, r)'
<1>1. PICK j \in 1..Len(r), q \in 1..Len(r) :
        /\ token[c].current = r[j] /\ call[c].ptr = r[q]
        /\ \A i \in 1..Len(r) : (q > j /\ i >= j /\ i < q) \/ (q <= j /\ (i >= j \/ i < q))
                                  => r[i] \in call[c].seen
  BY DEF Came
<1>2. q # j
  BY <1>1
<1>3. PICK x \in 1..Len(r) : x = IF q = Len(r) THEN 1 ELSE q + 1
  <2>1. 1 \in 1..Len(r) /\ (q # Len(r) => q + 1 \in 1..Len(r))
    OBVIOUS
  <2> QED BY <2>1
<1>4. call'[c].ptr = r[x]
  <2>1. CASE q = Len(r)
    <3>1. next[r[q]] = Null /\ call[c].tail = r[1]
      BY <2>1 DEF Linked
    <3> QED BY <1>1, <1>3, <2>1, <3>1
  <2>2. CASE q # Len(r)
    <3>1. next[r[q]] = r[q + 1] /\ r[q + 1] \in Objects
      BY <2>2 DEF Linked
    <3> QED BY <1>1, <1>3, <2>2, <3>1, NullApart
  <2> QED BY <2>1, <2>2
<1>5. ASSUME NEW i \in 1..Len(r), (x > j /\ i >= j /\ i < x) \/ (x <= j /\ (i >= j \/ i < x))
      PROVE  r[i] \in call'[c].seen
  <2>1. CASE i = q
    BY <1>1, <2>1
  <2>2. CASE i # q
    <3>1. (q > j /\ i >= j /\ i < q) \/ (q <= j /\ (i >= j \/ i < q))
      BY <1>2, <1>3, <1>5, <2>2
    <3> QED BY <1>1, <3>1
  <2> QED BY <2>1, <2>2
<1> QED BY <1>1, <1>4, <1>5 DEF Came

LEMMA RoundStep == ASSUME RingInv, NEW c \in Consumers, Round(c) PROVE RingInv'
<1>1. PICK s \in Seq(Objects) : OwnInv(s) /\ \A d \in Consumers : RoundInv(s, d)
  BY DEF RingInv
<1>2. /\ ListTypes /\ RoundTypes /\ Linked(s, listTail, next)
      /\ \A p \in Objects : next[p] \in Elements(s) \cup {Null}
      /\ consumer[c] = "round" /\ InRound(s, c) /\ call[c] \in Calls /\ token[c] \in Tokens
  BY <1>1 DEF RingInv, OwnInv, Links, Round, RoundInv, RoundTypes
<1>3. Elements(s) \subseteq Objects
  BY DEF Elements
<1>4. PICK p \in Objects : p = call[c].ptr /\ p \in Elements(s)
  BY <1>2, <1>3 DEF InRound
<1>5. call[c].left \in Nat /\ call[c].count \in Nat /\ call[c].seen \in SUBSET Objects /\ call[c].left >= 1
  BY <1>2 DEF Calls, InRound
<1>6. PICK n : n = Taken(p, call[c].left)
  OBVIOUS
<1>7. PICK to \in {"idle", "round", "done"} : to = IF n = call[c].left THEN "done" ELSE "round"
  OBVIOUS
<1>8. PICK tok : tok = IF n = 0 THEN token[c] ELSE [token[c] EXCEPT !.current = p, !.consumed = n]
  OBVIOUS
<1>9. /\ Take(p, n) /\ UNCHANGED <<list, producing, globalOffset, kind>>
      /\ consumer' = [consumer EXCEPT ![c] = to]
  BY <1>4, <1>6, <1>7 DEF Round
<1>10. n \in Nat /\ n <= call[c].left /\ pending' \in [Objects -> Nat]
  BY <1>2, <1>4, <1>5, <1>6, <1>9, TakenIs DEF RoundTypes
<1>11. PICK onto \in Link : onto = IF next[p] = Null THEN call[c].tail ELSE next[p]
  BY <1>2, <1>4 DEF ListTypes, Calls
<1>12. PICK left \in Nat, got \in Nat : left = call[c].left - n /\ got = call[c].count + n
  <2>1. call[c].left - n \in Nat /\ call[c].count + n \in Nat
    BY <1>5, <1>10
  <2> QED BY <2>1, Zenon
<1>13. PICK had \in SUBSET Objects : had = IF n < call[c].left THEN call[c].seen \cup {p} ELSE call[c].seen
  BY <1>4, <1>5
<1>14. PICK rec : rec = CallMoved(call[c], onto, left, got, had)
  OBVIOUS
<1>15. /\ rec \in Calls /\ rec.ptr = onto /\ rec.tail = call[c].tail /\ rec.left = left
       /\ rec.count = got /\ rec.listed = call[c].listed /\ rec.seen = had
  BY <1>2, <1>14, CallGoesOn
<1>16. tok \in Tokens /\ tok.desired = token[c].desired
       /\ (n = 0 => tok = token[c]) /\ (n # 0 => tok.current = p)
  <2>1. p \in Link
    BY DEF Link
  <2>2. tok = IF n = 0 THEN token[c] ELSE Served(token[c], p, n)
    BY <1>8 DEF Served
  <2> QED BY <1>2, <1>10, <2>1, <2>2, TokenServed
<1>17. token' = [token EXCEPT ![c] = tok]
  <2>1. token' = IF n = 0 THEN token ELSE [token EXCEPT ![c].current = p, ![c].consumed = n]
    BY <1>4, <1>6 DEF Round
  <2>2. CASE n = 0
    BY <1>2, <1>8, <2>1, <2>2 DEF RoundTypes
  <2>3. CASE n # 0
    BY <1>2, <1>8, <2>1, <2>3 DEF RoundTypes
  <2> QED BY <2>2, <2>3
<1>18. call' = [call EXCEPT ![c] = rec]
  <2>1. call' = [call EXCEPT ![c].ptr = onto, ![c].left = @ - n, ![c].count = @ + n,
                   ![c].seen = IF n < call[c].left THEN @ \cup {p} ELSE @]
    BY <1>4, <1>6, <1>11 DEF Round
  <2> QED BY <1>2, <1>12, <1>13, <1>14, <2>1 DEF RoundTypes, CallMoved
<1>19. Stepped(c, tok, rec, to)
  BY <1>9, <1>17, <1>18 DEF Stepped
<1>20. token'[c] = tok /\ call'[c] = rec /\ consumer'[c] = to
  BY <1>2, <1>19 DEF Stepped, RoundTypes
<1>21. to = "round" => InRound(s, c)'
  <2>1. onto \in Elements(s)
    BY <1>2, <1>4, <1>11 DEF InRound
  <2>2. to = "round" => left >= 1
    BY <1>5, <1>7, <1>10, <1>12
  <2>3. token'[c].current \in Elements(s)
    BY <1>2, <1>4, <1>16, <1>20 DEF InRound
  <2> QED BY <1>2, <1>15, <1>20, <2>1, <2>2, <2>3 DEF InRound
<1>22. to \in {"round", "done"} /\ rec.count = 0 =>
         \E r \in Seq(Objects) : Elements(r) \subseteq Elements(s) /\ Empty(c, r)'
  <2> SUFFICES ASSUME rec.count = 0
               PROVE  \E r \in Seq(Objects) : Elements(r) \subseteq Elements(s) /\ Empty(c, r)'
    OBVIOUS
  <2>1. n = 0 /\ call[c].count = 0 /\ to = "round"
    <3>1. got = 0 /\ got = call[c].count + n /\ n \in Nat /\ call[c].count \in Nat /\ call[c].left >= 1
      BY <1>5, <1>10, <1>12, <1>15
    <3>2. PICK m \in Nat : m = call[c].count
      BY <3>1
    <3>3. m = 0 /\ n = 0
      BY <3>1, <3>2
    <3> QED BY <1>5, <1>7, <3>2, <3>3
  <2>2. PICK r \in Seq(Objects) : Elements(r) \subseteq Elements(s) /\ Empty(c, r)
    BY <1>1, <1>2, <2>1 DEF RoundInv
  <2>3. Linked(r, call[c].tail, next) /\ Came(c, r) /\ call[c].listed = Elements(r)
    BY <1>2, <2>2 DEF Empty
  <2>4. /\ call'[c].ptr = IF next[call[c].ptr] = Null THEN call[c].tail ELSE next[call[c].ptr]
        /\ call'[c].seen = call[c].seen \cup {call[c].ptr}
        /\ token'[c].current = token[c].current /\ next' = next
    BY <1>4, <1>5, <1>9, <1>11, <1>13, <1>15, <1>16, <1>20, <2>1 DEF list
  <2>5. call[c].ptr # token[c].current
    BY DEF Round
  <2>6. Came(c, r)'
    BY <2>3, <2>4, <2>5, CameOn
  <2>7. Empty(c, r)'
    BY <1>15, <1>20, <2>1, <2>3, <2>4, <2>6 DEF Empty
  <2> QED BY <2>2, <2>7
<1>23. tok.current \in Elements(s) /\ tok.current # Null /\ tok.desired \in Elements(s) \cup {Null}
  <2>1. tok.current \in Elements(s)
    BY <1>2, <1>4, <1>16 DEF InRound
  <2> QED BY <1>1, <1>3, <1>16, <2>1, NullApart DEF RoundInv
<1>24. globalOffset' \in Nat /\ UNCHANGED <<list, producing>>
  BY <1>2, <1>9 DEF RoundTypes
<1> QED BY <1>1, <1>2, <1>10, <1>15, <1>16, <1>19, <1>21, <1>22, <1>23, <1>24, SteppedKeeps

\* The round is over when it is back at the token's producer.
LEMMA RoundEndsStep == ASSUME RingInv, NEW c \in Consumers, RoundEnds(c) PROVE RingInv'
<1>1. PICK s \in Seq(Objects) : OwnInv(s) /\ \A d \in Consumers : RoundInv(s, d)
  BY DEF RingInv
<1>2. ListTypes /\ RoundTypes /\ consumer[c] = "round" /\ call[c].ptr = token[c].current
  BY DEF RingInv, RoundEnds
<1>3. /\ UNCHANGED <<list, producing, pending, globalOffset, token, call>>
      /\ consumer' = [consumer EXCEPT ![c] = "done"]
  BY DEF RoundEnds
<1>4. token[c] \in Tokens /\ call[c] \in Calls
  BY <1>2 DEF RoundTypes
<1>5. Stepped(c, token[c], call[c], "done")
  BY <1>2, <1>3 DEF Stepped, RoundTypes
<1>6. call[c].count = 0 => \E r \in Seq(Objects) : Elements(r) \subseteq Elements(s) /\ Empty(c, r)'
  <2> SUFFICES ASSUME call[c].count = 0
               PROVE  \E r \in Seq(Objects) : Elements(r) \subseteq Elements(s) /\ Empty(c, r)'
    OBVIOUS
  <2>1. PICK r \in Seq(Objects) : Elements(r) \subseteq Elements(s) /\ Empty(c, r)
    BY <1>1, <1>2 DEF RoundInv
  <2>2. Linked(r, call[c].tail, next) /\ Came(c, r) /\ call[c].listed = Elements(r)
    BY <1>2, <2>1 DEF Empty
  <2>3. PICK j \in 1..Len(r), q \in 1..Len(r) :
          /\ token[c].current = r[j] /\ call[c].ptr = r[q]
          /\ \A i \in 1..Len(r) : (q > j /\ i >= j /\ i < q) \/ (q <= j /\ (i >= j \/ i < q))
                                    => r[i] \in call[c].seen
    BY <2>2 DEF Came
  <2>4. q = j
    BY <1>2, <2>2, <2>3 DEF Linked
  <2>5. \A i \in 1..Len(r) : r[i] \in call[c].seen
    BY <2>3, <2>4
  <2>6. call[c].listed \subseteq call[c].seen
    BY <2>2, <2>5 DEF Elements
  <2>7. consumer'[c] = "done"
    BY <1>2, <1>3 DEF RoundTypes
  <2>8. Empty(c, r)'
    BY <1>3, <2>2, <2>6, <2>7 DEF Empty, list
  <2> QED BY <2>1, <2>8
<1>7. /\ token[c].desired \in Elements(s) \cup {Null} /\ token[c].current \in Elements(s) \cup {Null}
      /\ token[c].desired # Null => token[c].current # Null
  BY <1>1 DEF RoundInv
<1>8. pending' \in [Objects -> Nat] /\ globalOffset' \in Nat /\ UNCHANGED <<list, producing>>
  BY <1>2, <1>3 DEF RoundTypes
<1> QED BY <1>1, <1>2, <1>4, <1>5, <1>6, <1>7, <1>8, SteppedKeeps

LEMMA ReturnStep == ASSUME RingInv, NEW c \in Consumers, Return(c) PROVE RingInv'
<1>1. PICK s \in Seq(Objects) : OwnInv(s) /\ \A d \in Consumers : RoundInv(s, d)
  BY DEF RingInv
<1>2. ListTypes /\ RoundTypes /\ token[c] \in Tokens
  BY DEF RingInv, RoundTypes
<1>3. /\ UNCHANGED <<list, producing, pending, globalOffset, token>>
      /\ consumer' = [consumer EXCEPT ![c] = "idle"] /\ call' = [call EXCEPT ![c] = NoCall]
  BY DEF Return
<1>4. Stepped(c, token[c], NoCall, "idle")
  BY <1>2, <1>3 DEF Stepped, RoundTypes
<1>5. /\ token[c].desired \in Elements(s) \cup {Null} /\ token[c].current \in Elements(s) \cup {Null}
      /\ token[c].desired # Null => token[c].current # Null
  BY <1>1 DEF RoundInv
<1>6. pending' \in [Objects -> Nat] /\ globalOffset' \in Nat /\ UNCHANGED <<list, producing>>
  BY <1>2, <1>3 DEF RoundTypes
<1> QED BY <1>1, <1>2, <1>4, <1>5, <1>6, NoCallType, SteppedKeeps

-----------------------------------------------------------------------------
LEMMA RingInit == ASSUME Init PROVE RingInv
<1>1. PICK s \in Seq(Objects) : s = <<>>
  <2>1. <<>> \in Seq(Objects)
    OBVIOUS
  <2> QED BY <2>1
<1>2. Len(s) = 0 /\ Elements(s) = {}
  BY <1>1 DEF Elements
<1>3. PICK rank \in [Consumers -> 0..(Cardinality(Consumers) - 1)] :
        token = [c \in Consumers |-> [initial |-> rank[c], known |-> None,
                   consumed |-> 0, current |-> Null, desired |-> Null]]
  BY DEF Init
<1>4. token \in [Consumers -> Tokens] /\ \A c \in Consumers : token[c].desired = Null /\ token[c].current = Null
  <2>1. Cardinality(Consumers) \in Nat
    BY ThreadsAssumption, FS_CardinalityType
  <2>2. \A c \in Consumers : rank[c] \in Nat
    BY <2>1
  <2>3. None \in Nat /\ Null \in Link
    BY ListAssumption DEF None, Link
  <2> QED BY <1>3, <2>2, <2>3 DEF Tokens
<1>5. ListTypes
  BY DEF ListTypes, Init, Link, Places
<1>6. RoundTypes
  BY <1>4, NoCallType DEF RoundTypes, Init
<1>7. Links(s)
  BY <1>1, <1>2 DEF Links, Linked, Init
<1>8. \A t \in Threads : Placed(s, t)
  BY DEF Placed, Init
<1>9. Owned(s)
  BY <1>2 DEF Owned, Init
<1>10. Crowd(s)
  <2>1. \A k \in 0..Len(s) : Beyond(s, k) = {} /\ k = 0
    BY <1>2 DEF Beyond, Init
  <2> QED BY <2>1, ThreadsAssumption, FS_EmptySet, FS_CardinalityType DEF Crowd
<1>11. \A c \in Consumers : RoundInv(s, c)
  BY <1>4 DEF RoundInv, Init
<1> QED BY <1>5, <1>6, <1>7, <1>8, <1>9, <1>10, <1>11 DEF RingInv, OwnInv

LEMMA RingStutter == ASSUME RingInv, UNCHANGED vars PROVE RingInv'
<1>1. PICK s \in Seq(Objects) : OwnInv(s) /\ \A c \in Consumers : RoundInv(s, c)
  BY DEF RingInv
<1>2. /\ UNCHANGED <<listTail, next, inactive, producerCount, thread, at, pending>>
      /\ UNCHANGED <<globalOffset, consumer, token, call>>
  BY DEF vars, list, producing, consuming
<1>3. ListTypes' /\ RoundTypes'
  BY <1>2 DEF RingInv, ListTypes, RoundTypes
<1>4. OwnInv(s)'
  BY <1>1, <1>2 DEF OwnInv, Links, Placed, Owned, Holds, Crowd, Beyond
<1>5. \A c \in Consumers : RoundInv(s, c)'
  BY <1>1, <1>2, RoundStays
<1> QED BY <1>3, <1>4, <1>5 DEF RingInv

LEMMA RingAlways == Spec => []RingInv
<1>1. ASSUME RingInv, [Next]_vars PROVE RingInv'
  <2>1. CASE \E t \in Threads : Thread(t)
    BY <1>1, <2>1, ThreadKeepsRing
  <2>2. CASE \E c \in Consumers : Consumer(c)
    BY <1>1, <2>2, BeginStep, RoundStep, RoundEndsStep, ReturnStep DEF Consumer
  <2>3. CASE UNCHANGED vars
    BY <1>1, <2>3, RingStutter
  <2> QED BY <1>1, <2>1, <2>2, <2>3 DEF Next
<1> QED BY <1>1, RingInit, PTL DEF Spec

(* However many threads there are, a producer is held by one of them at a   *)
(* time and stays on the list: two that find an exited thread's producer,   *)
(* or push new ones at once, never share or lose one                        *)
(* (concurrentqueue.h:3201-3259).                                           *)
THEOREM ProducersOwned == Spec => []OneOwner
<1>1. ASSUME RingInv PROVE OneOwner
  <2>1. PICK s \in Seq(Objects) : OwnInv(s)
    BY <1>1 DEF RingInv
  <2>2. \A t, u \in Threads : thread[t] = "hold" /\ thread[u] = "hold" /\ at[t] = at[u] => t = u
    BY <2>1 DEF OwnInv, Owned
  <2>3. ASSUME NEW t \in Threads, thread[t] = "hold" PROVE InList(at[t]) /\ ~ inactive[at[t]]
    <3>1. at[t] \in Elements(s) /\ at[t] \in Objects
      BY <2>1, <2>3 DEF OwnInv, Placed, Elements
    <3>2. ~ inactive[at[t]]
      BY <2>1, <2>3, <3>1 DEF OwnInv, Owned, Holds
    <3>3. s # <<>>
      BY <3>1 DEF Elements
    <3> QED BY <2>1, <3>1, <3>2, <3>3, ListShort, ListedIs DEF OwnInv, Links
  <2> QED BY <2>2, <2>3 DEF OneOwner
<1> QED BY <1>1, RingAlways, PTL

(* However many producers and consumers there are, a dequeue that brings    *)
(* nothing has looked at every producer that was on the list when it began, *)
(* each of them empty when it looked (concurrentqueue.h:1193).              *)
THEOREM EmptyMeansEmpty == Spec => []NothingMeansAllEmpty
<1>1. ASSUME RingInv PROVE NothingMeansAllEmpty
  BY <1>1 DEF RingInv, RoundInv, Empty, NothingMeansAllEmpty
<1> QED BY <1>1, RingAlways, PTL
=============================================================================
