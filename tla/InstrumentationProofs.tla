------------------------ MODULE InstrumentationProofs ------------------------
(***************************************************************************)
(* Theorems about what an on-demand build traces, for any number of        *)
(* sessions.                                                               *)
(*                                                                         *)
(* AnnouncementKept for any number of threads: a lock is deferred before   *)
(* it is queued, so a clearing that loses the queued item is followed by a *)
(* copy of the deferred ones that has it.                                  *)
(*                                                                         *)
(* PreciseUncontended for any finite set of threads: m_lockCount counts    *)
(* the threads from their count to their uncount, so a thread that finds   *)
(* the settled lock alone is its first and sees to it that m_active says   *)
(* what m_isConnected does, before it decides and until it releases.       *)
(*                                                                         *)
(* ZonesBalanced for any nesting of zones: the depth that the server of a  *)
(* session sees never falls below what is owed, the ends still to come of  *)
(* zones whose begin was queued.  A clearing makes the two equal, and what *)
(* loses a zone halfway only owes less.                                    *)
(*                                                                         *)
(* FramesNotMissed for any number of frames: while a server is served, the *)
(* connection is up, so every frame counted after the payload is marked.   *)
(*                                                                         *)
(* TimesInOrder for rings of any number of queries: the search of an       *)
(* OpenGL context cannot pass the queries that are ready, and no two       *)
(* Vulkan commands write one place without a reset between them.           *)
(***************************************************************************)
EXTENDS MCInstrumentation, FiniteSetTheorems, SequenceTheorems, TLAPS

-----------------------------------------------------------------------------
\* Locks.

InvTypes ==
    /\ made \in {"no", "deferred", "yes"}
    /\ worker \in {"accept", "clear", "welcome", "serve"}
    /\ deferred \in BOOLEAN
    /\ announced \in [queued : BOOLEAN, copied : BOOLEAN]

IInv == InvTypes /\ (made # "no" => deferred) /\ AnnouncementKept

LEMMA InvInit == ASSUME Init PROVE IInv
  BY DEF Init, InitSession, IInv, InvTypes, AnnouncementKept

LEMMA InvNext == ASSUME IInv, [Next]_vars PROVE IInv'
<1> USE DEF IInv, InvTypes, AnnouncementKept
<1>1. ASSUME UNCHANGED <<session, announcing>> PROVE IInv'
  BY <1>1 DEF session, announcing
<1>2. CASE UNCHANGED vars
  BY <1>1, <1>2 DEF vars
<1>3. CASE DeferItem
  BY <1>3 DEF DeferItem, session
<1>4. CASE Announce
  BY <1>4 DEF Announce, session
<1>5. CASE Begin
  BY <1>5 DEF Begin, Accept
<1>6. CASE Connected
  BY <1>6 DEF Connected, Connect, announcing
<1>7. CASE CopyDeferred
  BY <1>7 DEF CopyDeferred, Welcome
<1>8. CASE Lost
  BY <1>8 DEF Lost, Disconnect, announcing
<1>9. ASSUME NEW t \in Threads, Clear(t) PROVE IInv'
  BY <1>9 DEF Clear, ClearQueue
\* Who uses the lock leaves its announcement alone.
<1>10. ASSUME NEW t \in Threads, User(t) PROVE IInv'
  <2>1. UNCHANGED <<session, announcing>>
    BY <1>10 DEF User, Lock, TryLock, CountTried, LoadActive, LoadConnected, StoreActive, Wait,
                 Acquire, Obtain, Mark, MarkInactive, Unlock, Uncount, UnlockLoad,
                 UnlockConnected, UnlockStore, Release, Quiet
  <2> QED BY <1>1, <2>1
<1> QED BY <1>2, <1>3, <1>4, <1>5, <1>6, <1>7, <1>8, <1>9, <1>10 DEF Next

(* The server of every session learns of every lock, however many threads  *)
(* trace and however often the connection is lost (TracyLock.hpp:38-42,    *)
(* TracyProfiler.cpp:968-991).                                             *)
THEOREM LocksAnnounced == Spec => []AnnouncementKept
<1>1. Init => IInv
  BY InvInit
<1>2. IInv /\ [Next]_vars => IInv'
  BY InvNext
<1>3. IInv => AnnouncementKept
  BY DEF IInv
<1> QED BY <1>1, <1>2, <1>3, PTL DEF Spec

-----------------------------------------------------------------------------
\* From here on: PreciseUncontended.

Positions == {"out", "count", "load", "connected", "store", "wait", "acquire", "obtain", "in",
              "unmark", "uncount", "unload", "unconnected", "unstore", "release"}
Counted == {"load", "connected", "store", "wait", "acquire", "obtain", "in", "unmark", "uncount"}

LocalsType == [shared : BOOLEAN, try : BOOLEAN, first : BOOLEAN, active : BOOLEAN,
               connected : BOOLEAN, queue : BOOLEAN]

UseTypeOK ==
    /\ thread \in [Threads -> Positions]
    /\ at \in [Threads -> LocalsType]
    /\ active \in BOOLEAN /\ isConnected \in BOOLEAN
    /\ balance \in [Threads -> Int]

Counting == { t \in Threads : thread[t] \in Counted }
CountExact == lockCount = Cardinality(Counting)

ConnectedSession ==
    /\ worker \in {"accept", "clear"} => ~ isConnected
    /\ settled => isConnected

Alone == \A t, u \in Using : t = u

\* Where a thread that has the lock to itself may be, and with what.
Traced(t) ==
    /\ thread[t] \notin {"unmark", "unstore"}
    /\ thread[t] = "load" => at[t].first
    /\ thread[t] = "connected" => at[t].active = active
    /\ thread[t] = "store" => at[t].connected /\ at[t].queue
    /\ thread[t] \in {"wait", "acquire"} => at[t].queue
    /\ thread[t] \in {"wait", "acquire", "obtain", "in", "uncount", "unload"} => active
    /\ Precise(t)

UseInv ==
    /\ UseTypeOK /\ CountExact /\ ConnectedSession
    /\ settled /\ ~ contended => Alone /\ \A t \in Threads : Traced(t)

LEMMA UseInit == ASSUME IsFiniteSet(Threads), Init PROVE UseInv
<1>1. Counting = {}
  BY DEF Init, Counting, Counted
<1>2. Cardinality(Counting) = 0
  BY <1>1, FS_EmptySet
<1>3. UseTypeOK
  <2>1. NoLocals \in LocalsType
    BY DEF NoLocals, LocalsType
  <2>2. active = FALSE /\ isConnected = FALSE
    BY DEF Init, InitSession
  <2>3. active \in BOOLEAN /\ isConnected \in BOOLEAN
    BY <2>2, Zenon
  <2> QED BY <2>1, <2>3 DEF Init, UseTypeOK, Positions
<1> QED BY <1>2, <1>3 DEF Init, InitSession, UseInv, CountExact, ConnectedSession

\* The lock is counted once for each thread from its count on.
LEMMA CountMoved ==
    ASSUME IsFiniteSet(Threads), UseTypeOK, NEW t \in Threads, NEW to,
           thread' = [thread EXCEPT ![t] = to]
    PROVE  /\ Cardinality(Counting) \in Nat
           /\ Cardinality(Counting)' = Cardinality(Counting) + (IF to \in Counted THEN 1 ELSE 0)
                                         - (IF thread[t] \in Counted THEN 1 ELSE 0)
<1> DEFINE R == Counting \ {t}
<1>1. IsFiniteSet(R) /\ t \notin R
  BY FS_Subset DEF Counting
<1>2. Counting = (IF thread[t] \in Counted THEN R \cup {t} ELSE R)
  BY DEF Counting
<1>3. Counting' = (IF to \in Counted THEN R \cup {t} ELSE R)
  BY DEF Counting, UseTypeOK
<1>4. Cardinality(R) \in Nat /\ Cardinality(R \cup {t}) = Cardinality(R) + 1
  BY <1>1, FS_CardinalityType, FS_AddElement
<1> HIDE DEF R
<1>5. Cardinality(Counting) = Cardinality(R) + (IF thread[t] \in Counted THEN 1 ELSE 0)
  BY <1>2, <1>4
<1>6. Cardinality(Counting') = Cardinality(R) + (IF to \in Counted THEN 1 ELSE 0)
  BY <1>3, <1>4
<1>7. Cardinality(Counting)' = Cardinality(Counting')
  OBVIOUS
<1> HIDE DEF R
<1> QED BY <1>4, <1>5, <1>6, <1>7

\* What the histories make of a step while the lock is settled and not
\* contended: only one thread uses it.
LEMMA Settled ==
    ASSUME IsFiniteSet(Threads), NEW newBalance, Follow(newBalance), settled', ~ contended'
    PROVE  /\ isConnected' /\ Alone'
           /\ \/ settled /\ ~ contended /\ balance' = newBalance
              \/ (\A t \in Threads : thread'[t] = "out") /\ balance' = [t \in Threads |-> 0]
<1> DEFINE Free2 == isConnected' /\ \A t \in Threads : thread'[t] = "out"
           U == { t \in Threads : thread'[t] # "out" }
<1>1. isConnected' /\ (settled \/ Free2)
  BY DEF Follow
<1>2. ~ Free2 => settled /\ ~ contended /\ ~ Cardinality(U) > 1 /\ balance' = newBalance
  BY <1>1 DEF Follow
<1>3. Free2 => balance' = IF contended \/ ~ settled THEN [t \in Threads |-> 0] ELSE newBalance
  BY DEF Follow
<1>4. Alone'
  <2> SUFFICES ASSUME NEW t \in U, NEW u \in U, t # u PROVE FALSE
    BY DEF Alone, Using
  <2>1. ~ Free2
    OBVIOUS
  <2>2. IsFiniteSet(U) /\ {t, u} \subseteq U /\ IsFiniteSet({t} \cup {u})
    BY FS_Subset, FS_Singleton, FS_Union
  <2>3. Cardinality({t, u}) = 2
    <3>1. IsFiniteSet({t}) /\ Cardinality({t}) = 1 /\ u \notin {t} /\ {t} \cup {u} = {t, u}
      BY FS_Singleton
    <3>2. Cardinality({t} \cup {u}) = Cardinality({t}) + 1
      BY <3>1, FS_AddElement
    <3> QED BY <3>1, <3>2
  <2>4. Cardinality({t, u}) <= Cardinality(U) /\ Cardinality(U) \in Nat
    BY <2>2, FS_Subset, FS_CardinalityType
  <2> QED BY <1>2, <2>1, <2>3, <2>4
<1>5. CASE Free2
  BY <1>1, <1>3, <1>4, <1>5
<1>6. CASE ~ Free2
  BY <1>1, <1>2, <1>4, <1>6
<1> QED BY <1>5, <1>6

\* A step that no thread takes.
LEMMA OthersKeep ==
    ASSUME IsFiniteSet(Threads), UseInv, UNCHANGED <<lock, at, thread>>, isConnected' \in BOOLEAN,
           worker' \in {"accept", "clear"} => ~ isConnected',
           \/ UNCHANGED <<isConnected, settled, contended, balance>>
           \/ /\ ~ isConnected' \/ ~ isConnected
              /\ \/ Follow(balance)
                 \/ \E t \in Threads : Follow([balance EXCEPT ![t] = 0])
    PROVE  UseInv'
<1> USE DEF UseInv, UseTypeOK, CountExact, ConnectedSession, lock
<1>1. lockCount' = lockCount /\ active' = active /\ at' = at /\ thread' = thread
  OBVIOUS
<1>2. CountExact'
  BY <1>1 DEF Counting
<1>3. CASE UNCHANGED <<isConnected, settled, contended, balance>>
  BY <1>1, <1>2, <1>3 DEF Alone, Using, Traced, Precise
<1>4. ASSUME NEW newBalance \in [Threads -> Int], Follow(newBalance), ~ isConnected' \/ ~ isConnected
      PROVE  UseInv'
  <2>1. settled' => isConnected'
    BY <1>4 DEF Follow
  <2>2. balance' \in [Threads -> Int]
    BY <1>4 DEF Follow
  <2>3. ASSUME settled', ~ contended' PROVE Alone' /\ \A t \in Threads : Traced(t)'
    <3>1. ~ settled
      BY <1>4, <2>1, <2>3
    <3>2. Alone' /\ (\A t \in Threads : thread'[t] = "out") /\ balance' = [t \in Threads |-> 0]
      BY <1>4, <2>3, <3>1, Settled
    <3> QED BY <3>2 DEF Traced, Precise
  <2> QED BY <1>1, <1>2, <2>1, <2>2, <2>3
<1>5. \A t \in Threads : [balance EXCEPT ![t] = 0] \in [Threads -> Int]
  OBVIOUS
<1> QED BY <1>3, <1>4, <1>5

\* While one thread has the lock to itself the others are out of it.
LEMMA OthersOut ==
    ASSUME UseTypeOK, Alone, Alone', NEW t \in Threads, NEW to,
           thread' = [thread EXCEPT ![t] = to], thread[t] = "out" => to # "out"
    PROVE  \A u \in Threads \ {t} : thread[u] = "out"
  BY DEF UseTypeOK, Alone, Using

LEMMA UserKeeps == ASSUME IsFiniteSet(Threads), UseInv, NEW t \in Threads, User(t) PROVE UseInv'
<1> USE DEF UseInv
<1> DEFINE d == IF thread[t] = "obtain" THEN 1 ELSE IF thread[t] = "release" THEN -1 ELSE 0
           M(to) == /\ thread' = [thread EXCEPT ![t] = to]
                    /\ Follow([balance EXCEPT ![t] = @ + d])
                    /\ thread[t] = "out" => to # "out"
<1>1. UNCHANGED session /\ \E to \in Positions : M(to)
  <2>1. balance = [balance EXCEPT ![t] = @ + 0]
    BY DEF UseTypeOK
  <2> QED BY <2>1 DEF User, Lock, TryLock, CountTried, LoadActive, LoadConnected, StoreActive, Wait,
                 Acquire, Obtain, Mark, MarkInactive, Unlock, Uncount, UnlockLoad, Leave,
                 UnlockConnected, UnlockStore, Release, Quiet, Step, Decided, Positions
<1> PICK to \in Positions : M(to)
  BY <1>1
<1>2. isConnected' = isConnected /\ worker' = worker
  BY <1>1 DEF session
<1>3. balance' \in [Threads -> Int]
  BY DEF UseTypeOK, Follow
\* What the step does to the thread's locals, to m_active and to the count.
<1> DEFINE Count(where) == IF where \in Counted THEN 1 ELSE 0
<1>4. lockCount' = lockCount + Count(to) - Count(thread[t])
  <2> USE DEF UseTypeOK, Counted, lock
  <2>1. lockCount \in Int
    BY FS_Subset, FS_CardinalityType DEF CountExact, Counting
  <2>2. thread'[t] = to
    BY DEF UseTypeOK
  <2>3. at[t] \in LocalsType
    OBVIOUS
  <2>4. CASE \E shared \in BOOLEAN : Lock(t, shared)
    BY <2>1, <2>2, <2>3, <2>4 DEF Lock, Step
  <2>5. CASE \E shared \in BOOLEAN : TryLock(t, shared)
    BY <2>1, <2>2, <2>3, <2>5 DEF TryLock, Step
  <2>6. CASE CountTried(t)
    BY <2>1, <2>2, <2>3, <2>6 DEF CountTried, Step
  <2>7. CASE LoadActive(t)
    BY <2>1, <2>2, <2>3, <2>7 DEF LoadActive, Step, Decided
  <2>8. CASE LoadConnected(t)
    BY <2>1, <2>2, <2>3, <2>8 DEF LoadConnected, Step, Decided, LocalsType
  <2>9. CASE StoreActive(t)
    BY <2>1, <2>2, <2>3, <2>9 DEF StoreActive, Step, Decided, LocalsType
  <2>10. CASE Wait(t)
    BY <2>1, <2>2, <2>3, <2>10 DEF Wait, Step
  <2>11. CASE Acquire(t)
    BY <2>1, <2>2, <2>3, <2>11 DEF Acquire, Step
  <2>12. CASE Obtain(t)
    BY <2>1, <2>2, <2>3, <2>12 DEF Obtain, Step
  <2>13. CASE Mark(t)
    BY <2>1, <2>2, <2>3, <2>13 DEF Mark, Step
  <2>14. CASE MarkInactive(t)
    BY <2>1, <2>2, <2>3, <2>14 DEF MarkInactive, Step
  <2>15. CASE Unlock(t)
    BY <2>1, <2>2, <2>3, <2>15 DEF Unlock, Step
  <2>16. CASE Uncount(t)
    BY <2>1, <2>2, <2>3, <2>16 DEF Uncount, Step
  <2>17. CASE UnlockLoad(t)
    BY <2>1, <2>2, <2>3, <2>17 DEF UnlockLoad, Leave, Step
  <2>18. CASE UnlockConnected(t)
    BY <2>1, <2>2, <2>3, <2>18 DEF UnlockConnected, Step
  <2>19. CASE UnlockStore(t)
    BY <2>1, <2>2, <2>3, <2>19 DEF UnlockStore, Leave, Step
  <2>20. CASE Release(t)
    BY <2>1, <2>2, <2>3, <2>20 DEF Release, Leave, Step
  <2> QED BY <2>4, <2>5, <2>6, <2>7, <2>8, <2>9, <2>10, <2>11, <2>12, <2>13, <2>14, <2>15, <2>16, <2>17, <2>18, <2>19, <2>20 DEF User
<1>9. at' \in [Threads -> LocalsType]
  <2>1. NoLocals \in LocalsType /\ at[t] \in LocalsType /\ isConnected \in BOOLEAN /\ active \in BOOLEAN
    BY DEF NoLocals, LocalsType, UseTypeOK
  <2>2. ASSUME NEW l \in LocalsType, Locals(t, l) PROVE at' \in [Threads -> LocalsType]
    BY <2>2 DEF Locals, UseTypeOK
  <2>3. CASE \E shared \in BOOLEAN : Lock(t, shared) \/ TryLock(t, shared)
    <3> PICK shared \in BOOLEAN : Lock(t, shared) \/ TryLock(t, shared)
      BY <2>3
    <3>1. /\ [NoLocals EXCEPT !.shared = shared, !.first = (lockCount = 0)] \in LocalsType
          /\ [NoLocals EXCEPT !.shared = shared, !.try = TRUE] \in LocalsType
      BY <2>1 DEF LocalsType
    <3> QED BY <2>2, <3>1 DEF Lock, TryLock
  <2>4. CASE CountTried(t)
    <3>1. [at[t] EXCEPT !.first = (lockCount = 0)] \in LocalsType
      BY <2>1 DEF LocalsType
    <3> QED BY <2>2, <2>4, <3>1 DEF CountTried
  <2>5. CASE LoadActive(t) \/ LoadConnected(t)
    <3>1. /\ [at[t] EXCEPT !.active = active] \in LocalsType
          /\ [at[t] EXCEPT !.connected = isConnected, !.queue = isConnected] \in LocalsType
      BY <2>1 DEF LocalsType
    <3> QED BY <2>2, <2>5, <3>1 DEF LoadActive, LoadConnected
  <2>6. CASE at' = at \/ Locals(t, NoLocals)
    BY <2>1, <2>2, <2>6 DEF UseTypeOK
  <2> QED BY <1>1, <2>3, <2>4, <2>5, <2>6 DEF User, StoreActive, Wait, Acquire, Obtain, Mark,
       MarkInactive, Unlock, Uncount, UnlockLoad, UnlockConnected, UnlockStore, Release, Leave
<1>10. active' \in BOOLEAN
  <2>1. active' = active \/ active' = FALSE \/ active' = at[t].connected
    BY DEF User, Lock, TryLock, CountTried, LoadActive, LoadConnected, StoreActive, Wait, Acquire,
           Obtain, Mark, MarkInactive, Unlock, Uncount, UnlockLoad, UnlockConnected, UnlockStore,
           Release, lock
  <2>2. active \in BOOLEAN /\ at[t].connected \in BOOLEAN
    BY DEF UseTypeOK, LocalsType
  <2> QED BY <2>1, <2>2, Zenon
<1>5. UseTypeOK'
  BY <1>2, <1>3, <1>9, <1>10 DEF UseTypeOK
<1>6. ConnectedSession'
  BY <1>2 DEF ConnectedSession, Follow
<1>7. CountExact'
  BY <1>4, CountMoved DEF CountExact
<1>8. ASSUME settled', ~ contended' PROVE Alone' /\ \A u \in Threads : Traced(u)'
  <2>1. /\ isConnected' /\ Alone'
        /\ \/ settled /\ ~ contended /\ balance' = [balance EXCEPT ![t] = @ + d]
           \/ (\A u \in Threads : thread'[u] = "out") /\ balance' = [u \in Threads |-> 0]
    BY <1>8, Settled
  <2>2. CASE (\A u \in Threads : thread'[u] = "out") /\ balance' = [u \in Threads |-> 0]
    BY <2>1, <2>2 DEF Traced, Precise
  <2>3. CASE settled /\ ~ contended /\ balance' = [balance EXCEPT ![t] = @ + d]
    <3>1. Alone /\ Traced(t) /\ isConnected
      BY <1>2, <2>1, <2>3
    <3>2. ASSUME NEW u \in Threads \ {t} PROVE thread[u] = "out" /\ Traced(u)'
      BY <2>1, <2>3, <3>1, OthersOut DEF Traced, Precise, UseTypeOK
    <3>3. thread[t] \notin Counted => lockCount = 0
      <4>1. thread[t] \notin Counted => Counting = {}
        BY <3>2 DEF Counting, Counted
      <4> QED BY <4>1, FS_EmptySet DEF CountExact
    <3>4. Traced(t)'
      <4> USE DEF Traced, Precise, UseTypeOK, LocalsType, lock
      <4>1. thread'[t] = to /\ balance'[t] = balance[t] + d
        BY <2>3
      <4>2. CASE \E shared \in BOOLEAN : Lock(t, shared)
        <5> PICK shared \in BOOLEAN : Lock(t, shared)
          BY <4>2
        <5>1. thread[t] = "out" /\ to = "load"
          BY <4>1 DEF Lock, Step
        <5>2. lockCount = 0
          BY <3>3, <5>1 DEF Counted
        <5>3. at'[t] = [NoLocals EXCEPT !.shared = shared, !.first = (lockCount = 0)]
          BY DEF Lock, Locals
        <5>4. at'[t].first
          BY <5>2, <5>3 DEF NoLocals
        <5> QED BY <3>1, <4>1, <5>1, <5>4
      <4>3. CASE \E shared \in BOOLEAN : TryLock(t, shared)
        BY <2>3, <3>1, <3>3, <4>1, <4>3 DEF TryLock, Step, Locals, NoLocals
      <4>4. CASE CountTried(t)
        <5>1. thread[t] = "count" /\ to = "load"
          BY <4>1, <4>4 DEF CountTried, Step
        <5>2. lockCount = 0
          BY <3>3, <5>1 DEF Counted
        <5>3. at'[t] = [at[t] EXCEPT !.first = (lockCount = 0)] /\ at[t] \in LocalsType
          BY <4>4 DEF CountTried, Locals
        <5>4. at'[t].first
          BY <5>2, <5>3
        <5> QED BY <3>1, <4>1, <5>1, <5>4
      <4>5. CASE LoadActive(t)
        BY <2>3, <3>1, <3>3, <4>1, <4>5 DEF LoadActive, Step, Locals, Decided, MayTrace
      <4>6. CASE LoadConnected(t)
        <5>1. thread[t] = "connected" /\ active' = active
          BY <4>6 DEF LoadConnected, Step
        <5>2. isConnected = TRUE /\ at[t].active = active
          BY <3>1, <5>1
        <5>3. to = IF at[t].active # isConnected THEN "store" ELSE Decided(t, isConnected)
          BY <4>1, <4>6 DEF LoadConnected, Step
        <5>4. at'[t] = [at[t] EXCEPT !.connected = isConnected, !.queue = isConnected]
              /\ at[t] \in LocalsType
          BY <4>6 DEF LoadConnected, Locals
        <5>5. at'[t].connected /\ at'[t].queue
          BY <5>2, <5>4
        <5>6. CASE active
          <6>1. to \in {"obtain", "wait"}
            BY <5>2, <5>3, <5>6 DEF Decided
          <6>2. active'
            BY <5>1, <5>6
          <6>3. balance'[t] = 0
            BY <3>1, <4>1, <5>1
          <6> QED BY <4>1, <5>5, <6>1, <6>2, <6>3
        <5>7. CASE ~ active
          <6>1. to = "store"
            BY <5>2, <5>3, <5>7
          <6> QED BY <3>1, <4>1, <5>1, <5>5, <6>1
        <5> QED BY <5>6, <5>7
      <4>7. CASE StoreActive(t)
        BY <2>3, <3>1, <3>3, <4>1, <4>7 DEF StoreActive, Step, Decided
      <4>8. CASE Wait(t)
        BY <2>3, <3>1, <3>3, <4>1, <4>8 DEF Wait, Step
      <4>9. CASE Acquire(t)
        <5>1. thread[t] = "acquire" /\ active' = active /\ at' = at
          BY <4>9 DEF Acquire, Step
        <5>2. to = "obtain"
          BY <3>1, <4>1, <4>9, <5>1 DEF Acquire, Step
        <5> QED BY <3>1, <4>1, <5>1, <5>2
      <4>10. CASE Obtain(t)
        BY <2>3, <3>1, <3>3, <4>1, <4>10 DEF Obtain, Step
      <4>11. CASE Mark(t)
        BY <2>3, <3>1, <3>3, <4>1, <4>11 DEF Mark, Step
      <4>12. CASE MarkInactive(t)
        BY <2>3, <3>1, <3>3, <4>1, <4>12 DEF MarkInactive, Step
      <4>13. CASE Unlock(t)
        BY <2>3, <3>1, <3>3, <4>1, <4>13 DEF Unlock, Step
      <4>14. CASE Uncount(t)
        BY <2>3, <3>1, <3>3, <4>1, <4>14 DEF Uncount, Step
      <4>15. CASE UnlockLoad(t)
        BY <2>3, <3>1, <3>3, <4>1, <4>15 DEF UnlockLoad, Leave, Step
      <4>16. CASE UnlockConnected(t)
        BY <2>3, <3>1, <3>3, <4>1, <4>16 DEF UnlockConnected, Step
      <4>17. CASE UnlockStore(t)
        BY <2>3, <3>1, <3>3, <4>1, <4>17 DEF UnlockStore, Leave, Step
      <4>18. CASE Release(t)
        BY <2>3, <3>1, <3>3, <4>1, <4>18 DEF Release, Leave, Step
      <4> QED BY <4>2, <4>3, <4>4, <4>5, <4>6, <4>7, <4>8, <4>9, <4>10, <4>11, <4>12, <4>13, <4>14, <4>15, <4>16, <4>17, <4>18 DEF User
    <3> QED BY <2>1, <3>2, <3>4
  <2> QED BY <2>1, <2>2, <2>3
<1> QED BY <1>5, <1>6, <1>7, <1>8

LEMMA UseNext == ASSUME IsFiniteSet(Threads), UseInv, [Next]_vars PROVE UseInv'
<1> USE DEF UseInv, UseTypeOK, ConnectedSession
<1>1. CASE UNCHANGED vars
  BY <1>1, OthersKeep DEF vars, using, session
<1>2. CASE DeferItem \/ Announce
  BY <1>2, OthersKeep DEF DeferItem, Announce, using, session
<1>3. CASE Begin \/ CopyDeferred
  BY <1>3, OthersKeep DEF Begin, CopyDeferred, Accept, Welcome, using
<1>4. CASE Connected
  BY <1>4, OthersKeep DEF Connected, Connect
<1>5. CASE Lost
  BY <1>5, OthersKeep DEF Lost, Disconnect
<1>6. ASSUME NEW t \in Threads, Clear(t) PROVE UseInv'
  BY <1>6, OthersKeep DEF Clear, ClearQueue
<1>7. ASSUME NEW t \in Threads, User(t) PROVE UseInv'
  BY <1>7, UserKeeps
<1> QED BY <1>1, <1>2, <1>3, <1>4, <1>5, <1>6, <1>7 DEF Next

(* Once every thread has let go of a lock in a session, it is traced       *)
(* exactly until two threads use it at a time, however many there are, in  *)
(* shared mode too (TracyLock.hpp:51-116).                                 *)
THEOREM LocksPrecise == ASSUME IsFiniteSet(Threads) PROVE Spec => []PreciseUncontended
<1>1. Init => UseInv
  BY UseInit
<1>2. UseInv /\ [Next]_vars => UseInv'
  BY UseNext
<1>3. UseInv => PreciseUncontended
  BY DEF UseInv, Traced, PreciseUncontended
<1> QED BY <1>1, <1>2, <1>3, PTL DEF Spec

-----------------------------------------------------------------------------
\* Zones.

ZonePlaces == {"out", "begin", "begin stack", "stack", "lua begin", "lua end", "lua text",
           "count", "frame load", "frame", "event"}

ZoneTypes ==
    /\ place \in ZonePlaces /\ open \in Seq(BOOLEAN) /\ isConnected \in BOOLEAN
    /\ counter \in Nat /\ active \in BOOLEAN
    /\ depth \in Int

\* The scoped zones that have begun traced.
ActiveZones == { i \in DOMAIN open : open[i] }
Begun == Cardinality(ActiveZones)

\* Where the thread is tells what it has just entered.
ZoneAt ==
    /\ place \in {"begin", "begin stack"} => open # <<>> /\ open[Len(open)]
    /\ place \in {"lua begin", "lua text"} => active /\ counter > 0

\* What is owed: for the Lua zones that are traced, and for a begin or an end
\* that the thread is about to queue.
Needs(on, count) == IF on THEN count ELSE 0
Lag(where) == IF where \in {"begin", "begin stack", "lua begin"} THEN -1
              ELSE IF where = "lua end" THEN 1 ELSE 0
ZoneDepth == depth >= Begun + Needs(active, counter) + Lag(place)

ZoneInv == ZoneTypes /\ ZoneAt /\ ZoneDepth /\ ~ lonely

-----------------------------------------------------------------------------
LEMMA BegunNat ==
    ASSUME open \in Seq(BOOLEAN)
    PROVE  /\ Begun \in Nat
           /\ \A i \in DOMAIN open : open[i] => Begun > 0
<1>1. IsFiniteSet(DOMAIN open)
  <2>1. DOMAIN open = 1 .. Len(open) /\ Len(open) \in Nat
    OBVIOUS
  <2> QED BY <2>1, FS_Interval
<1>2. IsFiniteSet(ActiveZones)
  BY <1>1, FS_Subset DEF ActiveZones
<1>3. Begun \in Nat /\ (Begun = 0 <=> ActiveZones = {})
  BY <1>2, FS_CardinalityType, FS_EmptySet DEF Begun
<1> QED BY <1>3 DEF ActiveZones

LEMMA Pushed ==
    ASSUME open \in Seq(BOOLEAN), NEW b \in BOOLEAN, open' = Append(open, b)
    PROVE  Begun' = Begun + Zone!If(b, 1) /\ Begun \in Nat
<1> DEFINE n == Len(open)
<1>1. n \in Nat /\ DOMAIN open = 1 .. n /\ DOMAIN open' = 1 .. n + 1
  OBVIOUS
<1>2. (\A i \in 1 .. n : open'[i] = open[i]) /\ open'[n + 1] = b
  OBVIOUS
<1>3. IsFiniteSet(ActiveZones) /\ n + 1 \notin ActiveZones
  <2>1. IsFiniteSet(1 .. n)
    BY <1>1, FS_Interval
  <2> QED BY <1>1, <2>1, FS_Subset DEF ActiveZones
<1>4. ActiveZones' = IF b THEN ActiveZones \cup {n + 1} ELSE ActiveZones
  BY <1>1, <1>2 DEF ActiveZones
<1> QED BY <1>3, <1>4, FS_AddElement, FS_CardinalityType DEF Begun, Zone!If

LEMMA Popped ==
    ASSUME open \in Seq(BOOLEAN), open # <<>>, open' = Front(open)
    PROVE  Begun' = Begun - Zone!If(Last(open), 1) /\ Begun \in Nat /\ Begun' \in Nat
                /\ Last(open) \in BOOLEAN /\ open' \in Seq(BOOLEAN)
<1> DEFINE n == Len(open)
<1>1. /\ n \in Nat \ {0} /\ DOMAIN open = 1 .. n
      /\ DOMAIN open' = 1 .. n - 1 /\ open' \in Seq(BOOLEAN)
      /\ Last(open) = open[n] /\ open[n] \in BOOLEAN
  BY DEF Front, Last
<1>2. \A i \in 1 .. n - 1 : open'[i] = open[i]
  BY DEF Front
<1>3. IsFiniteSet(ActiveZones') /\ n \notin ActiveZones'
  <2>1. IsFiniteSet(1 .. n - 1)
    BY <1>1, FS_Interval
  <2> QED BY <1>1, <2>1, FS_Subset DEF ActiveZones
<1>4. ActiveZones = IF open[n] THEN ActiveZones' \cup {n} ELSE ActiveZones'
  BY <1>1, <1>2 DEF ActiveZones
<1>5. Cardinality(ActiveZones') \in Nat
      /\ Cardinality(ActiveZones' \cup {n}) = Cardinality(ActiveZones') + 1
  BY <1>3, FS_AddElement, FS_CardinalityType
<1> HIDE DEF n
<1> QED BY <1>1, <1>4, <1>5 DEF Begun, Zone!If

-----------------------------------------------------------------------------
\* What a clearing leaves is what is owed.
LEMMA LagIs ==
    ASSUME NEW where \in ZonePlaces
    PROVE  \E b \in Int, l \in Int, e \in Int, lag \in Int :
             /\ b = Zone!If(where \in {"begin", "begin stack"}, 1)
             /\ l = Zone!If(where = "lua begin", 1) /\ e = Zone!If(where = "lua end", 1)
             /\ lag = Lag(where)
             /\ lag = e - b - l
             /\ where # "lua begin" => l = 0
<1>1. CASE where \in {"begin", "begin stack"}
  <2>1. /\ Zone!If(where \in {"begin", "begin stack"}, 1) = 1
        /\ Zone!If(where = "lua begin", 1) = 0 /\ Zone!If(where = "lua end", 1) = 0
        /\ Lag(where) = -1
    BY <1>1 DEF Zone!If, Lag
  <2>2. 1 \in Int /\ 0 \in Int /\ -1 \in Int /\ -1 = 0 - 1 - 0
    OBVIOUS
  <2> QED BY <1>1, <2>1, <2>2, Zenon
<1>2. CASE where = "lua begin"
  <2>1. /\ Zone!If(where \in {"begin", "begin stack"}, 1) = 0
        /\ Zone!If(where = "lua begin", 1) = 1 /\ Zone!If(where = "lua end", 1) = 0
        /\ Lag(where) = -1
    BY <1>2 DEF Zone!If, Lag
  <2>2. 1 \in Int /\ 0 \in Int /\ -1 \in Int /\ -1 = 0 - 0 - 1
    OBVIOUS
  <2> QED BY <1>2, <2>1, <2>2
<1>3. CASE where = "lua end"
  <2>1. /\ Zone!If(where \in {"begin", "begin stack"}, 1) = 0
        /\ Zone!If(where = "lua begin", 1) = 0 /\ Zone!If(where = "lua end", 1) = 1
        /\ Lag(where) = 1
    BY <1>3 DEF Zone!If, Lag
  <2>2. 1 \in Int /\ 0 \in Int /\ 1 = 1 - 0 - 0
    OBVIOUS
  <2> QED BY <1>3, <2>1, <2>2, Zenon
<1>4. CASE where \notin {"begin", "begin stack", "lua begin", "lua end"}
  <2>1. /\ Zone!If(where \in {"begin", "begin stack"}, 1) = 0
        /\ Zone!If(where = "lua begin", 1) = 0 /\ Zone!If(where = "lua end", 1) = 0
        /\ Lag(where) = 0
    BY <1>4 DEF Zone!If, Lag
  <2>2. 0 \in Int /\ 0 = 0 - 0 - 0
    OBVIOUS
  <2> QED BY <1>4, <2>1, <2>2, Zenon
<1> QED BY <1>1, <1>2, <1>3, <1>4

LEMMA OwedIs ==
    ASSUME ZoneTypes, ZoneAt
    PROVE  /\ Zone!Owed = Begun + Needs(active, counter) + Lag(place)
           /\ Begun \in Nat /\ Needs(active, counter) \in Nat /\ Lag(place) \in Int
<1>1. PICK b \in Int, l \in Int, e \in Int, lag \in Int :
         /\ b = Zone!If(place \in {"begin", "begin stack"}, 1)
         /\ l = Zone!If(place = "lua begin", 1) /\ e = Zone!If(place = "lua end", 1)
         /\ lag = Lag(place)
         /\ lag = e - b - l
         /\ place # "lua begin" => l = 0
  BY LagIs DEF ZoneTypes
<1>2. PICK begun \in Nat, count \in Nat : begun = Begun /\ count = counter
  BY BegunNat DEF ZoneTypes
<1>3. lag = e - b - l
  BY <1>1
<1>4. CASE active
  <2>1. Zone!Owed = begun - b + (count - l) + e /\ Needs(active, counter) = count
    BY <1>1, <1>2, <1>4 DEF Zone!Owed, Begun, ActiveZones, Zone!If, Needs, Zone!Cardinality, Cardinality
  <2>2. begun - b + (count - l) + e = begun + count + lag
    BY <1>3
  <2> QED BY <1>1, <1>2, <2>1, <2>2
<1>5. CASE ~ active
  <2>1. Zone!Owed = begun - b + 0 + e /\ Needs(active, counter) = 0
    BY <1>1, <1>2, <1>5 DEF Zone!Owed, Begun, ActiveZones, Zone!If, Needs, Zone!Cardinality, Cardinality
  <2>2. l = 0
    BY <1>1, <1>5 DEF ZoneAt
  <2>3. begun - b + 0 + e = begun + 0 + lag
    BY <1>3, <2>2
  <2>4. 0 \in Nat
    OBVIOUS
  <2> QED BY <1>1, <1>2, <2>1, <2>3, <2>4, Zenon
<1> QED BY <1>4, <1>5

LEMMA ZoneInvInit == ASSUME Zone!Init PROVE ZoneInv
<1>1. ActiveZones = {}
  BY DEF Zone!Init, ActiveZones
<1>2. Begun = 0
  BY <1>1, FS_EmptySet DEF Begun
<1>3. isConnected = FALSE /\ active = FALSE /\ place = "out"
  BY DEF Zone!Init, Zone!InitSession
<1>4. isConnected \in BOOLEAN /\ active \in BOOLEAN
  BY <1>3, Zenon
<1>5. ZoneDepth
  BY <1>2, <1>3 DEF Zone!Init, ZoneDepth, Needs, Lag
<1> QED BY <1>3, <1>4, <1>5 DEF Zone!Init, ZoneInv, ZoneTypes, ZoneAt, ZonePlaces

-----------------------------------------------------------------------------
\* What a step has to show: where it leads, and that no less is queued there
\* than what is owed.
LEMMA ZoneKept ==
    ASSUME open' \in Seq(BOOLEAN), counter' \in Nat, active' \in BOOLEAN, isConnected' \in BOOLEAN,
           place' \in ZonePlaces, ~ lonely',
           place' \in {"begin", "begin stack"} => open' # <<>> /\ open'[Len(open')],
           place' \in {"lua begin", "lua text"} => active' /\ counter' > 0,
           NEW d \in Int, NEW b \in Nat, NEW n \in Nat, NEW l \in Int, d >= b + n + l,
           depth' = d, Begun' = b, Needs(active', counter') = n, Lag(place') = l
    PROVE  ZoneInv'
BY DEF ZoneInv, ZoneTypes, ZoneAt, ZoneDepth

LEMMA ZoneStanding ==
    ASSUME ZoneInv
    PROVE  /\ open \in Seq(BOOLEAN) /\ counter \in Nat /\ active \in BOOLEAN
           /\ isConnected \in BOOLEAN /\ ~ lonely
           /\ \E d \in Int, b \in Nat, n \in Nat, l \in Int, c \in Nat :
                /\ d = depth /\ b = Begun /\ n = Needs(active, counter) /\ l = Lag(place) /\ c = counter
                /\ d >= b + n + l
<1>1. /\ Begun \in Nat /\ Needs(active, counter) \in Nat /\ Lag(place) \in Int
  BY OwedIs DEF ZoneInv
<1>2. depth \in Int /\ counter \in Nat /\ depth >= Begun + Needs(active, counter) + Lag(place)
  BY DEF ZoneInv, ZoneTypes, ZoneDepth
<1>3. /\ open \in Seq(BOOLEAN) /\ active \in BOOLEAN /\ isConnected \in BOOLEAN /\ ~ lonely
  BY DEF ZoneInv, ZoneTypes
<1> QED BY <1>1, <1>2, <1>3, Zenon

\* Scoped zones.
LEMMA ScopedKeep ==
    ASSUME ZoneInv, Zone!ZoneBegin \/ Zone!QueueBegin \/ Zone!QueueCallstack \/ Zone!ZoneEnd \/ Zone!ZoneText,
           UNCHANGED Zone!session
    PROVE  ZoneInv'
<1>1. PICK d \in Int, b \in Nat, n \in Nat, l \in Int, c \in Nat :
         /\ d = depth /\ b = Begun /\ n = Needs(active, counter) /\ l = Lag(place) /\ c = counter
         /\ d >= b + n + l
  BY ZoneStanding
<1>2. /\ open \in Seq(BOOLEAN) /\ counter \in Nat /\ active \in BOOLEAN
      /\ isConnected' \in BOOLEAN /\ isConnected \in BOOLEAN /\ ~ lonely
  BY ZoneStanding DEF Zone!session
<1>3. UNCHANGED <<counter, active>>
  BY DEF Zone!ZoneBegin, Zone!QueueBegin, Zone!QueueCallstack, Zone!ZoneEnd, Zone!ZoneText, Zone!zones
<1>4. Needs(active', counter') = n
  BY <1>1, <1>3
<1>5. UNCHANGED open => Begun' = b
  BY <1>1 DEF Begun, ActiveZones
<1>6. CASE Zone!ZoneBegin
  <2>1. open' = Append(open, isConnected) /\ depth' = d /\ ~ lonely' /\ place = "out"
    BY <1>1, <1>2, <1>6 DEF Zone!ZoneBegin, Zone!Step
  <2>2. open' \in Seq(BOOLEAN) /\ open' # <<>> /\ open'[Len(open')] = isConnected
    BY <1>2, <2>1, AppendProperties
  <2>3. l = 0
    BY <1>1, <2>1 DEF Lag
  <2>4. CASE isConnected
    <3>1. place' \in {"begin", "begin stack"}
      BY <1>6, <2>4 DEF Zone!ZoneBegin, Zone!Step
    <3>2. Begun' = b + 1
      BY <1>1, <1>2, <2>1, <2>4, Pushed DEF Zone!If
    <3>3. Lag(place') = -1
      BY <3>1 DEF Lag
    <3>4. b + 1 \in Nat /\ -1 \in Int /\ d >= (b + 1) + n + (-1)
      BY <1>1, <2>3
    <3>5. place' \in ZonePlaces /\ place' \notin {"lua begin", "lua text"}
      BY <3>1 DEF ZonePlaces
    <3> QED BY <1>2, <1>3, <1>4, <2>1, <2>2, <2>4, <3>2, <3>3, <3>4, <3>5, ZoneKept
  <2>5. CASE ~ isConnected
    <3>1. place' = "out"
      BY <1>6, <2>5 DEF Zone!ZoneBegin, Zone!Step
    <3>2. Begun' = b
      <4>1. Begun' = b + 0
        BY <1>1, <1>2, <2>1, <2>5, Pushed DEF Zone!If
      <4> QED BY <4>1
    <3>3. Lag(place') = 0
      BY <3>1 DEF Lag
    <3>4. 0 \in Int /\ d >= b + n + 0
      BY <1>1, <2>3
    <3>5. place' \in ZonePlaces /\ place' \notin {"begin", "begin stack", "lua begin", "lua text"}
      BY <3>1 DEF ZonePlaces
    <3> QED BY <1>2, <1>3, <1>4, <2>1, <2>2, <3>2, <3>3, <3>4, <3>5, ZoneKept
  <2> QED BY <2>4, <2>5
<1>7. CASE Zone!QueueBegin
  <2>1. place \in {"begin", "begin stack"} /\ place' \in {"out", "stack"} /\ UNCHANGED open /\ ~ lonely'
    BY <1>2, <1>7 DEF Zone!QueueBegin, Zone!Step
  <2>2. l = -1 /\ Lag(place') = 0
    BY <1>1, <2>1 DEF Lag
  <2>3. depth' = d + 1
    BY <1>1, <1>7 DEF Zone!QueueBegin
  <2>4. d + 1 \in Int /\ 0 \in Int /\ d + 1 >= b + n + 0
    BY <1>1, <2>2
  <2>5. place' \in ZonePlaces /\ place' \notin {"begin", "begin stack", "lua begin", "lua text"}
    BY <2>1 DEF ZonePlaces
  <2> QED BY <1>2, <1>3, <1>4, <1>5, <2>1, <2>2, <2>3, <2>4, <2>5, ZoneKept
<1>8. CASE Zone!QueueCallstack
  <2>1. place = "stack" /\ place' = "out" /\ UNCHANGED open /\ ~ lonely' /\ depth' = d
    BY <1>1, <1>2, <1>8 DEF Zone!QueueCallstack, Zone!Step, Zone!zones
  <2>2. l = 0 /\ Lag(place') = 0
    BY <1>1, <2>1 DEF Lag
  <2>4. 0 \in Int /\ d >= b + n + 0
    BY <1>1, <2>2
  <2>5. place' \in ZonePlaces /\ place' \notin {"begin", "begin stack", "lua begin", "lua text"}
    BY <2>1 DEF ZonePlaces
  <2> QED BY <1>2, <1>3, <1>4, <1>5, <2>1, <2>2, <2>4, <2>5, ZoneKept
<1>9. CASE Zone!ZoneEnd
  <2>1. /\ place = "out" /\ place' = "out" /\ ~ lonely'
        /\ open # <<>> /\ open' = Front(open) /\ depth' = d - Zone!If(Last(open), 1)
    BY <1>1, <1>2, <1>9 DEF Zone!ZoneEnd, Zone!Step, Zone!Front, Zone!Last, Front, Last
  <2>2. /\ Begun' = b - Zone!If(Last(open), 1) /\ Begun' \in Nat
        /\ Last(open) \in BOOLEAN /\ open' \in Seq(BOOLEAN)
    BY <1>1, <1>2, <2>1, Popped
  <2>3. PICK k \in Int : k = Zone!If(Last(open), 1)
    <3>1. Zone!If(Last(open), 1) \in Int
      BY DEF Zone!If
    <3> QED BY <3>1
  <2>4. l = 0 /\ Lag(place') = 0
    BY <1>1, <2>1 DEF Lag
  <2>5. depth' = d - k /\ Begun' = b - k /\ b - k \in Nat
    BY <2>1, <2>2, <2>3
  <2>6. d - k \in Int /\ 0 \in Int /\ d - k >= (b - k) + n + 0
    BY <1>1, <2>4
  <2>7. place' \in ZonePlaces /\ place' \notin {"begin", "begin stack", "lua begin", "lua text"}
    BY <2>1 DEF ZonePlaces
  <2> QED BY <1>2, <1>3, <1>4, <2>1, <2>2, <2>4, <2>5, <2>6, <2>7, ZoneKept
<1>10. CASE Zone!ZoneText
  <2>1. place = "out" /\ place' = "out" /\ UNCHANGED open /\ depth' = d
    BY <1>1, <1>10 DEF Zone!ZoneText, Zone!Step
  <2>2. b > 0
    BY <1>1, <1>2, <1>10, BegunNat DEF Zone!ZoneText
  <2>3. l = 0 /\ Lag(place') = 0
    BY <1>1, <2>1 DEF Lag
  <2>4. d # 0 /\ 0 \in Int /\ d >= b + n + 0
    BY <1>1, <2>2, <2>3
  <2>5. ~ lonely'
    BY <1>1, <1>2, <1>10, <2>4 DEF Zone!ZoneText
  <2>6. place' \in ZonePlaces /\ place' \notin {"begin", "begin stack", "lua begin", "lua text"}
    BY <2>1 DEF ZonePlaces
  <2> QED BY <1>2, <1>3, <1>4, <1>5, <2>1, <2>3, <2>4, <2>5, <2>6, ZoneKept
<1> QED BY <1>6, <1>7, <1>8, <1>9, <1>10

\* Lua zones.
LEMMA LuaKeep ==
    ASSUME ZoneInv,
           \/ Zone!LuaZoneBegin \/ Zone!LuaQueueBegin \/ Zone!LuaZoneEnd \/ Zone!LuaQueueEnd
           \/ Zone!LuaZoneText \/ Zone!LuaQueueText,
           UNCHANGED Zone!session
    PROVE  ZoneInv'
<1>1. PICK d \in Int, b \in Nat, n \in Nat, l \in Int, c \in Nat :
         /\ d = depth /\ b = Begun /\ n = Needs(active, counter) /\ l = Lag(place) /\ c = counter
         /\ d >= b + n + l
  BY ZoneStanding
<1>2. /\ open \in Seq(BOOLEAN) /\ counter \in Nat /\ active \in BOOLEAN
      /\ isConnected' \in BOOLEAN /\ isConnected \in BOOLEAN /\ ~ lonely
  BY ZoneStanding DEF Zone!session
<1>3. UNCHANGED open /\ Begun' = b
  <2>1. UNCHANGED open
    BY DEF Zone!LuaZoneBegin, Zone!LuaQueueBegin, Zone!LuaZoneEnd, Zone!LuaQueueEnd, Zone!LuaZoneText, Zone!LuaQueueText
  <2> QED BY <1>1, <2>1 DEF Begun, ActiveZones
<1>4. (active => n = c) /\ (c = 0 => n = 0)
  BY <1>1 DEF Needs
\* A step to a place outside of an item, by which no zone becomes traced.
<1>5. ASSUME ~ lonely', depth' = d, active' = FALSE, counter' \in Nat, place = "out", place' = "out"
      PROVE  ZoneInv'
  <2>1. l = 0 /\ Lag(place') = 0
    BY <1>1, <1>5 DEF Lag
  <2>2. Needs(active', counter') = 0
    BY <1>5 DEF Needs
  <2>3. 0 \in Int /\ 0 \in Nat /\ d >= b + 0 + 0
    BY <1>1, <2>1
  <2>4. /\ place' \in ZonePlaces /\ place' \notin {"begin", "begin stack", "lua begin", "lua text"}
        /\ active' \in BOOLEAN
    BY <1>5 DEF ZonePlaces
  <2> QED BY <1>2, <1>3, <1>5, <2>1, <2>2, <2>3, <2>4, ZoneKept
<1>6. CASE Zone!LuaZoneBegin
  <2>1. place = "out" /\ depth' = d /\ ~ lonely' /\ counter' = c + 1
    BY <1>1, <1>2, <1>6 DEF Zone!LuaZoneBegin, Zone!Step
  <2>2. l = 0 /\ c + 1 \in Nat /\ c + 1 > 0
    BY <1>1, <2>1 DEF Lag
  <2>3. CASE Zone!Traced /\ isConnected
    <3>1. place' = "lua begin" /\ active' = TRUE
      BY <1>6, <2>3 DEF Zone!LuaZoneBegin, Zone!Step
    <3>2. n = c
      BY <1>1, <1>4, <2>3 DEF Zone!Traced
    <3>3. Lag(place') = -1 /\ Needs(active', counter') = c + 1
      BY <2>1, <3>1 DEF Lag, Needs
    <3>4. -1 \in Int /\ d >= b + (c + 1) + (-1)
      BY <1>1, <2>2, <3>2
    <3>5. /\ place' \in ZonePlaces /\ place' \notin {"begin", "begin stack"} /\ active' \in BOOLEAN /\ active'
      BY <3>1 DEF ZonePlaces
    <3> QED BY <1>2, <1>3, <2>1, <2>2, <3>3, <3>4, <3>5, ZoneKept
  <2>4. CASE ~ (Zone!Traced /\ isConnected)
    <3>1. place' = "out" /\ active' = FALSE
      BY <1>6, <2>4 DEF Zone!LuaZoneBegin, Zone!Step
    <3> QED BY <1>5, <2>1, <2>2, <3>1
  <2> QED BY <2>3, <2>4
<1>7. CASE Zone!LuaQueueBegin
  <2>1. place = "lua begin" /\ place' = "out" /\ ~ lonely' /\ UNCHANGED <<counter, active>> /\ depth' = d + 1
    BY <1>1, <1>2, <1>7 DEF Zone!LuaQueueBegin, Zone!Step
  <2>2. l = -1 /\ Lag(place') = 0 /\ Needs(active', counter') = n
    BY <1>1, <2>1 DEF Lag
  <2>3. d + 1 \in Int /\ 0 \in Int /\ d + 1 >= b + n + 0
    BY <1>1, <2>2
  <2>4. place' \in ZonePlaces /\ place' \notin {"begin", "begin stack", "lua begin", "lua text"}
    BY <2>1 DEF ZonePlaces
  <2> QED BY <1>2, <1>3, <2>1, <2>2, <2>3, <2>4, ZoneKept
<1>8. CASE Zone!LuaZoneEnd
  <2>1. place = "out" /\ depth' = d /\ ~ lonely' /\ counter > 0 /\ counter' = counter - 1
    BY <1>1, <1>2, <1>8 DEF Zone!LuaZoneEnd, Zone!Step
  <2>2. l = 0 /\ c - 1 \in Nat /\ counter' = c - 1
    BY <1>1, <2>1 DEF Lag
  <2>3. CASE active /\ isConnected
    <3>1. place' = "lua end" /\ active' = TRUE
      BY <1>8, <2>3 DEF Zone!LuaZoneEnd, Zone!Step
    <3>2. n = c
      BY <1>4, <2>3
    <3>3. Lag(place') = 1 /\ Needs(active', counter') = c - 1
      BY <2>2, <3>1 DEF Lag, Needs
    <3>4. 1 \in Int /\ d >= b + (c - 1) + 1
      BY <1>1, <2>2, <3>2
    <3>5. /\ place' \in ZonePlaces /\ place' \notin {"begin", "begin stack", "lua begin", "lua text"}
          /\ active' \in BOOLEAN
      BY <3>1 DEF ZonePlaces
    <3> QED BY <1>2, <1>3, <2>1, <2>2, <3>3, <3>4, <3>5, ZoneKept
  <2>4. CASE ~ (active /\ isConnected)
    <3>1. place' = "out" /\ active' = FALSE
      BY <1>8, <2>4 DEF Zone!LuaZoneEnd, Zone!Step
    <3> QED BY <1>5, <2>1, <2>2, <3>1
  <2> QED BY <2>3, <2>4
<1>9. CASE Zone!LuaQueueEnd
  <2>1. place = "lua end" /\ place' = "out" /\ ~ lonely' /\ UNCHANGED <<counter, active>> /\ depth' = d - 1
    BY <1>1, <1>2, <1>9 DEF Zone!LuaQueueEnd, Zone!Step
  <2>2. l = 1 /\ Lag(place') = 0 /\ Needs(active', counter') = n
    BY <1>1, <2>1 DEF Lag
  <2>3. d - 1 \in Int /\ 0 \in Int /\ d - 1 >= b + n + 0
    BY <1>1, <2>2
  <2>4. place' \in ZonePlaces /\ place' \notin {"begin", "begin stack", "lua begin", "lua text"}
    BY <2>1 DEF ZonePlaces
  <2> QED BY <1>2, <1>3, <2>1, <2>2, <2>3, <2>4, ZoneKept
<1>10. CASE Zone!LuaZoneText
  <2>1. place = "out" /\ depth' = d /\ ~ lonely' /\ counter > 0 /\ UNCHANGED counter
    BY <1>1, <1>2, <1>10 DEF Zone!LuaZoneText, Zone!Step
  <2>2. l = 0
    BY <1>1, <2>1 DEF Lag
  <2>3. CASE active /\ isConnected
    <3>1. place' = "lua text" /\ active' = TRUE /\ active = TRUE
      BY <1>2, <1>10, <2>3 DEF Zone!LuaZoneText, Zone!Step
    <3>2. Lag(place') = 0 /\ Needs(active', counter') = n
      BY <1>1, <2>1, <3>1 DEF Lag
    <3>3. 0 \in Int /\ d >= b + n + 0
      BY <1>1, <2>2
    <3>4. place' \in ZonePlaces /\ place' \notin {"begin", "begin stack"} /\ active' \in BOOLEAN /\ active'
      BY <3>1 DEF ZonePlaces
    <3> QED BY <1>2, <1>3, <2>1, <3>2, <3>3, <3>4, ZoneKept
  <2>4. CASE ~ (active /\ isConnected)
    <3>1. place' = "out" /\ active' = FALSE
      BY <1>10, <2>4 DEF Zone!LuaZoneText, Zone!Step
    <3> QED BY <1>2, <1>5, <2>1, <3>1
  <2> QED BY <2>3, <2>4
<1>11. CASE Zone!LuaQueueText
  <2>1. place = "lua text" /\ place' = "out" /\ UNCHANGED <<counter, active>> /\ depth' = d
    BY <1>1, <1>11 DEF Zone!LuaQueueText, Zone!Step
  <2>2. l = 0 /\ Lag(place') = 0 /\ Needs(active', counter') = n
    BY <1>1, <2>1 DEF Lag
  <2>3. active /\ c > 0
    BY <1>1, <2>1 DEF ZoneInv, ZoneAt
  <2>4. d # 0 /\ 0 \in Int /\ d >= b + n + 0
    <3>1. n = c /\ c > 0 /\ l = 0 /\ d >= b + n + l
      BY <1>1, <1>4, <2>2, <2>3
    <3> QED BY <3>1
  <2>5. ~ lonely'
    BY <1>1, <1>2, <1>11, <2>4 DEF Zone!LuaQueueText
  <2>6. place' \in ZonePlaces /\ place' \notin {"begin", "begin stack", "lua begin", "lua text"}
    BY <2>1 DEF ZonePlaces
  <2> QED BY <1>2, <1>3, <2>1, <2>2, <2>4, <2>5, <2>6, ZoneKept
<1> QED BY <1>6, <1>7, <1>8, <1>9, <1>10, <1>11

LEMMA StillKeep ==
    ASSUME ZoneInv, UNCHANGED Zone!zones, UNCHANGED place, isConnected' \in BOOLEAN
    PROVE  ZoneInv'
<1>1. /\ Begun' = Begun /\ place' = place
      /\ UNCHANGED <<open, counter, active, depth, lonely>>
  BY DEF Zone!zones, Begun, ActiveZones
<1>2. ZoneTypes'
  BY <1>1, Zenon DEF ZoneInv, ZoneTypes
<1>3. ZoneAt'
  BY <1>1 DEF ZoneInv, ZoneAt
<1>4. ZoneDepth'
  BY <1>1, Zenon DEF ZoneInv, ZoneDepth
<1> QED BY <1>1, <1>2, <1>3, <1>4 DEF ZoneInv

\* Places where nothing is owed and nothing has just been entered.
Elsewhere == {"out", "count", "frame load", "frame", "event"}

LEMMA ElsewhereKeep ==
    ASSUME ZoneInv, UNCHANGED Zone!zones, isConnected' \in BOOLEAN,
           place \in Elsewhere, place' \in Elsewhere
    PROVE  ZoneInv'
<1>1. Begun' = Begun /\ UNCHANGED <<open, counter, active, depth, lonely>>
  BY DEF Zone!zones, Begun, ActiveZones
<1>2. Lag(place') = Lag(place)
  BY DEF Lag, Elsewhere
<1>3. ZoneTypes'
  <2>1. place' \in ZonePlaces
    BY DEF ZonePlaces, Elsewhere
  <2> QED BY <1>1, <2>1, Zenon DEF ZoneInv, ZoneTypes
<1>4. ZoneAt'
  BY <1>1 DEF ZoneInv, ZoneAt, Elsewhere
<1>5. ZoneDepth'
  BY <1>1, <1>2, Zenon DEF ZoneInv, ZoneDepth
<1> QED BY <1>1, <1>3, <1>4, <1>5 DEF ZoneInv

LEMMA ZoneInvNext == ASSUME ZoneInv, [Zone!Next]_(Zone!vars) PROVE ZoneInv'
<1>1. place \in ZonePlaces /\ isConnected \in BOOLEAN
  BY DEF ZoneInv, ZoneTypes
<1>2. CASE UNCHANGED Zone!vars
  <2>1. UNCHANGED Zone!zones /\ UNCHANGED place /\ isConnected' \in BOOLEAN
    BY <1>1, <1>2 DEF Zone!vars, Zone!session, Zone!zones
  <2> QED BY <2>1, StillKeep, Zenon
<1>3. CASE (Zone!Accept \/ Zone!Connect \/ Zone!Disconnect) /\ UNCHANGED <<place, Zone!zones, Zone!counted>>
  <2>1. isConnected' \in BOOLEAN
    <3>1. isConnected' = isConnected \/ isConnected' = TRUE \/ isConnected' = FALSE
      BY <1>3 DEF Zone!Accept, Zone!Connect, Zone!Disconnect
    <3> QED BY <1>1, <3>1, Zenon
  <2>2. UNCHANGED Zone!zones /\ UNCHANGED place
    BY <1>3 DEF Zone!zones
  <2> QED BY <2>1, <2>2, StillKeep, Zenon
<1>4. CASE Zone!Payload
  <2>1. UNCHANGED Zone!zones /\ UNCHANGED place /\ isConnected' \in BOOLEAN
    BY <1>1, <1>4 DEF Zone!Payload, Zone!Welcome, Zone!zones
  <2> QED BY <2>1, StillKeep, Zenon
<1>5. ASSUME NEW t \in {Tracer}, Zone!Clear(t) PROVE ZoneInv'
  <2>1. UNCHANGED <<place, open, counter, active, lonely, isConnected>> /\ depth' = Zone!Owed
    BY <1>5 DEF Zone!Clear, Zone!ClearQueue
  <2>2. PICK d \in Int, b \in Nat, n \in Nat, l \in Int :
           /\ b = Begun /\ n = Needs(active, counter) /\ l = Lag(place) /\ d = b + n + l /\ d = Zone!Owed
    <3>1. PICK b \in Nat, n \in Nat, l \in Int : b = Begun /\ n = Needs(active, counter) /\ l = Lag(place)
      BY OwedIs DEF ZoneInv
    <3>2. b + n + l \in Int /\ Zone!Owed = b + n + l
      BY <3>1, OwedIs DEF ZoneInv
    <3> QED BY <3>1, <3>2
  <2>3. Begun' = b /\ Needs(active', counter') = n /\ Lag(place') = l /\ depth' = d
    BY <2>1, <2>2 DEF Begun, ActiveZones
  <2>4. d >= b + n + l
    BY <2>2
  <2>5. /\ open' \in Seq(BOOLEAN) /\ counter' \in Nat /\ active' \in BOOLEAN /\ isConnected' \in BOOLEAN
        /\ place' \in ZonePlaces /\ ~ lonely'
    BY <1>1, <2>1 DEF ZoneInv, ZoneTypes
  <2>6. /\ place' \in {"begin", "begin stack"} => open' # <<>> /\ open'[Len(open')]
        /\ place' \in {"lua begin", "lua text"} => active' /\ counter' > 0
    BY <2>1 DEF ZoneInv, ZoneAt
  <2> QED BY <2>3, <2>4, <2>5, <2>6, ZoneKept
<1>6. CASE Zone!FrameMark /\ UNCHANGED <<Zone!session, Zone!zones, frames>>
  <2>1. UNCHANGED Zone!zones /\ isConnected' \in BOOLEAN /\ place \in Elsewhere /\ place' \in Elsewhere
    BY <1>1, <1>6 DEF Zone!FrameMark, Zone!Step, Zone!session, Elsewhere
  <2> QED BY <2>1, ElsewhereKeep, Zenon
<1>7. CASE Zone!PlotOrMessage /\ UNCHANGED <<Zone!session, Zone!zones, Zone!counted>>
  <2>1. UNCHANGED Zone!zones /\ isConnected' \in BOOLEAN /\ place \in Elsewhere /\ place' \in Elsewhere
    BY <1>1, <1>7 DEF Zone!PlotOrMessage, Zone!Step, Zone!session, Elsewhere
  <2> QED BY <2>1, ElsewhereKeep, Zenon
<1> QED BY <1>2, <1>3, <1>4, <1>5, <1>6, <1>7, ScopedKeep, LuaKeep DEF Zone!Next, Zone!Worker, Zone!Thread

(* The server of a session sees no more ends than begins and no text       *)
(* outside of a zone, however deep zones are nested and however often the  *)
(* connection is lost within them (TracyScoped.hpp:20-107,                 *)
(* TracyLua.hpp:128-324).                                                  *)
THEOREM ZonesAlwaysBalanced == Zone!Spec => []ZonesBalanced
<1>1. Zone!Init => ZoneInv
  BY ZoneInvInit
<1>2. ZoneInv /\ [Zone!Next]_(Zone!vars) => ZoneInv'
  BY ZoneInvNext
<1>3. ZoneInv => ZonesBalanced
  <2> SUFFICES ASSUME ZoneInv PROVE depth >= 0 /\ ~ lonely
    BY DEF ZonesBalanced, Zone!ZonesBalanced
  <2>1. PICK d \in Int, b \in Nat, n \in Nat, l \in Int, c \in Nat :
           /\ d = depth /\ b = Begun /\ n = Needs(active, counter) /\ l = Lag(place) /\ c = counter
           /\ d >= b + n + l
    BY ZoneStanding
  <2>2. b + n + l >= 0
    <3>1. CASE place \in {"begin", "begin stack"}
      <4>1. open # <<>> /\ open[Len(open)] /\ open \in Seq(BOOLEAN)
        BY <3>1 DEF ZoneInv, ZoneAt, ZoneTypes
      <4>2. Len(open) \in DOMAIN open
        BY <4>1
      <4>3. b > 0 /\ l = -1
        BY <2>1, <3>1, <4>1, <4>2, BegunNat DEF Lag
      <4> QED BY <4>3
    <3>2. CASE place = "lua begin"
      <4>1. l = -1 /\ n = c /\ c > 0
        BY <2>1, <3>2 DEF Lag, Needs, ZoneInv, ZoneAt
      <4> QED BY <4>1
    <3>3. CASE place \notin {"begin", "begin stack", "lua begin"}
      <4>1. l = 0 \/ l = 1
        BY <2>1, <3>3 DEF Lag
      <4> QED BY <4>1
    <3> QED BY <3>1, <3>2, <3>3
  <2>3. d >= 0
    BY <2>1, <2>2
  <2> QED BY <2>1, <2>3, ZoneStanding
<1> QED BY <1>1, <1>2, <1>3, PTL DEF Zone!Spec

-----------------------------------------------------------------------------
\* Frames.  The thread has counted one that it has not marked yet.
Marking == place \in {"frame load", "frame"}
Unmarked == IF Marking THEN 1 ELSE 0

FrameTypes ==
    /\ worker \in {"accept", "clear", "welcome", "serve"}
    /\ frameCount \in Nat /\ marks \in Nat /\ frames \in Nat

FrameInv ==
    /\ FrameTypes
    /\ worker \in {"welcome", "serve"} => isConnected = TRUE
    /\ worker = "serve" => frames + marks + Unmarked >= frameCount

LEMMA FrameInvInit == ASSUME Zone!Init PROVE FrameInv
BY DEF Zone!Init, Zone!InitSession, FrameInv, FrameTypes, Unmarked

\* What neither counts nor marks a frame.
LEMMA FramesStay ==
    ASSUME FrameInv, UNCHANGED Zone!counted, Marking' <=> Marking,
           worker' \in {"accept", "clear", "welcome", "serve"},
           worker' = "serve" => worker = "serve",
           worker' \in {"welcome", "serve"} => isConnected' = TRUE
    PROVE  FrameInv'
BY DEF FrameInv, FrameTypes, Zone!counted, Unmarked

\* What is done for a frame, as long as it adds up.
LEMMA FramesMove ==
    ASSUME FrameInv, UNCHANGED <<worker, isConnected, frames>>,
           frameCount' \in Nat, marks' \in Nat,
           worker = "serve" => frames + marks' + Unmarked' >= frameCount'
    PROVE  FrameInv'
BY DEF FrameInv, FrameTypes

LEMMA FrameInvNext == ASSUME FrameInv, [Zone!Next]_(Zone!vars) PROVE FrameInv'
<1>1. CASE UNCHANGED Zone!vars
  BY <1>1, FramesStay DEF FrameInv, FrameTypes, Zone!vars, Zone!session, Marking
<1>2. CASE (Zone!Accept \/ Zone!Connect \/ Zone!Disconnect)
             /\ UNCHANGED <<place, Zone!zones, Zone!counted>>
  BY <1>2, FramesStay DEF FrameInv, FrameTypes, Zone!Accept, Zone!Connect, Zone!Disconnect, Marking
<1>3. CASE Zone!Payload
  BY <1>3 DEF FrameInv, FrameTypes, Zone!Payload, Zone!Welcome, Unmarked
<1>4. ASSUME NEW t \in {Tracer}, Zone!Clear(t) PROVE FrameInv'
  BY <1>4 DEF FrameInv, FrameTypes, Zone!Clear, Zone!ClearQueue
<1>5. CASE /\ \/ Zone!ZoneBegin \/ Zone!QueueBegin \/ Zone!QueueCallstack \/ Zone!ZoneEnd
              \/ Zone!ZoneText \/ Zone!LuaZoneBegin \/ Zone!LuaQueueBegin \/ Zone!LuaZoneEnd
              \/ Zone!LuaQueueEnd \/ Zone!LuaZoneText \/ Zone!LuaQueueText
           /\ UNCHANGED <<Zone!session, Zone!counted>>
  <2>1. ~ Marking /\ ~ Marking'
    BY <1>5 DEF Marking, Zone!ZoneBegin, Zone!QueueBegin, Zone!QueueCallstack, Zone!ZoneEnd,
                Zone!ZoneText, Zone!LuaZoneBegin, Zone!LuaQueueBegin, Zone!LuaZoneEnd,
                Zone!LuaQueueEnd, Zone!LuaZoneText, Zone!LuaQueueText, Zone!Step
  <2> QED
    BY <1>5, <2>1, FramesStay DEF FrameInv, FrameTypes, Zone!session
<1>6. CASE Zone!FrameMark /\ UNCHANGED <<Zone!session, Zone!zones, frames>>
  <2>1. UNCHANGED <<worker, isConnected, frames>>
    BY <1>6 DEF Zone!session
  <2>2. CASE place = "out"
    <3>1. place' = "frame load"
      BY <1>6, <2>2 DEF Zone!FrameMark, Zone!Step
    <3>2. frameCount' = frameCount + 1 /\ marks' = marks
      BY <1>6, <2>2 DEF Zone!FrameMark, Zone!Step
    <3>3. Unmarked = 0 /\ Unmarked' = 1
      BY <2>2, <3>1 DEF Marking, Unmarked
    <3>4. frameCount \in Nat /\ marks \in Nat /\ frames \in Nat
      BY DEF FrameInv, FrameTypes
    <3>5. worker = "serve" => frames + marks + 0 >= frameCount
      BY <3>3 DEF FrameInv
    <3>6. worker = "serve" => frames + marks' + Unmarked' >= frameCount'
      BY <2>1, <3>2, <3>3, <3>4, <3>5
    <3>7. frameCount' \in Nat /\ marks' \in Nat
      BY <3>2, <3>4
    <3> QED BY <2>1, <3>6, <3>7, FramesMove
  <2>3. CASE place = "frame load"
    <3>1. UNCHANGED <<frameCount, marks>> /\ (isConnected = TRUE => place' = "frame")
      BY <1>6, <2>3 DEF Zone!FrameMark, Zone!Step
    <3>2. Marking /\ (isConnected = TRUE => Marking')
      BY <2>3, <3>1 DEF Marking
    <3>3. worker = "serve" => isConnected = TRUE
      BY DEF FrameInv
    <3> QED BY <2>1, <3>1, <3>2, <3>3, FramesMove DEF FrameInv, FrameTypes, Unmarked
  <2>4. CASE place = "frame"
    <3>1. place' = "out" /\ frameCount' = frameCount /\ marks' = marks + 1
      BY <1>6, <2>4 DEF Zone!FrameMark, Zone!Step
    <3>2. Marking /\ ~ Marking'
      BY <2>4, <3>1 DEF Marking
    <3> QED BY <2>1, <3>1, <3>2, FramesMove DEF FrameInv, FrameTypes, Unmarked
  <2> QED BY <1>6, <2>2, <2>3, <2>4 DEF Zone!FrameMark, Zone!Step
<1>7. CASE Zone!PlotOrMessage /\ UNCHANGED <<Zone!session, Zone!zones, Zone!counted>>
  <2>1. ~ Marking /\ ~ Marking'
    BY <1>7 DEF Marking, Zone!PlotOrMessage, Zone!Step
  <2> QED
    BY <1>7, <2>1, FramesStay DEF FrameInv, FrameTypes, Zone!session
<1> QED
  BY <1>1, <1>2, <1>3, <1>4, <1>5, <1>6, <1>7 DEF Zone!Next, Zone!Worker, Zone!Thread

(* No frame is missing from what the server of a session can count,        *)
(* however the connection comes and goes as frames are marked              *)
(* (TracyProfiler.hpp:135-149, TracyProfiler.cpp:968-982).                 *)
THEOREM NoFrameMissed == Zone!Spec => []FramesNotMissed
<1>1. Zone!Init => FrameInv
  BY FrameInvInit
<1>2. FrameInv /\ [Zone!Next]_(Zone!vars) => FrameInv'
  BY FrameInvNext
<1>3. FrameInv => FramesNotMissed
  BY DEF FrameInv, FramesNotMissed, Zone!FramesNotMissed, Zone!If, Marking, Unmarked
<1> QED BY <1>1, <1>2, <1>3, PTL DEF Zone!Spec

-----------------------------------------------------------------------------
\* The queries of an OpenGL context, and places of a ring in general.

LEMMA RestAfter == ASSUME NEW n \in Nat, n >= 1, NEW q \in Int, NEW r \in 0..(n - 1) PROVE (n * q + r) % n = r
OBVIOUS

Round(x) == IF x < 0 THEN x + QueryCount
            ELSE IF x < QueryCount THEN x ELSE IF x < QueryCount + QueryCount THEN x - QueryCount
            ELSE x - QueryCount - QueryCount

\* Up to twice round the ring, or once back.
LEMMA RingIs ==
    ASSUME NEW x \in Int, -QueryCount <= x, x < QueryCount + QueryCount + QueryCount
    PROVE  x % QueryCount = Round(x) /\ Round(x) \in 0..(QueryCount - 1)
<1>1. QueryCount \in Nat /\ QueryCount >= 1
  BY QueriesAssumption
<1>2. Round(x) \in 0..(QueryCount - 1)
  BY <1>1 DEF Round
<1>3. PICK q \in Int : x = QueryCount * q + Round(x)
  <2>1. CASE x < 0
    <3>1. x = QueryCount * (-1) + Round(x)
      BY <1>1, <2>1 DEF Round
    <3> QED BY <3>1
  <2>2. CASE x >= 0 /\ x < QueryCount
    <3>1. x = QueryCount * 0 + Round(x)
      BY <1>1, <2>2 DEF Round
    <3> QED BY <3>1
  <2>3. CASE x >= QueryCount /\ x < QueryCount + QueryCount
    <3>1. x = QueryCount * 1 + Round(x)
      BY <1>1, <2>3 DEF Round
    <3> QED BY <3>1
  <2>4. CASE x >= QueryCount + QueryCount
    <3>1. x = QueryCount * 2 + Round(x)
      BY <1>1, <2>4 DEF Round
    <3> QED BY <3>1
  <2> QED BY <1>1, <2>1, <2>2, <2>3, <2>4
<1> QED BY <1>1, <1>2, <1>3, RestAfter

Rest == 0..(QueryCount - 1)
Uncollected == issued + 1 - next

\* The ring holds what is issued and not collected.
GlRing ==
    /\ head \in Rest /\ tail \in Rest
    /\ issued \in Nat /\ finished \in Nat /\ next \in Nat
    /\ Uncollected \in Rest /\ head = Round(tail + Uncollected)
    /\ query \in [Rest -> Nat]
    /\ \A k \in Rest : k < Uncollected => query[Round(tail + k)] = next + k

\* The search: what lies a places from the tail is finished, or a is 0; the
\* end is b places from it, once more round the ring or not.
GlSearch ==
    place = "search" =>
        \E a, b \in Rest :
            /\ a < b /\ b <= Uncollected
            /\ start = tail + a /\ (end = tail + b \/ end = tail + b + QueryCount)
            /\ a # 0 => next + a <= finished

GlReads ==
    place = "read" =>
        \E a \in Rest :
            /\ a <= Uncollected /\ start = Round(tail + a)
            /\ a # 0 => next + a <= finished + 1

GlInv == place \in {"out", "search", "read"} /\ GlRing /\ GlSearch /\ GlReads

LEMMA PlacesAre == Gl!Places = Rest /\ Vk!Places = Rest
BY DEF Gl!Places, Vk!Places, Rest

LEMMA CountNat == QueryCount \in Nat /\ QueryCount >= 1
BY QueriesAssumption

LEMMA GlInit == ASSUME Gl!Init PROVE GlInv
<1>1. head = 0 /\ tail = 0 /\ issued = 0 /\ finished = 0 /\ next = 1 /\ place = "out"
  BY DEF Gl!Init
<1>2. query = [p \in Rest |-> 0]
  BY PlacesAre DEF Gl!Init
<1> QED BY <1>1, <1>2, CountNat DEF GlInv, GlRing, GlSearch, GlReads, Rest, Uncollected, Round

\* One more is issued, while nothing is collected.
LEMMA GlIssues ==
    ASSUME GlInv, place = "out", UNCHANGED <<place, finished>>, Gl!NextQueryId
    PROVE  GlInv'
<1>1. /\ head \in Rest /\ tail \in Rest /\ Uncollected \in Rest /\ head = Round(tail + Uncollected)
      /\ issued \in Nat /\ finished \in Nat /\ next \in Nat /\ query \in [Rest -> Nat]
      /\ \A k \in Rest : k < Uncollected => query[Round(tail + k)] = next + k
  BY DEF GlInv, GlRing
<1>2. /\ (head + 1) % QueryCount # tail /\ head' = (head + 1) % QueryCount /\ issued' = issued + 1
      /\ query' = [query EXCEPT ![head] = issued + 1] /\ tail' = tail /\ next' = next
  BY DEF Gl!NextQueryId, Gl!Wrap
<1>3. head' = Round(head + 1) /\ Round(head + 1) # tail
  <2>1. head + 1 \in Int /\ -QueryCount <= head + 1 /\ head + 1 < QueryCount + QueryCount + QueryCount
    BY <1>1, CountNat DEF Rest
  <2> QED BY <1>2, <2>1, RingIs
<1>4. Uncollected' = Uncollected + 1
  BY <1>1, <1>2 DEF Uncollected
<1>5. Uncollected' \in Rest /\ head' \in Rest /\ head' = Round(tail + Uncollected')
  BY <1>1, <1>3, <1>4, CountNat DEF Rest, Round
<1>6. query' \in [Rest -> Nat] /\ query'[head] = next + Uncollected
  BY <1>1, <1>2 DEF Uncollected
<1>7. ASSUME NEW k \in Rest, k < Uncollected' PROVE query'[Round(tail + k)] = next + k
  <2>1. CASE k = Uncollected
    BY <1>1, <1>6, <2>1
  <2>2. CASE k # Uncollected
    <3>1. k < Uncollected
      BY <1>1, <1>4, <1>7, <2>2 DEF Rest
    <3>2. Round(tail + k) \in Rest /\ Round(tail + k) # head
      BY <1>1, <3>1, CountNat DEF Rest, Round
    <3> QED BY <1>1, <1>2, <3>1, <3>2
  <2> QED BY <2>1, <2>2
<1>8. GlRing'
  BY <1>1, <1>2, <1>5, <1>6, <1>7 DEF GlRing
<1> QED BY <1>8 DEF GlInv, GlSearch, GlReads

\* The middle is between the start and the end.
LEMMA Halves == ASSUME NEW d \in Nat, d > 1 PROVE d \div 2 \in Nat /\ d \div 2 >= 1 /\ d \div 2 < d
OBVIOUS

LEMMA GlProbes == ASSUME GlInv, Gl!Probe PROVE GlInv'
<1>1. /\ place = "search" /\ UNCHANGED <<head, tail, query, issued, next, finished, place>>
  BY DEF Gl!Probe, Gl!ring
<1>2. /\ tail \in Rest /\ Uncollected \in Rest /\ next \in Nat /\ finished \in Nat
      /\ \A k \in Rest : k < Uncollected => query[Round(tail + k)] = next + k
  BY DEF GlInv, GlRing
<1>3. PICK a \in Rest, b \in Rest :
        /\ a < b /\ b <= Uncollected
        /\ start = tail + a /\ (end = tail + b \/ end = tail + b + QueryCount)
        /\ a # 0 => next + a <= finished
  BY <1>1 DEF GlInv, GlSearch
<1>4. end - start = b - a \/ end - start = b - a + QueryCount
  BY <1>2, <1>3, CountNat DEF Rest
<1>5. (end - start) % QueryCount = b - a
  <2>1. /\ end - start \in Int /\ -QueryCount <= end - start
        /\ end - start < QueryCount + QueryCount + QueryCount /\ Round(end - start) = b - a
    BY <1>3, <1>4, CountNat DEF Rest, Round
  <2> QED BY <2>1, RingIs
<1>6. b - a > 1 /\ b - a \in Nat
  BY <1>3, <1>5 DEF Gl!Probe, Gl!Wrap, Rest
<1>7. PICK h \in Nat : h = (b - a) \div 2 /\ h >= 1 /\ h < b - a
  BY <1>6, Halves
<1>8. PICK m \in Rest : m = a + h /\ a < m /\ m < b
  BY <1>3, <1>7, CountNat DEF Rest
<1>9. start + ((end - start) % QueryCount) \div 2 = tail + m
  <2>1. ((end - start) % QueryCount) \div 2 = h
    BY <1>5, <1>7
  <2> QED BY <1>2, <1>3, <1>8, <2>1 DEF Rest
<1>10. PICK mid : mid = tail + m
  OBVIOUS
<1>11. IF Gl!Available(mid) THEN start' = mid /\ UNCHANGED end ELSE end' = mid /\ UNCHANGED start
  BY <1>9, <1>10 DEF Gl!Probe, Gl!Wrap
<1>12. Gl!Available(mid) <=> next + m <= finished
  <2>1. mid % QueryCount = Round(mid)
    BY <1>2, <1>8, <1>10, CountNat, RingIs DEF Rest
  <2>2. query[Round(tail + m)] = next + m
    BY <1>2, <1>3, <1>8 DEF Rest
  <2> QED BY <1>10, <2>1, <2>2 DEF Gl!Available, Gl!Wrap
<1>13. GlRing' /\ GlReads' /\ place' = "search"
  BY <1>1 DEF GlInv, GlRing, GlReads, Uncollected
<1>14. GlSearch'
  <2>1. Uncollected' = Uncollected
    BY <1>1 DEF Uncollected
  <2>2. CASE Gl!Available(mid)
    <3>1. /\ m < b /\ b <= Uncollected' /\ start' = tail' + m
          /\ end' = tail' + b \/ end' = tail' + b + QueryCount
          /\ next' + m <= finished'
      BY <1>1, <1>3, <1>8, <1>10, <1>11, <1>12, <2>1, <2>2
    <3> QED BY <3>1 DEF GlSearch
  <2>3. CASE ~ Gl!Available(mid)
    <3>1. /\ a < m /\ m <= Uncollected' /\ start' = tail' + a /\ end' = tail' + m
          /\ a # 0 => next' + a <= finished'
      BY <1>1, <1>2, <1>3, <1>8, <1>10, <1>11, <2>1, <2>3 DEF Rest
    <3> QED BY <3>1 DEF GlSearch
  <2> QED BY <2>2, <2>3
<1> QED BY <1>13, <1>14 DEF GlInv

LEMMA GlNext == ASSUME GlInv, [Gl!Next]_(Gl!vars) PROVE GlInv'
<1> USE CountNat
<1>1. ASSUME UNCHANGED <<head, tail, query, issued, next, finished, place, start, end>> PROVE GlInv'
  BY <1>1 DEF GlInv, GlRing, GlSearch, GlReads, Uncollected
<1>2. CASE Gl!Worker \/ UNCHANGED Gl!vars
  BY <1>1, <1>2 DEF Gl!Worker, Gl!vars, Gl!ring, Gl!collecting
<1>3. CASE Gl!ScopeBegin \/ Gl!ScopeEnd
  <2>1. place = "out" /\ UNCHANGED <<finished, place, start, end>>
    BY <1>3 DEF Gl!ScopeBegin, Gl!ScopeEnd, Gl!collecting
  <2>2. Gl!NextQueryId \/ UNCHANGED <<head, tail, query, issued, next>>
    BY <1>3 DEF Gl!ScopeBegin, Gl!ScopeEnd, Gl!ring
  <2> QED BY <1>1, <2>1, <2>2, GlIssues
<1>4. CASE Gl!Finish
  <2>1. finished' = finished + 1 /\ UNCHANGED <<head, tail, query, issued, next, place, start, end>>
    BY <1>4 DEF Gl!Finish, Gl!ring, Gl!collecting
  <2>2. finished \in Nat /\ next \in Nat
    BY DEF GlInv, GlRing
  <2>3. GlRing' /\ Uncollected' = Uncollected
    BY <2>1, <2>2 DEF GlInv, GlRing, Uncollected
  <2>4. GlSearch'
    <3> SUFFICES ASSUME place = "search" PROVE GlSearch'
      BY <2>1 DEF GlSearch
    <3>1. PICK a \in Rest, b \in Rest :
        /\ a < b /\ b <= Uncollected
        /\ start = tail + a /\ (end = tail + b \/ end = tail + b + QueryCount)
        /\ a # 0 => next + a <= finished
      BY DEF GlInv, GlSearch
    <3>2. a # 0 => next' + a <= finished'
      BY <2>1, <2>2, <3>1 DEF Rest
    <3> QED BY <2>1, <2>3, <3>1, <3>2 DEF GlSearch
  <2>5. GlReads'
    <3> SUFFICES ASSUME place = "read" PROVE GlReads'
      BY <2>1 DEF GlReads
    <3>1. PICK a \in Rest :
            a <= Uncollected /\ start = Round(tail + a) /\ (a # 0 => next + a <= finished + 1)
      BY DEF GlInv, GlReads
    <3>2. a # 0 => next' + a <= finished' + 1
      BY <2>1, <2>2, <3>1 DEF Rest
    <3> QED BY <2>1, <2>3, <3>1, <3>2 DEF GlReads
  <2> QED BY <2>1, <2>3, <2>4, <2>5 DEF GlInv
<1>5. CASE Gl!Collect
  <2>1. /\ place = "out" /\ tail # head /\ place' = "search" /\ start' = tail /\ end' = head + QueryCount
        /\ UNCHANGED <<head, tail, query, issued, next, finished>>
    BY <1>5 DEF Gl!Collect, Gl!ring
  <2>2. tail \in Rest /\ head \in Rest /\ Uncollected \in Rest /\ head = Round(tail + Uncollected)
    BY DEF GlInv, GlRing
  <2>3. 0 \in Rest /\ 0 < Uncollected /\ Uncollected' = Uncollected
    BY <2>1, <2>2 DEF Rest, Round, Uncollected
  <2>4. start' = tail + 0 /\ (end' = tail + Uncollected \/ end' = tail + Uncollected + QueryCount)
    BY <2>1, <2>2 DEF Rest, Round
  <2>5. GlSearch'
    BY <2>1, <2>2, <2>3, <2>4 DEF GlSearch, Rest
  <2> QED BY <2>1, <2>5 DEF GlInv, GlRing, GlReads, Uncollected
<1>6. CASE Gl!Reset
  <2>1. /\ place = "out" /\ place' = "out" /\ head' = 0 /\ tail' = 0 /\ next' = issued + 1
        /\ UNCHANGED <<query, issued, finished>>
    BY <1>6 DEF Gl!Reset, Gl!collecting
  <2>2. Uncollected' = 0 /\ 0 \in Rest /\ next' \in Nat
    BY <2>1 DEF GlInv, GlRing, Uncollected, Rest
  <2>3. GlRing'
    BY <2>1, <2>2 DEF GlInv, GlRing, Rest, Round
  <2> QED BY <2>1, <2>3 DEF GlInv, GlSearch, GlReads
<1>7. CASE Gl!Searched
  <2>1. /\ place = "search" /\ place' = "read" /\ (end - start) % QueryCount <= 1
        /\ start' = start % QueryCount /\ UNCHANGED <<head, tail, query, issued, next, finished>>
    BY <1>7 DEF Gl!Searched, Gl!Found, Gl!Wrap, Gl!ring
  <2>2. PICK a \in Rest, b \in Rest :
        /\ a < b /\ b <= Uncollected
        /\ start = tail + a /\ (end = tail + b \/ end = tail + b + QueryCount)
        /\ a # 0 => next + a <= finished
    BY <2>1 DEF GlInv, GlSearch
  <2>3. tail \in Rest /\ Uncollected \in Rest /\ finished \in Nat /\ next \in Nat
    BY DEF GlInv, GlRing
  <2>4. start' = Round(tail + a)
    <3>1. /\ tail + a \in Int /\ -QueryCount <= tail + a
          /\ tail + a < QueryCount + QueryCount + QueryCount
      BY <2>3 DEF Rest
    <3> QED BY <2>1, <2>2, <3>1, RingIs
  <2>5. a <= Uncollected /\ (a # 0 => next + a <= finished + 1)
    BY <2>2, <2>3 DEF Rest
  <2>6. GlReads'
    BY <2>1, <2>4, <2>5 DEF GlReads, Uncollected
  <2> QED BY <2>1, <2>6 DEF GlInv, GlRing, GlSearch, Uncollected
<1>8. CASE Gl!Read
  <2>1. /\ place = "read" /\ tail # start /\ tail' = (tail + 1) % QueryCount /\ next' = next + 1
        /\ UNCHANGED <<head, query, issued, finished, place, start, end>>
    BY <1>8 DEF Gl!Read, Gl!Wrap, Gl!collecting
  <2>2. /\ head \in Rest /\ tail \in Rest /\ Uncollected \in Rest /\ head = Round(tail + Uncollected)
        /\ issued \in Nat /\ finished \in Nat /\ next \in Nat /\ query \in [Rest -> Nat]
        /\ \A k \in Rest : k < Uncollected => query[Round(tail + k)] = next + k
    BY DEF GlInv, GlRing
  <2>3. PICK a \in Rest :
          a <= Uncollected /\ start = Round(tail + a) /\ (a # 0 => next + a <= finished + 1)
    BY <2>1 DEF GlInv, GlReads
  <2>4. a >= 1
    BY <2>1, <2>2, <2>3 DEF Rest, Round
  <2>5. tail' = Round(tail + 1) /\ tail' \in Rest
    <3>1. /\ tail + 1 \in Int /\ -QueryCount <= tail + 1
          /\ tail + 1 < QueryCount + QueryCount + QueryCount
      BY <2>2 DEF Rest
    <3> QED BY <2>1, <3>1, RingIs DEF Rest
  <2>6. Uncollected' = Uncollected - 1
    BY <2>1, <2>2 DEF Uncollected
  <2>7. \A k \in Rest : k < Uncollected' => k + 1 \in Rest /\ Round(tail' + k) = Round(tail + (k + 1))
    BY <2>2, <2>5, <2>6 DEF Rest, Round
  <2>8. ASSUME NEW k \in Rest, k < Uncollected' PROVE query[Round(tail' + k)] = next' + k
    <3>1. k + 1 \in Rest /\ k + 1 < Uncollected /\ Round(tail' + k) = Round(tail + (k + 1))
      BY <2>2, <2>6, <2>7, <2>8 DEF Rest
    <3>2. query[Round(tail + (k + 1))] = next + (k + 1)
      BY <2>2, <3>1
    <3> QED BY <2>1, <2>2, <3>1, <3>2 DEF Rest
  <2>9. Uncollected' \in Rest /\ head = Round(tail' + Uncollected')
    BY <2>2, <2>3, <2>4, <2>5, <2>6 DEF Rest, Round
  <2>10. GlRing'
    BY <2>1, <2>2, <2>5, <2>8, <2>9 DEF GlRing
  <2>11. PICK c \in Rest : c = a - 1
    BY <2>3, <2>4 DEF Rest
  <2>12. Round(tail' + c) = Round(tail + a)
    BY <2>2, <2>3, <2>4, <2>5, <2>11 DEF Rest, Round
  <2>13. c <= Uncollected' /\ (c # 0 => next' + c <= finished' + 1)
    BY <2>1, <2>2, <2>3, <2>6, <2>11 DEF Rest
  <2>14. GlReads'
    BY <2>1, <2>3, <2>12, <2>13 DEF GlReads
  <2> QED BY <2>1, <2>10, <2>14 DEF GlInv, GlSearch
<1>9. CASE Gl!Collected
  <2>1. place' = "out" /\ UNCHANGED <<head, tail, query, issued, next, finished>>
    BY <1>9 DEF Gl!Collected, Gl!ring
  <2> QED BY <2>1 DEF GlInv, GlRing, GlSearch, GlReads, Uncollected
<1> QED BY <1>2, <1>3, <1>4, <1>5, <1>6, <1>7, <1>8, <1>9, GlProbes DEF Gl!Next

LEMMA GlSound == ASSUME GlInv PROVE Gl!GlTimesInOrder
<1> USE CountNat
<1>1. /\ head \in Rest /\ tail \in Rest /\ Uncollected \in Rest /\ head = Round(tail + Uncollected)
      /\ issued \in Nat /\ finished \in Nat /\ next \in Nat /\ query \in [Rest -> Nat]
      /\ \A k \in Rest : k < Uncollected => query[Round(tail + k)] = next + k
  BY DEF GlInv, GlRing
<1>2. \A k \in Rest : (tail + k) % QueryCount = Round(tail + k) /\ Round(tail + k) \in Rest
  BY <1>1, RingIs DEF Rest
<1>3. (head - tail) % QueryCount = Uncollected
  <2>1. Round(head - tail) = Uncollected
    BY <1>1 DEF Rest, Round
  <2> QED BY <1>1, <2>1, RingIs DEF Rest
<1>4. ASSUME NEW k \in 0..(issued - next) PROVE query[Gl!Wrap(tail + k)] = next + k
  <2>1. k \in Rest /\ k < Uncollected
    BY <1>1, <1>4 DEF Rest, Uncollected
  <2> QED BY <1>1, <1>2, <2>1 DEF Gl!Wrap
<1>5. ASSUME place = "read", NEW p \in Gl!Between(tail, start) PROVE Gl!Available(p)
  <2>1. PICK a \in Rest :
          a <= Uncollected /\ start = Round(tail + a) /\ (a # 0 => next + a <= finished + 1)
    BY <1>5 DEF GlInv, GlReads
  <2>2. (start - tail) % QueryCount = a
    <3>1. Round(start - tail) = a
      BY <1>1, <2>1 DEF Rest, Round
    <3>2. start \in Rest
      BY <1>1, <2>1 DEF Rest, Round
    <3>3. /\ start - tail \in Int /\ -QueryCount <= start - tail
          /\ start - tail < QueryCount + QueryCount + QueryCount
      BY <1>1, <3>2 DEF Rest
    <3> QED BY <3>1, <3>3, RingIs
  <2>3. PICK k \in 0..(a - 1) : p = (tail + k) % QueryCount
    BY <1>5, <2>2 DEF Gl!Between, Gl!Wrap
  <2>4. k \in Rest /\ k < Uncollected /\ a # 0
    BY <1>1, <2>1, <2>3 DEF Rest
  <2>5. p \in Rest /\ query[p] = next + k
    BY <1>1, <1>2, <2>3, <2>4
  <2>6. p % QueryCount = p
    BY <2>5, RingIs DEF Rest, Round
  <2>7. next + k <= finished
    BY <1>1, <2>1, <2>3, <2>4 DEF Rest
  <2> QED BY <2>5, <2>6, <2>7 DEF Gl!Available, Gl!Wrap
<1> QED BY <1>3, <1>4, <1>5 DEF Gl!GlTimesInOrder, Gl!Wrap, Uncollected

-----------------------------------------------------------------------------
\* The queries of a Vulkan context.

Commands == [place : Rest, number : Nat \ {0}] \cup [first : Rest, cnt : 0..QueryCount]

\* What is in place p and what will be: 0 stands for now.
Written(cmd, p, n) == ~ Vk!IsReset(cmd) /\ cmd.place = p /\ cmd.number = n
Clears(cmd, p) == Vk!IsReset(cmd) /\ cmd.first <= p /\ p < cmd.first + cmd.cnt
Holds(P, Q, i, p, n) == IF i = 0 THEN P[p] = n /\ n # 0 ELSE Written(Q[i], p, n)
ClearedAfter(Q, i, p) == \E j \in 1..Len(Q) : i < j /\ Clears(Q[j], p)

\* How far a place is from the tail, and how many places are in use.
Distance(p) == IF p >= tail THEN p - tail ELSE p - tail + QueryCount
Used == IF head >= tail THEN head - tail ELSE head - tail + QueryCount

\* Two times in one place have a reset between them, and a time in a place that
\* is not in use any more has one after it.
OnePerPlace(P, Q) ==
    \A p \in Rest : \A i, j \in 0..Len(Q) : \A n, m \in Nat :
        i < j /\ Holds(P, Q, i, p, n) /\ Holds(P, Q, j, p, m)
          => \E l \in 1..Len(Q) : i < l /\ l < j /\ Clears(Q[l], p)
FreeCleared(P, Q) ==
    \A p \in Rest : Distance(p) >= Used =>
        \A i \in 0..Len(Q) : \A n \in Nat : Holds(P, Q, i, p, n) => ClearedAfter(Q, i, p)

\* Unless the ring has been taken past its head, the last time of a place in use
\* is that of its query, and it is not reset.
OwnTimes(P, Q) ==
    Uncollected = Used =>
        \A p \in Rest : Distance(p) < Used =>
            \E i \in 0..Len(Q) : Holds(P, Q, i, p, next + Distance(p)) /\ ~ ClearedAfter(Q, i, p)

VkTypes ==
    /\ head \in Rest /\ tail \in Rest /\ oldCnt \in Nat /\ tail + oldCnt <= QueryCount
    /\ issued \in Nat /\ next \in Nat \ {0}
    /\ pool \in [Rest -> Nat] /\ commands \in Seq(Commands)
    /\ Uncollected = Used \/ Uncollected <= Used - QueryCount

VkInv ==
    /\ VkTypes /\ OnePerPlace(pool, commands) /\ FreeCleared(pool, commands)
    /\ OwnTimes(pool, commands) /\ ~ wrong

LEMMA CommandKinds ==
    /\ \A p \in Rest, n \in Nat \ {0} :
         /\ Vk!Write(p, n) \in Commands
         /\ \A q, m : Written(Vk!Write(p, n), q, m) <=> q = p /\ m = n
         /\ \A q : ~ Clears(Vk!Write(p, n), q)
    /\ \A f \in Rest, c \in 0..QueryCount :
         /\ Vk!Resets(f, c) \in Commands
         /\ \A q, m : ~ Written(Vk!Resets(f, c), q, m)
         /\ \A q : Clears(Vk!Resets(f, c), q) <=> f <= q /\ q < f + c
BY DEF Commands, Vk!Write, Vk!Resets, Vk!IsReset, Written, Clears

\* A command is added at the end.
Adds(P, Q, R, cmd) ==
    /\ R \in Seq(Commands) /\ Len(R) = Len(Q) + 1 /\ Len(Q) \in Nat
    /\ R[Len(R)] = cmd
    /\ \A i \in 1..Len(Q) : i \in 1..Len(R) /\ R[i] = Q[i]
    /\ \A i \in 0..Len(Q) : \A p, n : Holds(P, R, i, p, n) <=> Holds(P, Q, i, p, n)
    /\ \A p, n : Holds(P, R, Len(R), p, n) <=> Written(cmd, p, n)
    /\ \A i \in 0..Len(Q) : \A p : ClearedAfter(R, i, p) <=> ClearedAfter(Q, i, p) \/ Clears(cmd, p)
    /\ \A p : ~ ClearedAfter(R, Len(R), p)

LEMMA Added ==
    ASSUME NEW P, NEW Q \in Seq(Commands), NEW cmd \in Commands
    PROVE  Adds(P, Q, Append(Q, cmd), cmd)
<1>0. PICK R : R = Append(Q, cmd)
  OBVIOUS
<1>1. /\ R \in Seq(Commands) /\ Len(R) = Len(Q) + 1 /\ Len(Q) \in Nat /\ R[Len(R)] = cmd
      /\ \A i \in 1..Len(Q) : i \in 1..Len(R) /\ R[i] = Q[i]
  BY <1>0
<1>2. ASSUME NEW i \in 0..Len(Q), NEW p, NEW n PROVE Holds(P, R, i, p, n) <=> Holds(P, Q, i, p, n)
  BY <1>1 DEF Holds
<1>3. ASSUME NEW p, NEW n PROVE Holds(P, R, Len(R), p, n) <=> Written(cmd, p, n)
  BY <1>1 DEF Holds
<1>4. ASSUME NEW i \in 0..Len(Q), NEW p
      PROVE  ClearedAfter(R, i, p) <=> ClearedAfter(Q, i, p) \/ Clears(cmd, p)
  BY <1>1 DEF ClearedAfter
<1>5. \A p : ~ ClearedAfter(R, Len(R), p)
  BY <1>1 DEF ClearedAfter
<1> QED BY <1>0, <1>1, <1>2, <1>3, <1>4, <1>5 DEF Adds

\* The places have at most one time each as long as only free ones are written.
LEMMA AddedOnePerPlace ==
    ASSUME NEW P, NEW Q, NEW R, NEW cmd, Adds(P, Q, R, cmd), OnePerPlace(P, Q),
           \A p \in Rest : \A n \in Nat : Written(cmd, p, n) =>
              \A i \in 0..Len(Q) : \A m \in Nat : Holds(P, Q, i, p, m) => ClearedAfter(Q, i, p)
    PROVE  OnePerPlace(P, R)
<1>2. Len(R) = Len(Q) + 1 /\ Len(Q) \in Nat
  BY DEF Adds
<1>3. ASSUME NEW p \in Rest, NEW i \in 0..Len(R), NEW j \in 0..Len(R), NEW n \in Nat, NEW m \in Nat,
             i < j, Holds(P, R, i, p, n), Holds(P, R, j, p, m)
      PROVE  \E l \in 1..Len(R) : i < l /\ l < j /\ Clears(R[l], p)
  <2>1. i \in 0..Len(Q)
    BY <1>2, <1>3
  <2>2. Holds(P, Q, i, p, n)
    BY <1>3, <2>1 DEF Adds
  <2>3. CASE j = Len(R)
    <3>1. Written(cmd, p, m)
      BY <1>3, <2>3 DEF Adds
    <3>2. ClearedAfter(Q, i, p)
      BY <2>1, <2>2, <3>1
    <3>3. PICK l \in 1..Len(Q) : i < l /\ Clears(Q[l], p)
      BY <3>2 DEF ClearedAfter
    <3>4. l \in 1..Len(R) /\ R[l] = Q[l]
      BY DEF Adds
    <3> QED BY <1>2, <2>3, <3>3, <3>4
  <2>4. CASE j # Len(R)
    <3>1. j \in 0..Len(Q)
      BY <1>2, <1>3, <2>4
    <3>2. Holds(P, Q, j, p, m)
      BY <1>3, <3>1 DEF Adds
    <3>3. PICK l \in 1..Len(Q) : i < l /\ l < j /\ Clears(Q[l], p)
      BY <1>3, <2>1, <2>2, <3>1, <3>2 DEF OnePerPlace
    <3>4. l \in 1..Len(R) /\ R[l] = Q[l]
      BY DEF Adds
    <3> QED BY <3>3, <3>4
  <2> QED BY <2>3, <2>4
<1> QED BY <1>3 DEF OnePerPlace

LEMMA VkInit == ASSUME Vk!Init PROVE VkInv
<1>1. head = 0 /\ tail = 0 /\ oldCnt = 0 /\ issued = 0 /\ next = 1 /\ wrong = FALSE /\ commands = <<>>
  BY DEF Vk!Init
<1>2. pool = [p \in Rest |-> 0]
  BY PlacesAre DEF Vk!Init
<1>3. Used = 0 /\ Uncollected = 0 /\ Len(commands) = 0 /\ commands \in Seq(Commands)
  BY <1>1 DEF Used, Uncollected
<1>4. VkTypes
  BY <1>1, <1>2, <1>3, CountNat DEF VkTypes, Rest
<1>5. OnePerPlace(pool, commands)
  BY <1>3 DEF OnePerPlace
<1>6. FreeCleared(pool, commands)
  BY <1>2, <1>3 DEF FreeCleared, Holds
<1>7. OwnTimes(pool, commands)
  BY <1>1, <1>3, CountNat DEF OwnTimes, Distance, Rest
<1> QED BY <1>1, <1>4, <1>5, <1>6, <1>7 DEF VkInv

\* A query is written into a free place.
LEMMA VkIssues == ASSUME VkInv, Vk!NextQueryId PROVE VkInv'
<1> USE CountNat
<1>1. /\ head \in Rest /\ tail \in Rest /\ oldCnt \in Nat /\ tail + oldCnt <= QueryCount
      /\ issued \in Nat /\ next \in Nat \ {0} /\ pool \in [Rest -> Nat] /\ commands \in Seq(Commands)
      /\ Uncollected = Used \/ Uncollected <= Used - QueryCount
  BY DEF VkInv, VkTypes
<1>2. /\ (head + 1) % QueryCount # tail /\ head' = (head + 1) % QueryCount /\ issued' = issued + 1
      /\ commands' = Append(commands, Vk!Write(head, issued + 1))
      /\ tail' = tail /\ oldCnt' = oldCnt /\ next' = next /\ wrong' = wrong /\ pool' = pool
  BY DEF Vk!NextQueryId
<1>3. head' = Round(head + 1) /\ head' # tail /\ head' \in Rest
  <2>1. head + 1 \in Int /\ -QueryCount <= head + 1 /\ head + 1 < QueryCount + QueryCount + QueryCount
    BY <1>1 DEF Rest
  <2> QED BY <1>2, <2>1, RingIs DEF Rest
<1>4. Used' = Used + 1 /\ Uncollected' = Uncollected + 1 /\ Used \in Nat /\ Uncollected \in Int
  <2>1. Used \in Nat /\ Uncollected \in Int /\ Uncollected' = Uncollected + 1
    BY <1>1, <1>2 DEF Used, Uncollected, Rest
  <2>2. ASSUME head + 1 < QueryCount PROVE Used' = Used + 1
    <3>1. head' = head + 1 /\ tail' = tail /\ head \in Int /\ tail \in Int /\ head + 1 # tail
      BY <1>1, <1>2, <1>3, <2>2 DEF Rest, Round
    <3> QED BY <3>1 DEF Used
  <2>3. ASSUME head + 1 = QueryCount PROVE Used' = Used + 1
    <3>1. head' = 0 /\ tail' = tail /\ head \in Int /\ tail \in Nat /\ tail # 0 /\ tail <= head
      BY <1>1, <1>2, <1>3, <2>3 DEF Rest, Round
    <3> QED BY <2>3, <3>1 DEF Used
  <2> QED BY <1>1, <2>1, <2>2, <2>3 DEF Rest
<1>5. Distance(head) = Used /\ \A p \in Rest : /\ Distance(p) \in Rest
                                               /\ Distance(p) = Used => p = head
  BY <1>1 DEF Distance, Used, Rest
<1>6. \A p \in Rest : Distance(p)' = Distance(p)
  BY <1>2 DEF Distance
<1>7. PICK cmd \in Commands : /\ cmd = Vk!Write(head, issued + 1)
                              /\ \A q, m : Written(cmd, q, m) <=> q = head /\ m = issued + 1
                              /\ \A q : ~ Clears(cmd, q)
  <2>1. issued + 1 \in Nat \ {0}
    BY <1>1
  <2> QED BY <1>1, <2>1, CommandKinds
<1>8. Adds(pool, commands, commands', cmd) /\ commands' \in Seq(Commands)
      /\ Len(commands') = Len(commands) + 1 /\ Len(commands) \in Nat
  <2>1. Adds(pool, commands, commands', cmd)
    BY <1>1, <1>2, <1>7, Added
  <2> QED BY <2>1 DEF Adds
<1>9. VkTypes'
  BY <1>1, <1>2, <1>3, <1>4, <1>8 DEF VkTypes
<1>10. OnePerPlace(pool, commands')
  <2>1. ASSUME NEW p \in Rest, NEW n \in Nat, Written(cmd, p, n),
               NEW i \in 0..Len(commands), NEW m \in Nat, Holds(pool, commands, i, p, m)
        PROVE  ClearedAfter(commands, i, p)
    <3>1. p = head /\ Distance(p) >= Used
      BY <1>4, <1>5, <1>7, <2>1
    <3> QED BY <2>1, <3>1 DEF VkInv, FreeCleared
  <2> QED BY <1>8, <2>1, AddedOnePerPlace DEF VkInv
<1>11. FreeCleared(pool, commands)'
  <2>1. ASSUME NEW p \in Rest, Distance(p) >= Used + 1, NEW i \in 0..Len(commands'), NEW n \in Nat,
               Holds(pool, commands', i, p, n)
        PROVE  ClearedAfter(commands', i, p)
    <3>1. p # head /\ Distance(p) >= Used
      <4>1. Distance(p) \in Int /\ Used \in Int /\ Distance(p) >= Used + 1 /\ Distance(head) = Used
        BY <1>4, <1>5, <2>1 DEF Rest
      <4> QED BY <4>1
    <3>2. i # Len(commands')
      BY <1>7, <1>8, <2>1, <3>1 DEF Adds
    <3>3. i \in 0..Len(commands)
      BY <1>8, <3>2
    <3>4. Holds(pool, commands, i, p, n)
      BY <1>8, <2>1, <3>3 DEF Adds
    <3>5. ClearedAfter(commands, i, p)
      BY <3>1, <3>3, <3>4 DEF VkInv, FreeCleared
    <3> QED BY <1>8, <3>3, <3>5 DEF Adds
  <2> QED BY <1>2, <1>4, <1>6, <2>1 DEF FreeCleared
<1>12. OwnTimes(pool, commands)'
  <2>1. ASSUME Uncollected = Used, NEW p \in Rest, Distance(p) < Used + 1
        PROVE  \E i \in 0..Len(commands') :
                  Holds(pool, commands', i, p, next + Distance(p)) /\ ~ ClearedAfter(commands', i, p)
    <3>1. CASE Distance(p) = Used
      <4>1. p = head /\ next + Distance(p) = issued + 1
        BY <1>1, <1>5, <2>1, <3>1 DEF Uncollected
      <4>2. Holds(pool, commands', Len(commands'), p, next + Distance(p))
        BY <1>7, <1>8, <4>1 DEF Adds
      <4>3. ~ ClearedAfter(commands', Len(commands'), p)
        BY <1>8 DEF Adds
      <4> QED BY <1>8, <4>2, <4>3
    <3>2. CASE Distance(p) # Used
      <4>1. Distance(p) < Used
        BY <1>4, <1>5, <2>1, <3>2 DEF Rest
      <4>2. PICK i \in 0..Len(commands) :
              Holds(pool, commands, i, p, next + Distance(p)) /\ ~ ClearedAfter(commands, i, p)
        BY <2>1, <4>1 DEF VkInv, OwnTimes
      <4>3. /\ Holds(pool, commands', i, p, next + Distance(p)) /\ ~ ClearedAfter(commands', i, p)
        BY <1>7, <1>8, <4>2 DEF Adds
      <4> QED BY <1>8, <4>3
    <3> QED BY <3>1, <3>2
  <2>2. Uncollected' = Used' => Uncollected = Used
    BY <1>4
  <2> QED BY <1>2, <1>4, <1>6, <2>1, <2>2 DEF OwnTimes
<1> QED BY <1>2, <1>9, <1>10, <1>11, <1>12 DEF VkInv

\* The GPU executes the first command.
LEMMA VkExecutes == ASSUME VkInv, Vk!Execute PROVE VkInv'
<1>1. /\ pool \in [Rest -> Nat] /\ commands \in Seq(Commands) /\ commands # <<>>
      /\ UNCHANGED <<head, tail, oldCnt, issued, next, wrong>>
  BY DEF VkInv, VkTypes, Vk!Execute, Vk!ring
<1>2. PICK cmd \in Commands : cmd = commands[1] /\ cmd = Head(commands)
  BY <1>1
<1>3. PICK Q : Q = Tail(commands)
  OBVIOUS
<1>4. /\ commands' = Q /\ Q \in Seq(Commands) /\ Len(Q) + 1 = Len(commands) /\ Len(Q) \in Nat
      /\ \A i \in 1..Len(Q) : i + 1 \in 1..Len(commands) /\ Q[i] = commands[i + 1]
  <2>1. commands' = Q
    BY <1>3 DEF Vk!Execute
  <2> QED BY <1>1, <1>3, <2>1
<1>5. /\ pool' \in [Rest -> Nat]
      /\ \A p \in Rest : \A n \in Nat : pool'[p] = n /\ n # 0
            <=> IF Clears(cmd, p) THEN FALSE
                ELSE Written(cmd, p, n) \/ ((\A m \in Nat : ~ Written(cmd, p, m)) /\ pool[p] = n /\ n # 0)
  <2>1. CASE Vk!IsReset(cmd)
    <3>1. cmd \in [first : Rest, cnt : 0..QueryCount]
      BY <2>1 DEF Commands, Vk!IsReset
    <3>2. pool' = [p \in Rest |-> IF p \in Vk!Span(cmd.first, cmd.cnt) THEN 0 ELSE pool[p]]
      BY <1>2, <2>1, PlacesAre DEF Vk!Execute
    <3>3. \A p \in Rest : p \in Vk!Span(cmd.first, cmd.cnt) <=> Clears(cmd, p)
      BY <2>1, <3>1, CountNat DEF Vk!Span, Clears, Rest
    <3>4. \A p, m : ~ Written(cmd, p, m)
      BY <2>1 DEF Written
    <3> QED BY <1>1, <3>2, <3>3, <3>4
  <2>2. CASE ~ Vk!IsReset(cmd)
    <3>1. cmd \in [place : Rest, number : Nat \ {0}]
      BY <2>2 DEF Commands, Vk!IsReset
    <3>2. pool' = [pool EXCEPT ![cmd.place] = cmd.number]
      BY <1>2, <2>2 DEF Vk!Execute
    <3>3. \A p, m : Written(cmd, p, m) <=> cmd.place = p /\ cmd.number = m
      BY <2>2 DEF Written
    <3>4. \A p : ~ Clears(cmd, p)
      BY <2>2 DEF Clears
    <3>5. cmd.place \in Rest /\ cmd.number \in Nat /\ cmd.number # 0
      BY <3>1
    <3> QED BY <1>1, <3>2, <3>3, <3>4, <3>5
  <2> QED BY <2>1, <2>2
\* What is in a place then was there, or was to be written first.
<1>6. ASSUME NEW p \in Rest, NEW i \in 0..Len(Q), NEW n \in Nat, Holds(pool', Q, i, p, n)
      PROVE  \E k \in {i, i + 1} : /\ k \in 0..Len(commands) /\ Holds(pool, commands, k, p, n)
                                   /\ k = i => i = 0 /\ ~ Clears(cmd, p)
  <2>1. CASE i = 0
    <3>1. pool'[p] = n /\ n # 0
      BY <1>6, <2>1 DEF Holds
    <3>2. ~ Clears(cmd, p) /\ (Written(cmd, p, n) \/ (pool[p] = n /\ n # 0))
      BY <1>5, <3>1
    <3>3. Written(cmd, p, n) => Holds(pool, commands, 1, p, n)
      BY <1>2 DEF Holds
    <3>4. pool[p] = n => Holds(pool, commands, 0, p, n)
      BY <3>1 DEF Holds
    <3> QED BY <1>4, <2>1, <3>2, <3>3, <3>4
  <2>2. CASE i # 0
    <3>1. Holds(pool, commands, i + 1, p, n)
      BY <1>4, <1>6, <2>2 DEF Holds
    <3> QED BY <1>4, <3>1
  <2> QED BY <2>1, <2>2
<1>7. \A i \in 0..Len(Q) : \A p : ClearedAfter(Q, i, p) <=> ClearedAfter(commands, i + 1, p)
  <2>1. ASSUME NEW i \in 0..Len(Q), NEW p, ClearedAfter(Q, i, p) PROVE ClearedAfter(commands, i + 1, p)
    <3>1. PICK j \in 1..Len(Q) : i < j /\ Clears(Q[j], p)
      BY <2>1 DEF ClearedAfter
    <3>2. j + 1 \in 1..Len(commands) /\ i + 1 < j + 1 /\ Clears(commands[j + 1], p)
      BY <1>4, <3>1
    <3> QED BY <3>2 DEF ClearedAfter
  <2>2. ASSUME NEW i \in 0..Len(Q), NEW p, ClearedAfter(commands, i + 1, p) PROVE ClearedAfter(Q, i, p)
    <3>1. PICK j \in 1..Len(commands) : i + 1 < j /\ Clears(commands[j], p)
      BY <2>2 DEF ClearedAfter
    <3>2. PICK l \in 1..Len(Q) : l + 1 = j
      <4>1. j - 1 \in 1..Len(Q)
        BY <1>4, <3>1
      <4> QED BY <4>1
    <3>3. i < l /\ Clears(Q[l], p)
      BY <1>4, <3>1, <3>2
    <3> QED BY <3>3 DEF ClearedAfter
  <2> QED BY <2>1, <2>2
<1>8. \A p : ClearedAfter(commands, 0, p) <=> ClearedAfter(commands, 1, p) \/ Clears(cmd, p)
  <2>1. 1 \in 1..Len(commands)
    BY <1>1
  <2>2. ASSUME NEW p, ClearedAfter(commands, 0, p) PROVE ClearedAfter(commands, 1, p) \/ Clears(cmd, p)
    BY <1>2, <2>2 DEF ClearedAfter
  <2>3. ASSUME NEW p, ClearedAfter(commands, 1, p) \/ Clears(cmd, p) PROVE ClearedAfter(commands, 0, p)
    BY <1>2, <2>1, <2>3 DEF ClearedAfter
  <2> QED BY <2>2, <2>3
<1>9. OnePerPlace(pool', Q)
  <2>1. ASSUME NEW p \in Rest, NEW i \in 0..Len(Q), NEW j \in 0..Len(Q), NEW n \in Nat, NEW m \in Nat,
               i < j, Holds(pool', Q, i, p, n), Holds(pool', Q, j, p, m)
        PROVE  \E l \in 1..Len(Q) : i < l /\ l < j /\ Clears(Q[l], p)
    <3>1. PICK k \in {i, i + 1} : /\ k \in 0..Len(commands) /\ Holds(pool, commands, k, p, n)
                                  /\ k = i => i = 0 /\ ~ Clears(cmd, p)
      BY <1>6, <2>1
    <3>2. j + 1 \in 0..Len(commands) /\ Holds(pool, commands, j + 1, p, m)
      <4>1. j # 0
        BY <2>1
      <4> QED BY <1>4, <2>1, <4>1 DEF Holds
    <3>3. PICK l \in 1..Len(commands) : k < l /\ l < j + 1 /\ Clears(commands[l], p)
      <4>1. k < j + 1 /\ k \in 0..Len(commands)
        BY <2>1, <3>1
      <4>2. OnePerPlace(pool, commands) /\ Holds(pool, commands, k, p, n)
        BY <3>1 DEF VkInv
      <4> QED BY <3>2, <4>1, <4>2 DEF OnePerPlace
    <3>4. i + 1 < l
      <4>1. CASE k = i
        <5>1. i = 0 /\ ~ Clears(cmd, p)
          BY <3>1, <4>1
        <5>2. l # 1
          BY <1>2, <3>3, <5>1
        <5> QED BY <3>3, <5>1, <5>2
      <4>2. CASE k = i + 1
        BY <3>3, <4>2
      <4> QED BY <4>1, <4>2
    <3>5. PICK q \in 1..Len(Q) : q + 1 = l
      BY <1>4, <3>3, <3>4
    <3>6. i < q /\ q < j /\ Clears(Q[q], p)
      BY <1>4, <3>3, <3>4, <3>5
    <3> QED BY <3>6
  <2> QED BY <2>1 DEF OnePerPlace
<1>10. \A p \in Rest : Distance(p)' = Distance(p) /\ Used' = Used
  BY <1>1 DEF Distance, Used
<1>11. FreeCleared(pool, commands)'
  <2>1. ASSUME NEW p \in Rest, Distance(p) >= Used, NEW i \in 0..Len(Q), NEW n \in Nat,
               Holds(pool', Q, i, p, n)
        PROVE  ClearedAfter(Q, i, p)
    <3>1. PICK k \in {i, i + 1} : /\ k \in 0..Len(commands) /\ Holds(pool, commands, k, p, n)
                                  /\ k = i => i = 0 /\ ~ Clears(cmd, p)
      BY <1>6, <2>1
    <3>2. ClearedAfter(commands, k, p)
      <4>1. FreeCleared(pool, commands) /\ Holds(pool, commands, k, p, n) /\ k \in 0..Len(commands)
        BY <3>1 DEF VkInv
      <4> QED BY <2>1, <4>1 DEF FreeCleared
    <3>3. CASE k = i + 1
      BY <1>7, <3>2, <3>3
    <3>4. CASE k = i
      <4>1. i = 0 /\ ~ Clears(cmd, p)
        BY <3>1, <3>4
      <4>2. ClearedAfter(commands, 0, p)
        BY <3>2, <3>4, <4>1
      <4>3. ClearedAfter(commands, i + 1, p)
        BY <1>8, <4>1, <4>2
      <4> QED BY <1>7, <4>3
    <3> QED BY <3>3, <3>4
  <2> QED BY <1>4, <1>10, <2>1 DEF FreeCleared
<1>12. OwnTimes(pool, commands)'
  <2>1. ASSUME Uncollected = Used, NEW p \in Rest, Distance(p) < Used
        PROVE  \E i \in 0..Len(Q) : Holds(pool', Q, i, p, next + Distance(p)) /\ ~ ClearedAfter(Q, i, p)
    <3>1. PICK k \in 0..Len(commands) :
            Holds(pool, commands, k, p, next + Distance(p)) /\ ~ ClearedAfter(commands, k, p)
      BY <2>1 DEF VkInv, OwnTimes
    <3>2. PICK n \in Nat : n = next + Distance(p) /\ n # 0
      BY CountNat DEF VkInv, VkTypes, Distance, Rest
    <3>3. CASE k = 0
      <4>1. pool[p] = n /\ n # 0 /\ ~ Clears(cmd, p)
        BY <1>8, <3>1, <3>2, <3>3 DEF Holds
      <4>2. ASSUME NEW m \in Nat, Written(cmd, p, m) PROVE FALSE
        <5>1. 0 \in 0..Len(commands) /\ 1 \in 0..Len(commands) /\ 0 < 1
          BY <1>4
        <5>2. Holds(pool, commands, 0, p, n) /\ Holds(pool, commands, 1, p, m)
          BY <1>2, <4>1, <4>2 DEF Holds
        <5>3. \E l \in 1..Len(commands) : 0 < l /\ l < 1 /\ Clears(commands[l], p)
          BY <5>1, <5>2 DEF VkInv, OnePerPlace
        <5> QED BY <5>3
      <4>3. pool'[p] = n /\ n # 0
        BY <1>5, <4>1, <4>2
      <4>4. 0 \in 0..Len(Q) /\ ~ ClearedAfter(Q, 0, p)
        BY <1>4, <1>7, <1>8, <3>1, <3>3
      <4> QED BY <3>2, <4>3, <4>4 DEF Holds
    <3>4. CASE k # 0
      <4>1. PICK i \in 0..Len(Q) : i + 1 = k
        BY <1>4, <3>4
      <4>2. ~ ClearedAfter(Q, i, p)
        BY <1>7, <3>1, <4>1
      <4>3. CASE i = 0
        <5>1. Written(cmd, p, n)
          BY <1>2, <3>1, <3>2, <4>1, <4>3 DEF Holds
        <5>2. ~ Clears(cmd, p)
          BY <5>1 DEF Written, Clears
        <5>3. pool'[p] = n /\ n # 0
          BY <1>5, <3>2, <5>1, <5>2
        <5> QED BY <3>2, <4>2, <4>3, <5>3 DEF Holds
      <4>4. CASE i # 0
        <5>1. Holds(pool', Q, i, p, n)
          BY <1>4, <3>1, <3>2, <4>1, <4>4 DEF Holds
        <5> QED BY <3>2, <4>2, <5>1
      <4> QED BY <4>3, <4>4
    <3> QED BY <3>3, <3>4
  <2>2. Uncollected' = Uncollected /\ next' = next
    BY <1>1 DEF Uncollected
  <2>3. Used' = Used
    BY <1>1 DEF Used
  <2> QED BY <1>4, <1>10, <2>1, <2>2, <2>3 DEF OwnTimes
<1>13. VkTypes'
  BY <1>1, <1>4, <1>5 DEF VkInv, VkTypes, Used, Uncollected
<1> QED BY <1>1, <1>4, <1>9, <1>11, <1>12, <1>13 DEF VkInv

\* All places are reset.
LEMMA VkDisconnects == ASSUME VkInv, Vk!Disconnected PROVE VkInv'
<1> USE CountNat
<1>1. /\ oldCnt \in Nat /\ tail \in Rest /\ tail + oldCnt <= QueryCount /\ issued \in Nat
      /\ pool \in [Rest -> Nat] /\ commands \in Seq(Commands)
  BY DEF VkInv, VkTypes
<1>2. /\ commands' = Append(commands, Vk!Resets(0, QueryCount))
      /\ head' = 0 /\ tail' = 0 /\ next' = issued + 1 /\ UNCHANGED <<oldCnt, issued, wrong, pool>>
  BY DEF Vk!Disconnected
<1>3. PICK cmd \in Commands : /\ cmd = Vk!Resets(0, QueryCount)
                              /\ \A q, m : ~ Written(cmd, q, m)
                              /\ \A q \in Rest : Clears(cmd, q)
  <2>1. 0 \in Rest /\ QueryCount \in 0..QueryCount
    BY DEF Rest
  <2> QED BY <2>1, CommandKinds DEF Rest
<1>4. Adds(pool, commands, commands', cmd) /\ commands' \in Seq(Commands)
      /\ Len(commands') = Len(commands) + 1 /\ Len(commands) \in Nat
  <2>1. Adds(pool, commands, commands', cmd)
    BY <1>1, <1>2, <1>3, Added
  <2> QED BY <2>1 DEF Adds
<1>5. Used' = 0 /\ Uncollected' = 0
  BY <1>1, <1>2 DEF Used, Uncollected
<1>6. VkTypes'
  BY <1>1, <1>2, <1>4, <1>5 DEF VkTypes, Rest
<1>7. OnePerPlace(pool, commands')
  BY <1>3, <1>4, AddedOnePerPlace DEF VkInv
<1>8. FreeCleared(pool, commands)'
  <2>1. ASSUME NEW p \in Rest, NEW i \in 0..Len(commands'), NEW n \in Nat, Holds(pool, commands', i, p, n)
        PROVE  ClearedAfter(commands', i, p)
    <3>1. i # Len(commands')
      BY <1>3, <1>4, <2>1 DEF Adds
    <3>2. i \in 0..Len(commands)
      BY <1>4, <3>1
    <3> QED BY <1>3, <1>4, <3>2 DEF Adds
  <2> QED BY <1>2, <2>1 DEF FreeCleared
<1>9. OwnTimes(pool, commands)'
  <2>1. \A p \in Rest : ~ (Distance(p)' < 0)
    BY <1>2 DEF Distance, Rest
  <2> QED BY <1>5, <2>1 DEF OwnTimes
<1> QED BY <1>2, <1>6, <1>7, <1>8, <1>9 DEF VkInv

\* How many are collected at a time.
LEMMA CountIs ==
    ASSUME VkTypes, tail # head
    PROVE  /\ Vk!Count \in 1..QueryCount /\ tail + Vk!Count <= QueryCount
           /\ \A k \in 0..(Vk!Count - 1) : tail + k \in Rest /\ Distance(tail + k) = k
<1> USE CountNat
<1>1. PICK cnt : cnt = Vk!Count
  OBVIOUS
<1>2. head \in Rest /\ tail \in Rest /\ oldCnt \in Nat /\ tail + oldCnt <= QueryCount
  BY DEF VkTypes
<1>3. cnt \in 1..QueryCount /\ tail + cnt <= QueryCount
  BY <1>1, <1>2 DEF Vk!Count, Rest
<1>4. \A k \in 0..(cnt - 1) : tail + k \in Rest /\ Distance(tail + k) = k
  BY <1>2, <1>3 DEF Distance, Rest
<1> QED BY <1>1, <1>3, <1>4

\* What is ready is the time that is due, or its reset is still to come.
LEMMA VkReady ==
    ASSUME VkInv, tail # head, Vk!Ready
    PROVE  ~ Vk!WrongTime
<1> USE CountNat
<1>1. PICK cnt \in Nat :
        /\ cnt = Vk!Count /\ cnt \in 1..QueryCount /\ tail + cnt <= QueryCount
        /\ \A k \in 0..(cnt - 1) : tail + k \in Rest /\ Distance(tail + k) = k
  BY CountIs DEF VkInv
<1>2. /\ head \in Rest /\ tail \in Rest /\ next \in Nat \ {0} /\ issued \in Nat
      /\ pool \in [Rest -> Nat] /\ commands \in Seq(Commands)
      /\ OnePerPlace(pool, commands) /\ FreeCleared(pool, commands) /\ OwnTimes(pool, commands)
  BY DEF VkInv, VkTypes
<1> SUFFICES ASSUME Vk!Kept, NEW k \in 0..(cnt - 1), pool[tail + k] # next + k,
                    ~ Vk!Stale(tail + k)
             PROVE  FALSE
  BY <1>1 DEF Vk!WrongTime
<1>3. Uncollected = Used
  <2>1. head - tail \in Int /\ -QueryCount <= head - tail /\ head - tail < QueryCount + QueryCount + QueryCount
    BY <1>2 DEF Rest
  <2>2. Round(head - tail) = Used
    BY <1>2 DEF Round, Used, Rest
  <2> QED BY <2>1, <2>2, RingIs DEF Vk!Kept, Uncollected
<1>4. PICK p \in Rest : p = tail + k /\ Distance(p) = k
  BY <1>1
<1>5. pool[p] \in Nat /\ pool[p] # 0
  <2>1. p \in Vk!Span(tail, Vk!Count)
    BY <1>1, <1>2, <1>4 DEF Vk!Span, Rest
  <2> QED BY <1>2, <2>1 DEF Vk!Ready
<1>6. 0 \in 0..Len(commands) /\ Holds(pool, commands, 0, p, pool[p])
  BY <1>2, <1>5 DEF Holds
<1>7. ASSUME NEW l \in 1..Len(commands), Clears(commands[l], p) PROVE FALSE
  <2>1. PICK cmd \in Commands : cmd = commands[l]
    BY <1>2
  <2>2. Vk!IsReset(cmd) /\ cmd.first <= p /\ p < cmd.first + cmd.cnt
    BY <1>7, <2>1 DEF Clears
  <2>3. cmd.first \in Rest /\ cmd.cnt \in 0..QueryCount
    BY <2>2 DEF Commands, Vk!IsReset
  <2>4. p \in Vk!Span(cmd.first, cmd.cnt)
    BY <2>2, <2>3 DEF Vk!Span, Rest
  <2>5. l \in DOMAIN commands
    BY <1>2
  <2> QED BY <1>4, <2>1, <2>2, <2>4, <2>5 DEF Vk!Stale
<1>8. CASE k >= Used
  <2>1. ClearedAfter(commands, 0, p)
    BY <1>2, <1>4, <1>5, <1>6, <1>8 DEF FreeCleared
  <2> QED BY <1>7, <2>1 DEF ClearedAfter
<1>9. CASE k < Used
  <2>1. PICK i \in 0..Len(commands) : Holds(pool, commands, i, p, next + k)
    BY <1>2, <1>3, <1>4, <1>9 DEF OwnTimes
  <2>2. i # 0
    BY <1>4, <2>1 DEF Holds
  <2>3. next + k \in Nat /\ 0 < i
    BY <1>2, <2>2
  <2>4. \E l \in 1..Len(commands) : 0 < l /\ l < i /\ Clears(commands[l], p)
    BY <1>2, <1>5, <1>6, <2>1, <2>3 DEF OnePerPlace
  <2> QED BY <1>7, <2>4
<1>10. Used \in Int
  BY <1>2 DEF Used, Rest
<1> QED BY <1>8, <1>9, <1>10

\* How far everything is from the tail once it has moved on.
LEMMA TailMoves ==
    ASSUME head \in Rest, tail \in Rest, NEW cnt \in 1..QueryCount, tail + cnt <= QueryCount,
           UNCHANGED head, tail' = IF tail + cnt = QueryCount THEN 0 ELSE tail + cnt
    PROVE  /\ tail' \in Rest
           /\ Used' = IF cnt <= Used THEN Used - cnt ELSE Used - cnt + QueryCount
           /\ \A p \in Rest : /\ Distance(p) < cnt <=> (tail <= p /\ p < tail + cnt)
                              /\ Distance(p)' = IF Distance(p) < cnt THEN Distance(p) - cnt + QueryCount
                                                ELSE Distance(p) - cnt
<1> USE CountNat
<1>1. CASE tail + cnt = QueryCount
  <2>1. tail' = 0 /\ head' = head
    BY <1>1
  <2>2. Used' = IF cnt <= Used THEN Used - cnt ELSE Used - cnt + QueryCount
    BY <1>1, <2>1 DEF Used, Rest
  <2>3. ASSUME NEW p \in Rest
        PROVE  /\ Distance(p) < cnt <=> (tail <= p /\ p < tail + cnt)
               /\ Distance(p)' = IF Distance(p) < cnt THEN Distance(p) - cnt + QueryCount
                                 ELSE Distance(p) - cnt
    BY <1>1, <2>1 DEF Distance, Rest
  <2> QED BY <2>1, <2>2, <2>3 DEF Rest
<1>2. CASE tail + cnt # QueryCount
  <2>1. tail' = tail + cnt /\ head' = head /\ tail' \in Rest
    BY <1>2 DEF Rest
  <2>2. Used' = IF cnt <= Used THEN Used - cnt ELSE Used - cnt + QueryCount
    BY <1>2, <2>1 DEF Used, Rest
  <2>3. ASSUME NEW p \in Rest
        PROVE  /\ Distance(p) < cnt <=> (tail <= p /\ p < tail + cnt)
               /\ Distance(p)' = IF Distance(p) < cnt THEN Distance(p) - cnt + QueryCount
                                 ELSE Distance(p) - cnt
    BY <1>2, <2>1 DEF Distance, Rest
  <2> QED BY <2>1, <2>2, <2>3
<1> QED BY <1>1, <1>2

LEMMA VkCollects == ASSUME VkInv, Vk!Collect PROVE VkInv'
<1> USE CountNat
<1>1. /\ head \in Rest /\ tail \in Rest /\ next \in Nat \ {0} /\ issued \in Nat
      /\ pool \in [Rest -> Nat] /\ commands \in Seq(Commands)
      /\ Uncollected = Used \/ Uncollected <= Used - QueryCount
  BY DEF VkInv, VkTypes
<1>2. tail # head /\ Vk!Ready
  BY DEF Vk!Collect
<1>3. PICK cnt \in Nat : cnt = Vk!Count /\ cnt \in 1..QueryCount /\ tail + cnt <= QueryCount
  BY <1>2, CountIs DEF VkInv
<1>4. /\ wrong' = (wrong \/ Vk!WrongTime) /\ oldCnt' = 0 /\ next' = next + cnt
      /\ tail' = IF tail + cnt = QueryCount THEN 0 ELSE tail + cnt
      /\ UNCHANGED <<head, issued, pool>>
      /\ commands' = Append(commands, Vk!Resets(tail, cnt))
  BY <1>3 DEF Vk!Collect, Vk!AfterCollect
<1>5. ~ wrong'
  BY <1>2, <1>4, VkReady DEF VkInv
<1>6. PICK cmd \in Commands : /\ cmd = Vk!Resets(tail, cnt)
                              /\ \A q, m : ~ Written(cmd, q, m)
                              /\ \A q : Clears(cmd, q) <=> tail <= q /\ q < tail + cnt
  <2>1. cnt \in 0..QueryCount
    BY <1>3
  <2> QED BY <1>1, <2>1, CommandKinds
<1>7. Adds(pool, commands, commands', cmd) /\ commands' \in Seq(Commands)
      /\ Len(commands') = Len(commands) + 1 /\ Len(commands) \in Nat
  <2>1. Adds(pool, commands, commands', cmd)
    BY <1>1, <1>4, <1>6, Added
  <2> QED BY <2>1 DEF Adds
<1>8. /\ tail' \in Rest
      /\ Used' = IF cnt <= Used THEN Used - cnt ELSE Used - cnt + QueryCount
      /\ \A p \in Rest : /\ Distance(p) < cnt <=> (tail <= p /\ p < tail + cnt)
                         /\ Distance(p)' = IF Distance(p) < cnt THEN Distance(p) - cnt + QueryCount
                                           ELSE Distance(p) - cnt
  BY <1>1, <1>3, <1>4, TailMoves
<1>9. Used \in Rest /\ Uncollected \in Int /\ Uncollected' = Uncollected - cnt
  BY <1>1, <1>3, <1>4 DEF Used, Uncollected, Rest
<1>10. \A p \in Rest : Distance(p) \in Rest
  BY <1>1 DEF Distance, Rest
<1>11. VkTypes'
  <2>1. Uncollected' = Used' \/ Uncollected' <= Used' - QueryCount
    BY <1>1, <1>3, <1>8, <1>9 DEF Rest
  <2>2. next' \in Nat \ {0} /\ oldCnt' \in Nat /\ tail' + oldCnt' <= QueryCount
    BY <1>1, <1>3, <1>4, <1>8 DEF Rest
  <2> QED BY <1>1, <1>4, <1>7, <1>8, <2>1, <2>2 DEF VkTypes
<1>12. OnePerPlace(pool, commands')
  BY <1>6, <1>7, AddedOnePerPlace DEF VkInv
<1>13. FreeCleared(pool, commands)'
  <2>1. ASSUME NEW p \in Rest, Distance(p)' >= Used', NEW i \in 0..Len(commands'), NEW n \in Nat,
               Holds(pool, commands', i, p, n)
        PROVE  ClearedAfter(commands', i, p)
    <3>1. i # Len(commands')
      BY <1>6, <1>7, <2>1 DEF Adds
    <3>2. i \in 0..Len(commands)
      BY <1>7, <3>1
    <3>3. Holds(pool, commands, i, p, n)
      BY <1>7, <2>1, <3>2 DEF Adds
    <3>4. CASE Distance(p) < cnt
      <4>1. Clears(cmd, p)
        BY <1>6, <1>8, <3>4
      <4> QED BY <1>7, <3>2, <4>1 DEF Adds
    <3>5. CASE ~ (Distance(p) < cnt)
      <4>1. Distance(p) >= Used
        <5>1. Distance(p)' = Distance(p) - cnt /\ Used' >= Used - cnt
          BY <1>3, <1>8, <1>9, <3>5 DEF Rest
        <5>2. Distance(p) \in Int /\ Used \in Int /\ Used' \in Int
          BY <1>3, <1>8, <1>9, <1>10 DEF Rest
        <5> QED BY <2>1, <5>1, <5>2
      <4>2. ClearedAfter(commands, i, p)
        BY <3>2, <3>3, <4>1 DEF VkInv, FreeCleared
      <4> QED BY <1>7, <3>2, <4>2 DEF Adds
    <3> QED BY <3>4, <3>5
  <2> QED BY <1>4, <2>1 DEF FreeCleared
<1>14. OwnTimes(pool, commands)'
  <2>1. ASSUME Uncollected' = Used', NEW p \in Rest, Distance(p)' < Used'
        PROVE  \E i \in 0..Len(commands') :
                  Holds(pool, commands', i, p, next' + Distance(p)') /\ ~ ClearedAfter(commands', i, p)
    <3>1. cnt <= Used /\ Uncollected = Used
      BY <1>1, <1>3, <1>8, <1>9, <2>1 DEF Rest
    <3>2. PICK d \in Rest : d = Distance(p)
      BY <1>10
    <3>3. ~ (d < cnt) /\ d < Used /\ Distance(p)' = d - cnt
      <4>1. Distance(p)' = IF d < cnt THEN d - cnt + QueryCount ELSE d - cnt
        BY <1>8, <3>2
      <4> QED BY <1>8, <1>9, <2>1, <3>1, <4>1 DEF Rest
    <3>4. PICK i \in 0..Len(commands) :
            Holds(pool, commands, i, p, next + d) /\ ~ ClearedAfter(commands, i, p)
      BY <3>1, <3>2, <3>3 DEF VkInv, OwnTimes
    <3>5. next' + Distance(p)' = next + d
      BY <1>1, <1>4, <3>3 DEF Rest
    <3>6. ~ Clears(cmd, p)
      BY <1>6, <1>8, <3>2, <3>3
    <3>7. Holds(pool, commands', i, p, next + d) /\ ~ ClearedAfter(commands', i, p)
      BY <1>7, <3>4, <3>6 DEF Adds
    <3>8. i \in 0..Len(commands')
      BY <1>7
    <3> QED BY <3>5, <3>7, <3>8
  <2> QED BY <1>4, <2>1 DEF OwnTimes
<1> QED BY <1>4, <1>5, <1>11, <1>12, <1>13, <1>14 DEF VkInv

LEMMA VkNext == ASSUME VkInv, [Vk!Next]_(Vk!vars) PROVE VkInv'
<1>1. ASSUME UNCHANGED <<head, tail, oldCnt, issued, next, wrong, pool, commands>> PROVE VkInv'
  <2>1. VkTypes'
    BY <1>1 DEF VkInv, VkTypes, Used, Uncollected
  <2>2. OnePerPlace(pool, commands)' /\ FreeCleared(pool, commands)' /\ OwnTimes(pool, commands)'
    BY <1>1 DEF VkInv, OnePerPlace, FreeCleared, OwnTimes, Used, Uncollected, Distance
  <2> QED BY <1>1, <2>1, <2>2 DEF VkInv
<1>2. CASE Vk!Worker \/ UNCHANGED Vk!vars
  BY <1>1, <1>2 DEF Vk!Worker, Vk!vars, Vk!ring, Vk!gpu
<1>3. CASE Vk!ScopeBegin \/ Vk!ScopeEnd
  <2>1. Vk!NextQueryId \/ UNCHANGED <<head, tail, oldCnt, issued, next, wrong, pool, commands>>
    BY <1>3 DEF Vk!ScopeBegin, Vk!ScopeEnd, Vk!ring, Vk!gpu
  <2> QED BY <1>1, <2>1, VkIssues
<1>4. CASE Vk!NotReady
  <2>1. /\ tail # head /\ oldCnt' = Vk!Count
        /\ UNCHANGED <<head, tail, issued, next, wrong, pool, commands>>
    BY <1>4 DEF Vk!NotReady, Vk!gpu
  <2>2. oldCnt' \in Nat /\ tail + oldCnt' <= QueryCount
    BY <2>1, CountIs, CountNat DEF VkInv
  <2>3. VkTypes'
    BY <2>1, <2>2 DEF VkInv, VkTypes, Used, Uncollected
  <2>4. OnePerPlace(pool, commands)' /\ FreeCleared(pool, commands)' /\ OwnTimes(pool, commands)'
    BY <2>1 DEF VkInv, OnePerPlace, FreeCleared, OwnTimes, Used, Uncollected, Distance
  <2> QED BY <2>1, <2>3, <2>4 DEF VkInv
<1> QED BY <1>2, <1>3, <1>4, VkExecutes, VkDisconnects, VkCollects DEF Vk!Next

-----------------------------------------------------------------------------
\* Both contexts, as the four parts are run.
TimesInv == (part = "gl" => GlInv) /\ (part = "vk" => VkInv) /\ ~ wrong

(* However many places the rings have and queries are issued, whatever the  *)
(* GPU finishes during a search and whatever connections come and go: a     *)
(* context sends the times of its queries once and in order, with OpenGL    *)
(* of finished ones only, with Vulkan each its own but for places that the  *)
(* GPU has yet to reset (TracyOpenGL.hpp:99-160, TracyVulkan.hpp:135-195).  *)
THEOREM TimesAlwaysInOrder == MCSpec => []TimesInOrder
<1>1. MCInit => TimesInv
  BY GlInit, VkInit DEF MCInit, TimesInv, VkInv
<1>2. TimesInv /\ [MCNext]_all => TimesInv'
  <2> SUFFICES ASSUME TimesInv, [MCNext]_all PROVE TimesInv'
    OBVIOUS
  <2>1. CASE part \notin {"gl", "vk"}
    BY <2>1 DEF MCNext, LockStep, ZoneStep, GlStep, VkStep, all, vkOnly, TimesInv
  <2>2. CASE part = "gl"
    <3>1. [Gl!Next]_(Gl!vars) /\ part' = part /\ wrong' = wrong
      BY <2>2 DEF MCNext, LockStep, ZoneStep, GlStep, VkStep, all, vars, traced, ringed, glOnly, vkOnly,
                  Gl!vars, Gl!ring, Gl!collecting, session, Gl!session
    <3> QED BY <2>2, <3>1, GlNext DEF TimesInv
  <2>3. CASE part = "vk"
    <3>1. [Vk!Next]_(Vk!vars) /\ part' = part
      BY <2>3 DEF MCNext, LockStep, ZoneStep, GlStep, VkStep, all, vars, traced, ringed, glOnly, vkOnly,
                  Vk!vars, Vk!ring, Vk!gpu, session, Vk!session
    <3> QED BY <2>3, <3>1, VkNext DEF TimesInv, VkInv
  <2> QED BY <2>1, <2>2, <2>3
<1>3. TimesInv => TimesInOrder
  BY GlSound DEF TimesInv, TimesInOrder, Vk!VkTimesInOrder
<1> QED BY <1>1, <1>2, <1>3, PTL DEF MCSpec
=============================================================================
