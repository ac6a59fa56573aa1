------------------------- MODULE ProfilerWorkerProofs -------------------------
(***************************************************************************)
(* The safety of the worker for any number of items, sessions, entries in  *)
(* a frame and items in a bulk.  The inductive invariant is a stack of     *)
(* layers, each proved from those below:                                   *)
(*   Types          TypeOK, and a loop that feeds items has one to feed;   *)
(*   Control        which places, modes, sockets and peers go together     *)
(*                  (SocketUsable, OnlyFirstSessionServed);                *)
(*   Places, Freed  an item is in one queue, once, and its payload has not *)
(*                  been freed while it waits (FreedOnceUnlessKept);       *)
(*   Sessions, OnStarted, FirstSession, Fresh, Stream                      *)
(*                  what waits is not in the stream, and the stream holds  *)
(*                  every item once, after its text (SentOnceAfterPayload);*)
(*   Sending, Emptied, Told                                                *)
(*                  what no longer waits is in the stream, and the queues  *)
(*                  are emptied of what was due before Terminate is said   *)
(*                  (FlushedBeforeTerminate).                              *)
(* What a send can do to the buffer and the stream is stated once, over    *)
(* one record s before it and one record t after it.                       *)
(***************************************************************************)
EXTENDS ProfilerWorker, SequenceTheorems, FiniteSetTheorems, WellFoundedInduction, TLAPS

Ios == [buffer : Seq(Entries), others : Nat, wire : Seq(Entries),
        peer : {"none", "open", "closed", "reset"}, ok : BOOLEAN]

Fits(s) == s \in Ios /\ Len(s.buffer) + s.others <= FrameItems

\* A set of numbers has a least one: the library's induction, instantiated.
LEMMA Least == ASSUME NEW T, T \subseteq Nat, T # {} PROVE \E x \in T : \A y \in T : x <= y
<1>1. \E x \in T : \A y \in T : ~ (<<y, x>> \in OpToRel(<, Nat))
  BY WFMin, NatLessThanWellFounded
<1>2. PICK x \in T : \A y \in T : ~ (<<y, x>> \in OpToRel(<, Nat))  BY <1>1
<1>3. ASSUME NEW y \in T, y < x PROVE FALSE
  <2>1. <<y, x>> \in OpToRel(<, Nat)  BY <1>3 DEF OpToRel
  <2> QED BY <2>1, <1>2
<1> QED BY <1>3

\* What a call that may send the buffer can have done.
Untouched(s, t) == t.ok /\ t.wire = s.wire /\ t.buffer = s.buffer /\ t.peer = s.peer
Sent(s, entries, t) ==
    /\ s.peer \in {"open", "closed"} /\ t.ok
    /\ t.wire = s.wire \o entries
    /\ t.peer = IF s.peer = "open" THEN "open" ELSE "reset"
Unsent(s, t) ==
    /\ s.peer # "open" /\ ~ t.ok
    /\ t.wire = s.wire
    /\ t.peer = "reset"
Flushed(s, t) == Sent(s, s.buffer, t) /\ t.buffer = <<>>
Failed(s, t) == Unsent(s, t) /\ t.buffer = <<>>
Network(s, t) == Untouched(s, t) \/ Flushed(s, t) \/ Failed(s, t)

\* A send reaches the server whole or not at all.
LEMMA SendIs ==
    ASSUME NEW s \in Ios, NEW entries \in Seq(Entries), NEW fail \in BOOLEAN,
           NEW t, t = Send(s, entries, fail)
    PROVE  /\ t \in Ios /\ t.buffer = s.buffer /\ t.others = s.others
           /\ Sent(s, entries, t) \/ Unsent(s, t)
<1> DEFINE sent == s.peer = "open" \/ (s.peer = "closed" /\ ~ fail)
<1>1. CASE sent
  <2>1. t = [s EXCEPT !.wire = s.wire \o entries, !.peer = IF @ = "open" THEN "open" ELSE "reset", !.ok = sent]
    BY <1>1 DEF Send
  <2>2. s.wire \o entries \in Seq(Entries)
    BY DEF Ios
  <2>3. sent \in BOOLEAN
    OBVIOUS
  <2> QED BY <1>1, <2>1, <2>2, <2>3 DEF Ios, Sent
<1>2. CASE ~ sent
  <2>1. t = [s EXCEPT !.peer = IF @ = "open" THEN "open" ELSE "reset", !.ok = FALSE]
    BY <1>2 DEF Send, Ios
  <2> QED BY <1>2, <2>1 DEF Ios, Unsent
<1> QED BY <1>1, <1>2

LEMMA Cleared ==
    ASSUME NEW v \in Ios, NEW t, t = [v EXCEPT !.others = 0]
    PROVE  t \in Ios /\ t.buffer = v.buffer /\ t.others = 0 /\ t.wire = v.wire /\ t.peer = v.peer /\ t.ok = v.ok
<1>1. t \in Ios
  BY DEF Ios
<1>2. t.buffer = v.buffer /\ t.others = 0 /\ t.wire = v.wire /\ t.peer = v.peer /\ t.ok = v.ok
  BY DEF Ios
<1> QED BY <1>1, <1>2

\* CommitData: whatever came of it, the buffer is empty (TracyProfiler.cpp:1369).
LEMMA CommitIs ==
    ASSUME NEW s \in Ios, NEW fail \in BOOLEAN, NEW t, t = Commit(s, fail)
    PROVE  t \in Ios /\ t.buffer = <<>> /\ t.others = 0 /\ (Flushed(s, t) \/ Failed(s, t))
<1>0. PICK u : u = Send(s, s.buffer, fail)
  OBVIOUS
<1>1. s.buffer \in Seq(Entries)
  BY DEF Ios
<1>2. u \in Ios /\ (Sent(s, s.buffer, u) \/ Unsent(s, u))
  BY <1>0, <1>1, SendIs
<1>3. PICK v : v = [u EXCEPT !.buffer = <<>>]
  OBVIOUS
<1>4. t = [v EXCEPT !.others = 0]
  BY <1>0, <1>3 DEF Commit
<1>5. v \in Ios /\ v.buffer = <<>> /\ v.wire = u.wire /\ v.peer = u.peer /\ v.ok = u.ok
  <2>1. <<>> \in Seq(Entries)
    OBVIOUS
  <2> QED BY <1>2, <1>3, <2>1 DEF Ios
<1>6. /\ t \in Ios /\ t.buffer = <<>> /\ t.others = 0
      /\ t.wire = u.wire /\ t.peer = u.peer /\ t.ok = u.ok
  BY <1>4, <1>5, Cleared
<1> QED BY <1>2, <1>6 DEF Flushed, Failed, Sent, Unsent

\* NeedDataSize leaves room for one more entry.
LEMMA NeedSpaceIs ==
    ASSUME WorkerAssumption, NEW s, Fits(s), NEW fail \in BOOLEAN, NEW t, t = NeedSpace(s, fail)
    PROVE  t \in Ios /\ Len(t.buffer) + t.others < FrameItems /\ Network(s, t)
<1>1. CASE Pending(s) = FrameItems
  <2>1. t = Commit(s, fail) /\ s \in Ios
    BY <1>1 DEF NeedSpace, Fits
  <2>2. t \in Ios /\ t.buffer = <<>> /\ t.others = 0 /\ (Flushed(s, t) \/ Failed(s, t))
    BY <2>1, CommitIs
  <2>3. Len(t.buffer) + t.others = 0
    BY <2>2
  <2> QED BY <2>2, <2>3 DEF Network, WorkerAssumption
<1>2. CASE Pending(s) # FrameItems
  <2>1. t = [s EXCEPT !.ok = TRUE] /\ s \in Ios
    BY <1>2 DEF NeedSpace, Fits
  <2>2. t \in Ios /\ t.others = s.others /\ Untouched(s, t)
    BY <2>1 DEF Ios, Untouched
  <2>3. Len(s.buffer) \in Nat /\ s.others \in Nat
    BY <2>1 DEF Ios
  <2> QED BY <1>2, <2>2, <2>3 DEF Network, Fits, Untouched, Pending, WorkerAssumption
<1> QED BY <1>1, <1>2

\* Committing what is pending leaves nothing pending.
LEMMA CommitPendingIs ==
    ASSUME WorkerAssumption, NEW s, Fits(s), NEW fail \in BOOLEAN, NEW t, t = CommitPending(s, fail)
    PROVE  Fits(t) /\ t.buffer = <<>> /\ Network(s, t)
<1>1. CASE Pending(s) = 0
  <2>1. t = [s EXCEPT !.ok = TRUE] /\ Len(s.buffer) = 0 /\ s.buffer \in Seq(Entries)
    BY <1>1 DEF CommitPending, Fits, Pending, Ios
  <2>2. t \in Ios /\ t.others = s.others /\ Untouched(s, t)
    BY <2>1 DEF Ios, Untouched, Fits
  <2>3. s.buffer = <<>>
    BY <2>1
  <2> QED BY <2>1, <2>2, <2>3 DEF Fits, Network, Untouched
<1>2. CASE Pending(s) # 0
  <2>1. t = Commit(s, fail) /\ s \in Ios
    BY <1>2 DEF CommitPending, Fits
  <2>2. t \in Ios /\ t.buffer = <<>> /\ t.others = 0 /\ (Flushed(s, t) \/ Failed(s, t))
    BY <2>1, CommitIs
  <2>3. Len(t.buffer) + t.others = 0
    BY <2>2
  <2> QED BY <2>2, <2>3 DEF Network, WorkerAssumption, Fits
<1> QED BY <1>1, <1>2

\* There was room for the entry, or room was made.
Added(s, t, entry) ==
    \E u \in Ios : /\ Network(s, u)
                   /\ t.wire = u.wire /\ t.peer = u.peer /\ t.ok = u.ok
                   /\ t.buffer = Append(u.buffer, entry)

\* AppendData: one entry more, after a send or none, and never above a frame.
LEMMA PutIs ==
    ASSUME WorkerAssumption, NEW s, Fits(s), NEW fail \in BOOLEAN, NEW entry \in Entries,
           NEW t, t = Put(s, entry, fail)
    PROVE  Fits(t) /\ Added(s, t, entry)
<1>0. PICK u : u = NeedSpace(s, fail)
  OBVIOUS
<1>1. u \in Ios /\ Len(u.buffer) + u.others < FrameItems /\ Network(s, u)
  BY <1>0, NeedSpaceIs
<1>2. t = [u EXCEPT !.buffer = Append(@, entry)]
  BY <1>0 DEF Put
<1>3. /\ t \in Ios /\ t.wire = u.wire /\ t.peer = u.peer /\ t.ok = u.ok /\ t.others = u.others
      /\ t.buffer = Append(u.buffer, entry)
  <2>1. u.buffer \in Seq(Entries) /\ Append(u.buffer, entry) \in Seq(Entries)
    BY <1>1 DEF Ios
  <2> QED BY <1>1, <1>2, <2>1 DEF Ios
<1>4. Len(t.buffer) = Len(u.buffer) + 1
  BY <1>1, <1>3 DEF Ios
<1>5. Fits(t)
  <2>1. u.others \in Nat /\ Len(u.buffer) \in Nat
    BY <1>1 DEF Ios
  <2> QED BY <1>1, <1>3, <1>4, <2>1 DEF Fits, WorkerAssumption
<1> QED BY <1>1, <1>3, <1>5 DEF Added

LEMMA PutOtherIs ==
    ASSUME WorkerAssumption, NEW s, Fits(s), NEW fail \in BOOLEAN, NEW t, t = PutOther(s, fail)
    PROVE  Fits(t) /\ Network(s, t)
<1>0. PICK u : u = NeedSpace(s, fail)
  OBVIOUS
<1>1. u \in Ios /\ Len(u.buffer) + u.others < FrameItems /\ Network(s, u)
  BY <1>0, NeedSpaceIs
<1>2. t = [u EXCEPT !.others = @ + 1]
  BY <1>0 DEF PutOther
<1>3. /\ t \in Ios /\ t.wire = u.wire /\ t.peer = u.peer /\ t.ok = u.ok /\ t.buffer = u.buffer
      /\ t.others = u.others + 1 /\ u.others \in Nat
  BY <1>1, <1>2 DEF Ios
<1>4. Len(t.buffer) \in Nat
  BY <1>1, <1>3 DEF Ios
<1>5. Fits(t)
  BY <1>1, <1>3, <1>4 DEF Fits, WorkerAssumption
<1>6. Network(s, t)
  BY <1>1, <1>3 DEF Network, Untouched, Flushed, Failed, Sent, Unsent
<1> QED BY <1>5, <1>6

\* Two appends in a row still fit.
LEMMA PutItemFits ==
    ASSUME WorkerAssumption, NEW s, Fits(s), NEW i \in Items, NEW fail \in BOOLEAN
    PROVE  Fits(PutItem(s, i, fail))
<1>1. <<"text", i>> \in Entries /\ <<"item", i>> \in Entries
  BY DEF Entries
<1> QED BY <1>1, PutIs DEF PutItem

\* TypeOK without io.
OtherTypes ==
    /\ onDemand \in BOOLEAN /\ noExit \in BOOLEAN
    /\ pc \in {"accept", "handshake", "clear", "connect", "dequeue", "feed",
               "serial", "feedSerial", "idle", "queries", "lost", "refuse",
               "refuseHandshake", "terminate", "farewell", "farewellQueries",
               "farewellCommit", "returned"}
    /\ mode \in {"serve", "flush", "farewell"}
    /\ status \in {"success", "empty", "lost"}
    /\ sock \in {"null", "live", "dangling", "destroyedTwice"}
    /\ inbox \in Seq({"query", "terminate", "partial"})
    /\ isConnected \in BOOLEAN /\ shutdown \in BOOLEAN /\ finished \in BOOLEAN
    /\ exiting \in BOOLEAN /\ destroyed \in BOOLEAN
    /\ tracing \in 0..MaxItems
    /\ traced \in [Items -> -1..MaxSessions]
    /\ session \in 0..MaxSessions
    /\ due \subseteq Items

QueueTypes ==
    /\ queue \in Seq(Items) /\ bulk \in Seq(Items)
    /\ serial \in Seq(Items) /\ swapped \in Seq(Items)
    /\ cursor \in Nat \ {0}
    /\ freed \in [Items -> Nat]
    /\ kept \subseteq Items /\ dropped \subseteq Items

\* TypeOK in three parts, so that no step of the proofs expands it all.
LEMMA TypeParts == TypeOK <=> Fits(io) /\ OtherTypes /\ QueueTypes
<1>1. (\A flag \in {isConnected, shutdown, finished, exiting, destroyed} : flag \in BOOLEAN)
        <=> /\ isConnected \in BOOLEAN /\ shutdown \in BOOLEAN /\ finished \in BOOLEAN
            /\ exiting \in BOOLEAN /\ destroyed \in BOOLEAN
  BY Zenon
<1>2. (\A q \in {queue, bulk, serial, swapped} : q \in Seq(Items))
        <=> /\ queue \in Seq(Items) /\ bulk \in Seq(Items)
            /\ serial \in Seq(Items) /\ swapped \in Seq(Items)
  BY Zenon
<1> QED BY <1>1, <1>2, Zenon DEF TypeOK, Fits, Ios, OtherTypes, QueueTypes

LEMMA FirstUntraced ==
    ASSUME WorkerAssumption, OtherTypes, Trace
    PROVE  tracing' \in Untraced
<1>1. Untraced \subseteq Nat /\ Untraced # {}
  BY DEF Trace, Untraced, Items, WorkerAssumption
<1>2. \E i \in Untraced : \A j \in Untraced : i <= j
  BY <1>1, Least
<1> QED BY <1>2 DEF Trace

LEMMA SetOf == ASSUME NEW S, NEW s \in Seq(S) PROVE ToSet(s) \subseteq S /\ ToSet(s) = { s[k] : k \in 1..Len(s) }
BY DEF ToSet

LEMMA FreeTypes ==
    ASSUME freed \in [Items -> Nat], NEW set, Free(set)
    PROVE  freed' \in [Items -> Nat]
BY DEF Free

\* The parts of TypeOK outside the queues and io, step by step.
LEMMA OtherNext == WorkerAssumption /\ Fits(io) /\ OtherTypes /\ [Next]_vars => OtherTypes'
<1> SUFFICES ASSUME WorkerAssumption, Fits(io), OtherTypes, [Next]_vars PROVE OtherTypes'
  OBVIOUS
<1> USE DEF OtherTypes, steady, program, config, control, tracer, history, queues
<1>1. CASE ExitBeforeAccept
  BY <1>1 DEF ExitBeforeAccept, Return
<1>2. CASE AcceptNone
  BY <1>2 DEF AcceptNone, Discard
<1>3. CASE Accept
  BY <1>3 DEF Accept
<1>4. CASE Reject
  BY <1>4 DEF Reject
<1>5. CASE Greet
  BY <1>5 DEF Greet
<1>6. CASE ClearQueues
  BY <1>6 DEF ClearQueues
<1>7. CASE DequeueNone
  BY <1>7 DEF DequeueNone
<1>8. CASE DequeueBulk
  BY <1>8 DEF DequeueBulk
<1>9. CASE SerialNone
  BY <1>9 DEF SerialNone, NextPc
<1>10. CASE SerialSwap
  BY <1>10 DEF SerialSwap
<1>11. CASE IdleExit
  BY <1>11 DEF IdleExit
<1>12. CASE Lost
  BY <1>12 DEF Lost
<1>13. CASE ExitRefusing
  BY <1>13 DEF ExitRefusing, Return
<1>14. CASE AcceptToRefuse
  BY <1>14 DEF AcceptToRefuse, Discard
<1>15. CASE Refuse
  BY <1>15 DEF Refuse
<1>16. CASE ServerCloses
  BY <1>16 DEF ServerCloses
<1>17. CASE Trace
  <2>1. tracing' \in Items /\ tracing' \in 0..MaxItems
    BY <1>17, FirstUntraced DEF Untraced, Items, WorkerAssumption
  <2>2. traced' \in [Items -> -1..MaxSessions]
    BY <1>17, <2>1 DEF Trace, OtherTypes, WorkerAssumption
  <2>3. UNCHANGED <<onDemand, noExit, pc, mode, status, sock, inbox, isConnected, finished, shutdown, exiting, destroyed, session, due>>
    BY <1>17 DEF Trace, config, control, history
  <2> QED BY <2>1, <2>2, <2>3 DEF OtherTypes
<1>18. CASE Enqueue
  BY <1>18 DEF Enqueue
<1>19. CASE RequestShutdown
  BY <1>19 DEF RequestShutdown, NoteDue
<1>20. CASE BeginExit
  BY <1>20 DEF BeginExit, NoteDue
<1>21. CASE Destroy
  BY <1>21 DEF Destroy
<1>22. ASSUME NEW fail \in BOOLEAN, Connect(fail) PROVE OtherTypes'
  BY <1>22 DEF Connect
<1>23. ASSUME NEW fail \in BOOLEAN, Feed(fail) PROVE OtherTypes'
  BY <1>23 DEF Feed
<1>24. ASSUME NEW fail \in BOOLEAN, FeedSerial(fail) PROVE OtherTypes'
  <2>1. pc' = pc \/ pc' \in {"farewell", "farewellQueries", "returned", "dequeue", "feedSerial", "serial", "farewellCommit", "lost", "terminate", "idle", "queries"}
    BY <1>24 DEF FeedSerial, NextPc
  <2>2. UNCHANGED <<onDemand, noExit, status, sock, isConnected, shutdown, exiting, destroyed, tracing, traced, session, due>>
    BY <1>24 DEF FeedSerial, steady, program, config, control, tracer, history, queues
  <2>3. mode' \in {"serve", "flush", "farewell"} /\ finished' \in BOOLEAN
    BY <1>24 DEF FeedSerial, steady, program, config, control, tracer, history, queues, OtherTypes,
       NextPc
  <2>4. inbox' \in Seq({"query", "terminate", "partial"})
    BY <1>24 DEF FeedSerial, steady, program, config, control, tracer, history, queues, OtherTypes,
       NextPc
  <2> QED BY <2>1, <2>2, <2>3, <2>4 DEF OtherTypes
<1>25. ASSUME NEW fail \in BOOLEAN, IdleFlush(fail) PROVE OtherTypes'
  BY <1>25 DEF IdleFlush
<1>26. ASSUME NEW fail \in BOOLEAN, Queries(fail) PROVE OtherTypes'
  BY <1>26 DEF Queries, Answer, NoAnswer
<1>27. ASSUME NEW fail \in BOOLEAN, Terminate(fail) PROVE OtherTypes'
  <2>1. pc' = pc \/ pc' \in {"farewell", "farewellQueries", "returned", "dequeue", "feedSerial", "serial", "farewellCommit", "lost", "terminate", "idle", "queries"}
    BY <1>27 DEF Terminate, Return
  <2>2. UNCHANGED <<onDemand, noExit, status, sock, isConnected, shutdown, exiting, destroyed, tracing, traced, session, due>>
    BY <1>27 DEF Terminate, steady, program, config, control, tracer, history, queues
  <2>3. mode' \in {"serve", "flush", "farewell"} /\ finished' \in BOOLEAN
    BY <1>27 DEF Terminate, steady, program, config, control, tracer, history, queues, OtherTypes,
       Return
  <2>4. inbox' \in Seq({"query", "terminate", "partial"})
    BY <1>27 DEF Terminate, steady, program, config, control, tracer, history, queues, OtherTypes,
       Return
  <2> QED BY <2>1, <2>2, <2>3, <2>4 DEF OtherTypes
<1>28. ASSUME NEW fail \in BOOLEAN, FarewellWait(fail) PROVE OtherTypes'
  BY <1>28 DEF FarewellWait
<1>29. ASSUME NEW fail \in BOOLEAN, FarewellQueries(fail) PROVE OtherTypes'
  <2>1. pc' = pc \/ pc' \in {"farewell", "farewellQueries", "returned", "dequeue", "feedSerial", "serial", "farewellCommit", "lost", "terminate", "idle", "queries"}
    BY <1>29 DEF FarewellQueries, Return, Answer, NoAnswer
  <2>2. UNCHANGED <<onDemand, noExit, status, sock, isConnected, shutdown, exiting, destroyed, tracing, traced, session, due>>
    BY <1>29 DEF FarewellQueries, steady, program, config, control, tracer, history, queues
  <2>3. mode' \in {"serve", "flush", "farewell"} /\ finished' \in BOOLEAN
    BY <1>29 DEF FarewellQueries, steady, program, config, control, tracer, history, queues,
       OtherTypes, Return, Answer, NoAnswer
  <2>4. inbox' \in Seq({"query", "terminate", "partial"})
    BY <1>29 DEF FarewellQueries, steady, program, config, control, tracer, history, queues,
       OtherTypes, Return, Answer, NoAnswer
  <2> QED BY <2>1, <2>2, <2>3, <2>4 DEF OtherTypes
<1>30. ASSUME NEW fail \in BOOLEAN, FarewellCommit(fail) PROVE OtherTypes'
  <2>1. pc' = pc \/ pc' \in {"farewell", "farewellQueries", "returned", "dequeue", "feedSerial", "serial", "farewellCommit", "lost", "terminate", "idle", "queries"}
    BY <1>30 DEF FarewellCommit, Return
  <2>2. UNCHANGED <<onDemand, noExit, status, sock, isConnected, shutdown, exiting, destroyed, tracing, traced, session, due>>
    BY <1>30 DEF FarewellCommit, steady, program, config, control, tracer, history, queues
  <2>3. mode' \in {"serve", "flush", "farewell"} /\ finished' \in BOOLEAN
    BY <1>30 DEF FarewellCommit, steady, program, config, control, tracer, history, queues,
       OtherTypes, Return
  <2>4. inbox' \in Seq({"query", "terminate", "partial"})
    BY <1>30 DEF FarewellCommit, steady, program, config, control, tracer, history, queues,
       OtherTypes, Return
  <2> QED BY <2>1, <2>2, <2>3, <2>4 DEF OtherTypes
<1>31. ASSUME NEW fail \in BOOLEAN, NEW keepAlive \in BOOLEAN, Idle(keepAlive, fail) PROVE OtherTypes'
  BY <1>31 DEF Idle
<1>32. ASSUME NEW query \in {"query", "terminate", "partial"}, ServerSends(query) PROVE OtherTypes'
  BY <1>32 DEF ServerSends
<1>33. CASE UNCHANGED vars
  BY <1>33 DEF vars
<1> QED BY <1>1, <1>2, <1>3, <1>4, <1>5, <1>6, <1>7, <1>8, <1>9, <1>10, <1>11, <1>12, <1>13, <1>14,
   <1>15, <1>16, <1>17, <1>18, <1>19, <1>20, <1>21, <1>22, <1>23, <1>24, <1>25, <1>26, <1>27,
   <1>28, <1>29, <1>30, <1>31, <1>32, <1>33 DEF Next, Worker, Server, Program

\* What the queues' and the buffer's types depend on is left alone.
QueueVars == <<queue, bulk, serial, swapped, cursor, freed, kept, dropped>>

\* The loops that feed items have one.
AtItem ==
    /\ pc = "feed" => bulk # <<>>
    /\ pc = "feedSerial" => cursor \in DOMAIN swapped

\* The queues, the history and what a queue holds, step by step.
LEMMA QueueNext == TypeOK /\ AtItem /\ [Next]_vars => QueueTypes'
<1> SUFFICES ASSUME TypeOK, AtItem, [Next]_vars PROVE QueueTypes'
  OBVIOUS
<1>0. QueueTypes /\ OtherTypes
  BY TypeParts
<1>c. <<>> \in Seq(Items)
  OBVIOUS
<1>a. QueueTypes' <=> /\ queue' \in Seq(Items) /\ bulk' \in Seq(Items)
                     /\ serial' \in Seq(Items) /\ swapped' \in Seq(Items)
                     /\ cursor' \in Nat \ {0}
                     /\ freed' \in [Items -> Nat]
                     /\ kept' \subseteq Items /\ dropped' \subseteq Items
  BY DEF QueueTypes
<1>b. /\ ToSet(queue) \subseteq Items /\ ToSet(bulk) \subseteq Items
      /\ ToSet(serial) \subseteq Items /\ ToSet(swapped) \subseteq Items
  BY <1>0, SetOf DEF QueueTypes
<1>1. CASE AcceptNone
  <2>1. \/ UNCHANGED <<queue, serial, swapped, dropped>>
        \/ Discard
    BY <1>1 DEF AcceptNone
  <2>2. UNCHANGED <<bulk, cursor, freed, kept>>
    BY <1>1 DEF AcceptNone
  <2>3. CASE UNCHANGED <<queue, serial, swapped, dropped>>
    BY <1>0, <2>2, <2>3 DEF QueueTypes
  <2>4. CASE Discard
    BY <1>0, <1>b, <2>2, <2>4 DEF Discard, QueueTypes
  <2> QED BY <2>1, <2>3, <2>4
<1>2. CASE AcceptToRefuse
  BY <1>0, <1>b, <1>2 DEF AcceptToRefuse, Discard, QueueTypes
<1>3. CASE ClearQueues
  BY <1>0, <1>b, <1>3, FreeTypes DEF ClearQueues, QueueTypes
<1>4. CASE DequeueBulk
  <2>1. PICK n : /\ n \in Nat /\ n <= Len(queue)
                 /\ bulk' = SubSeq(queue, 1, n) /\ queue' = SubSeq(queue, n + 1, Len(queue))
    <3>1. Len(queue) \in Nat /\ BulkSize \in Nat
      BY <1>0, WorkerAssumption DEF QueueTypes
    <3> DEFINE n == IF Len(queue) < BulkSize THEN Len(queue) ELSE BulkSize
    <3>2. n \in Nat /\ n <= Len(queue)
      BY <3>1
    <3>3. bulk' = SubSeq(queue, 1, n) /\ queue' = SubSeq(queue, n + 1, Len(queue))
      BY <1>4 DEF DequeueBulk
    <3> QED BY <3>2, <3>3
  <2>2. UNCHANGED <<serial, swapped, cursor, freed, kept, dropped>>
    BY <1>4 DEF DequeueBulk, steady, history
  <2> QED BY <1>0, <2>1, <2>2 DEF QueueTypes
<1>5. CASE SerialNone
  BY <1>0, <1>5 DEF SerialNone, QueueTypes, steady, history
<1>6. CASE SerialSwap
  BY <1>0, <1>6 DEF SerialSwap, QueueTypes, steady, history
<1>7. CASE Enqueue
  <2>1. tracing \in Items
    BY <1>0, <1>7 DEF Enqueue, OtherTypes, Items
  <2>2. \/ queue' = Append(queue, tracing) /\ serial' = serial
        \/ serial' = Append(serial, tracing) /\ queue' = queue
    BY <1>7 DEF Enqueue
  <2>3. UNCHANGED <<bulk, swapped, cursor, freed, kept, dropped>>
    BY <1>7 DEF Enqueue, history
  <2>4. CASE queue' = Append(queue, tracing) /\ serial' = serial
    BY <1>0, <2>1, <2>3, <2>4 DEF QueueTypes
  <2>5. CASE serial' = Append(serial, tracing) /\ queue' = queue
    BY <1>0, <2>1, <2>3, <2>5 DEF QueueTypes
  <2> QED BY <2>2, <2>4, <2>5
<1>8. ASSUME NEW fail \in BOOLEAN, Feed(fail) PROVE QueueTypes'
  <2>1. bulk' = Tail(bulk) \/ bulk' = <<>>
    BY <1>8 DEF Feed
  <2>2. dropped' = dropped \/ dropped' = dropped \cup ToSet(bulk)
    BY <1>8 DEF Feed
  <2>3. freed' \in [Items -> Nat]
    BY <1>0, <1>8, FreeTypes DEF Feed, QueueTypes
  <2>4. UNCHANGED <<queue, serial, swapped, cursor, kept>>
    BY <1>8 DEF Feed
  <2>5. bulk' \in Seq(Items)
    <3>1. bulk # <<>> => Tail(bulk) \in Seq(Items)
      BY <1>0 DEF QueueTypes
    <3>2. bulk # <<>>
      BY <1>8 DEF Feed, AtItem
    <3> QED BY <1>c, <2>1, <3>1, <3>2, Zenon
  <2> QED BY <1>0, <1>b, <2>2, <2>3, <2>4, <2>5 DEF QueueTypes
<1>9. ASSUME NEW fail \in BOOLEAN, FeedSerial(fail) PROVE QueueTypes'
  <2>1. swapped' = swapped \/ swapped' = <<>>
    BY <1>9 DEF FeedSerial
  <2>2. kept' = kept \/ kept' = kept \cup ToSet(swapped)
    BY <1>9 DEF FeedSerial
  <2>3. freed' \in [Items -> Nat]
    BY <1>0, <1>9, FreeTypes DEF FeedSerial, QueueTypes
  <2>4. UNCHANGED <<queue, bulk, serial, dropped>>
    BY <1>9 DEF FeedSerial
  <2>5. cursor' = cursor \/ cursor' = cursor + 1 \/ cursor' = 1
    BY <1>9 DEF FeedSerial
  <2>6. swapped' \in Seq(Items)
    BY <1>0, <1>c, <2>1, Zenon DEF QueueTypes
  <2>7. cursor' \in Nat \ {0}
    BY <1>0, <2>5 DEF QueueTypes
  <2> QED BY <1>0, <1>b, <2>2, <2>3, <2>4, <2>6, <2>7 DEF QueueTypes
<1>10. CASE UNCHANGED QueueVars
  BY <1>0, <1>10 DEF QueueVars, QueueTypes
<1>11. CASE \/ ExitBeforeAccept \/ Accept \/ Reject \/ Greet \/ DequeueNone \/ IdleExit \/ Lost \/ ExitRefusing \/ Refuse \/ ServerCloses \/ Trace \/ RequestShutdown \/ BeginExit \/ Destroy
  BY <1>10, <1>11 DEF QueueVars, ExitBeforeAccept, Accept, Reject, Greet, DequeueNone, IdleExit,
     Lost, ExitRefusing, Refuse, ServerCloses, Trace, RequestShutdown, BeginExit, Destroy, steady,
     program, config, control, tracer, history, queues
<1>12. ASSUME NEW fail \in BOOLEAN,
            \/ Connect(fail) \/ IdleFlush(fail) \/ Queries(fail) \/ Terminate(fail) \/ FarewellWait(fail) \/ FarewellQueries(fail) \/ FarewellCommit(fail)
       PROVE  QueueTypes'
  BY <1>10, <1>12 DEF QueueVars, Connect, IdleFlush, Queries, Terminate, FarewellWait,
     FarewellQueries, FarewellCommit, steady, program, config, control, tracer, history, queues
<1>13. ASSUME NEW fail \in BOOLEAN, NEW keepAlive \in BOOLEAN, Idle(keepAlive, fail) PROVE QueueTypes'
  BY <1>10, <1>13 DEF QueueVars, Idle, steady, program, config, control, tracer, history, queues
<1>14. CASE Server \/ UNCHANGED vars
  BY <1>10, <1>14 DEF QueueVars, Server, ServerCloses, ServerSends, vars, steady, program, config,
     control, tracer, history, queues
<1> QED BY <1>1, <1>2, <1>3, <1>4, <1>5, <1>6, <1>7, <1>8, <1>9, <1>10, <1>11, <1>12, <1>13,
   <1>14 DEF Next, Worker, Program, Server

-----------------------------------------------------------------------------
Item(i) == <<"item", i>>
Text(i) == <<"text", i>>
Among(s, e) == \E k \in DOMAIN s : s[k] = e
On(s, e) == Among(s.wire, e) \/ Among(s.buffer, e)
Reachable(s) == s.peer \in {"open", "closed"}

Unique(s) == \A i \in Items : \A j, k \in DOMAIN s : s[j] = Item(i) /\ s[k] = Item(i) => j = k
Texted(s, own) ==
    \A i \in own : \A k \in DOMAIN s :
        s[k] = Item(i) => \E j \in DOMAIN s : j < k /\ s[j] = Text(i)

\* Every item of "own" in b has its text before it, there or in w.
TextedAfter(w, b, own) ==
    \A i \in own : \A k \in DOMAIN b :
        b[k] = Item(i) => Among(w, Text(i)) \/ \E j \in DOMAIN b : j < k /\ b[j] = Text(i)

\* What is sent, and what is about to be to a server that may still read it.
Good(s, own, serving) ==
    /\ Unique(s.wire) /\ Texted(s.wire, own)
    /\ serving \/ s.peer # "reset" =>
         /\ Unique(s.buffer)
         /\ \A i \in Items : ~ (Among(s.wire, Item(i)) /\ Among(s.buffer, Item(i)))
Loaded(s, own) == TextedAfter(s.wire, s.buffer, own)

\* What was sent stays sent, what was to be sent is on its way as long as the
\* server can be reached, and nothing but "new" is added.
Carries(s, t, new) ==
    /\ \A e \in Entries : Among(s.wire, e) => Among(t.wire, e)
    /\ \A e \in Entries : On(t, e) => On(s, e) \/ e \in new
    /\ \A e \in Entries : Among(t.buffer, e) => Among(s.buffer, e) \/ e \in new
    /\ Reachable(t) => /\ t.peer = s.peer
                       /\ \A e \in Entries : On(s, e) \/ e \in new => On(t, e)
    /\ t.peer = s.peer \/ t.peer = "reset"
    /\ ~ t.ok => t.peer = "reset"

\* Where the elements of a concatenation come from.
LEMMA ConcatIndices ==
    ASSUME NEW S, NEW s \in Seq(S), NEW t \in Seq(S), NEW m, m = Len(s), NEW n, n = Len(t)
    PROVE  /\ m \in Nat /\ n \in Nat /\ DOMAIN s = 1..m /\ DOMAIN t = 1..n
           /\ DOMAIN (s \o t) = 1..(m + n)
           /\ \A k \in 1..m : k \in 1..(m + n) /\ (s \o t)[k] = s[k]
           /\ \A k \in 1..n : m + k \in 1..(m + n) /\ (s \o t)[m + k] = t[k]
           /\ \A k \in 1..(m + n) : k > m => k - m \in 1..n /\ (s \o t)[k] = t[k - m]
<1>1. m \in Nat /\ n \in Nat /\ DOMAIN s = 1..m /\ DOMAIN t = 1..n
  BY LenProperties
<1>2. /\ s \o t \in Seq(S) /\ Len(s \o t) = m + n
      /\ \A k \in 1..(m + n) : (s \o t)[k] = IF k <= m THEN s[k] ELSE t[k - m]
  BY ConcatProperties
<1>3. DOMAIN (s \o t) = 1..(m + n)
  BY <1>2, LenProperties
<1> PICK w : w = s \o t
  OBVIOUS
<1>4. \A k \in 1..(m + n) : w[k] = IF k <= m THEN s[k] ELSE t[k - m]
  BY <1>2
<1>5. \A k \in 1..m : k \in 1..(m + n) /\ w[k] = s[k]
  BY <1>1, <1>4
<1>6. \A k \in 1..n : m + k \in 1..(m + n) /\ w[m + k] = t[k]
  <2> TAKE k \in 1..n
  <2>1. m + k \in 1..(m + n) /\ ~ (m + k <= m) /\ (m + k) - m = k
    BY <1>1
  <2> QED BY <1>4, <2>1
<1>7. \A k \in 1..(m + n) : k > m => k - m \in 1..n /\ w[k] = t[k - m]
  BY <1>1, <1>4
<1> QED BY <1>1, <1>3, <1>5, <1>6, <1>7

LEMMA AmongConcat ==
    ASSUME NEW S, NEW s \in Seq(S), NEW t \in Seq(S), NEW e
    PROVE  Among(s \o t, e) <=> Among(s, e) \/ Among(t, e)
<1> PICK m, n : m = Len(s) /\ n = Len(t)
  OBVIOUS
<1>1. /\ m \in Nat /\ n \in Nat /\ DOMAIN s = 1..m /\ DOMAIN t = 1..n
      /\ DOMAIN (s \o t) = 1..(m + n)
      /\ \A k \in 1..m : k \in 1..(m + n) /\ (s \o t)[k] = s[k]
      /\ \A k \in 1..n : m + k \in 1..(m + n) /\ (s \o t)[m + k] = t[k]
      /\ \A k \in 1..(m + n) : k > m => k - m \in 1..n /\ (s \o t)[k] = t[k - m]
  BY ConcatIndices
<1>2. ASSUME Among(s \o t, e) PROVE Among(s, e) \/ Among(t, e)
  <2>1. PICK k \in 1..(m + n) : (s \o t)[k] = e
    BY <1>1, <1>2 DEF Among
  <2>2. CASE k <= m
    BY <1>1, <2>1, <2>2 DEF Among
  <2>3. CASE k > m
    BY <1>1, <2>1, <2>3 DEF Among
  <2> QED BY <1>1, <2>1, <2>2, <2>3
<1>3. ASSUME Among(s, e) PROVE Among(s \o t, e)
  BY <1>1, <1>3 DEF Among
<1>4. ASSUME Among(t, e) PROVE Among(s \o t, e)
  BY <1>1, <1>4 DEF Among
<1> QED BY <1>2, <1>3, <1>4

LEMMA AmongAppend ==
    ASSUME NEW S, NEW s \in Seq(S), NEW x \in S, NEW e
    PROVE  Among(Append(s, x), e) <=> Among(s, e) \/ e = x
<1> PICK n : n = Len(s)
  OBVIOUS
<1>1. /\ n \in Nat /\ DOMAIN s = 1..n /\ DOMAIN Append(s, x) = 1..(n + 1)
      /\ \A k \in 1..n : Append(s, x)[k] = s[k]
      /\ Append(s, x)[n + 1] = x
  BY AppendProperties, LenProperties
<1> QED BY <1>1 DEF Among

LEMMA ConcatUnique ==
    ASSUME NEW w \in Seq(Entries), NEW b \in Seq(Entries), Unique(w), Unique(b),
           \A i \in Items : ~ (Among(w, Item(i)) /\ Among(b, Item(i)))
    PROVE  Unique(w \o b)
<1> PICK m, n : m = Len(w) /\ n = Len(b)
  OBVIOUS
<1> PICK c : c = w \o b
  OBVIOUS
<1>2. /\ m \in Nat /\ n \in Nat /\ DOMAIN w = 1..m /\ DOMAIN b = 1..n
      /\ DOMAIN c = 1..(m + n)
      /\ \A k \in 1..m : k \in 1..(m + n) /\ c[k] = w[k]
      /\ \A k \in 1..n : m + k \in 1..(m + n) /\ c[m + k] = b[k]
      /\ \A k \in 1..(m + n) : k > m => k - m \in 1..n /\ c[k] = b[k - m]
  BY ConcatIndices
<1>3. ASSUME NEW i \in Items, NEW j \in 1..(m + n), NEW k \in 1..(m + n),
             c[j] = Item(i), c[k] = Item(i)
      PROVE  j = k
  <2>1. CASE j <= m /\ k <= m
    <3>1. j \in 1..m /\ k \in 1..m /\ w[j] = Item(i) /\ w[k] = Item(i)
      BY <1>2, <1>3, <2>1
    <3> QED BY <1>2, <3>1 DEF Unique
  <2>2. CASE j > m /\ k > m
    <3>1. j - m \in 1..n /\ k - m \in 1..n /\ b[j - m] = Item(i) /\ b[k - m] = Item(i)
      BY <1>2, <1>3, <2>2
    <3>2. j - m = k - m
      BY <1>2, <3>1 DEF Unique
    <3> QED BY <1>2, <3>2
  <2>3. CASE j <= m /\ k > m
    <3>1. j \in 1..m /\ w[j] = Item(i) /\ k - m \in 1..n /\ b[k - m] = Item(i)
      BY <1>2, <1>3, <2>3
    <3> QED BY <1>2, <3>1 DEF Among
  <2>4. CASE j > m /\ k <= m
    <3>1. k \in 1..m /\ w[k] = Item(i) /\ j - m \in 1..n /\ b[j - m] = Item(i)
      BY <1>2, <1>3, <2>4
    <3> QED BY <1>2, <3>1 DEF Among
  <2> QED BY <1>2, <2>1, <2>2, <2>3, <2>4
<1> QED BY <1>2, <1>3 DEF Unique

LEMMA ConcatTexted ==
    ASSUME NEW w \in Seq(Entries), NEW b \in Seq(Entries), NEW own,
           Texted(w, own), TextedAfter(w, b, own)
    PROVE  Texted(w \o b, own)
<1> PICK m, n : m = Len(w) /\ n = Len(b)
  OBVIOUS
<1> PICK c : c = w \o b
  OBVIOUS
<1>2. /\ m \in Nat /\ n \in Nat /\ DOMAIN w = 1..m /\ DOMAIN b = 1..n
      /\ DOMAIN c = 1..(m + n)
      /\ \A k \in 1..m : k \in 1..(m + n) /\ c[k] = w[k]
      /\ \A k \in 1..n : m + k \in 1..(m + n) /\ c[m + k] = b[k]
      /\ \A k \in 1..(m + n) : k > m => k - m \in 1..n /\ c[k] = b[k - m]
  BY ConcatIndices
<1>3. ASSUME NEW i \in own, NEW k \in 1..(m + n), c[k] = Item(i)
      PROVE  \E j \in 1..(m + n) : j < k /\ c[j] = Text(i)
  <2>1. CASE k <= m
    <3>0. k \in 1..m /\ w[k] = Item(i)
      BY <1>2, <1>3, <2>1
    <3>1. PICK j \in 1..m : j < k /\ w[j] = Text(i)
      BY <1>2, <3>0 DEF Texted
    <3> QED BY <1>2, <3>1
  <2>2. CASE k > m
    <3>1. k - m \in 1..n /\ b[k - m] = Item(i)
      BY <1>2, <1>3, <2>2
    <3>2. \/ \E j \in 1..m : w[j] = Text(i)
          \/ \E j \in 1..n : j < k - m /\ b[j] = Text(i)
      <4>1. \A q \in 1..n : b[q] = Item(i) =>
              Among(w, Text(i)) \/ \E j \in 1..n : j < q /\ b[j] = Text(i)
        BY <1>2 DEF TextedAfter
      <4> QED BY <1>2, <3>1, <4>1 DEF Among
    <3>3. CASE \E j \in 1..m : w[j] = Text(i)
      <4>1. PICK j \in 1..m : w[j] = Text(i)
        BY <3>3
      <4>2. j \in 1..(m + n) /\ j < k /\ c[j] = Text(i)
        BY <1>2, <2>2, <4>1
      <4> QED BY <4>2
    <3>4. CASE \E j \in 1..n : j < k - m /\ b[j] = Text(i)
      <4>1. PICK j \in 1..n : j < k - m /\ b[j] = Text(i)
        BY <3>4
      <4>2. m + j \in 1..(m + n) /\ m + j < k /\ c[m + j] = Text(i)
        BY <1>2, <4>1
      <4> QED BY <4>2
    <3> QED BY <3>2, <3>3, <3>4
  <2> QED BY <1>2, <2>1, <2>2
<1> QED BY <1>2, <1>3 DEF Texted

\* A flush sends each item once and after its text, if the two halves do.
LEMMA FlushedGood ==
    ASSUME NEW s \in Ios, NEW t \in Ios, Flushed(s, t), NEW own, NEW serving,
           Good(s, own, serving), Loaded(s, own)
    PROVE  Good(t, own, serving)
<1>1. /\ s.wire \in Seq(Entries) /\ s.buffer \in Seq(Entries)
      /\ t.wire = s.wire \o s.buffer /\ t.buffer = <<>> /\ s.peer # "reset"
  BY DEF Ios, Flushed, Sent
<1>2. /\ Unique(s.wire) /\ Texted(s.wire, own) /\ Unique(s.buffer)
      /\ \A i \in Items : ~ (Among(s.wire, Item(i)) /\ Among(s.buffer, Item(i)))
      /\ TextedAfter(s.wire, s.buffer, own)
  BY <1>1 DEF Good, Loaded
<1>3. Unique(t.wire) /\ Texted(t.wire, own)
  BY <1>1, <1>2, ConcatUnique, ConcatTexted
<1>4. Unique(t.buffer) /\ \A e : ~ Among(t.buffer, e)
  BY <1>1 DEF Unique, Among
<1> QED BY <1>3, <1>4 DEF Good

LEMMA NetworkCarries ==
    ASSUME NEW s \in Ios, NEW t \in Ios, Network(s, t)
    PROVE  Carries(s, t, {})
<1>1. CASE Untouched(s, t)
  BY <1>1 DEF Untouched, Carries, Reachable, On
<1>2. CASE Flushed(s, t)
  <2>1. /\ Reachable(s) /\ t.wire = s.wire \o s.buffer /\ t.buffer = <<>>
        /\ t.peer = s.peer \/ t.peer = "reset"
        /\ Reachable(t) => t.peer = s.peer
        /\ t.ok
    BY <1>2 DEF Flushed, Sent, Reachable
  <2>2. \A e : ~ Among(t.buffer, e)
    BY <2>1 DEF Among
  <2>3. \A e \in Entries : Among(t.wire, e) <=> Among(s.wire, e) \/ Among(s.buffer, e)
    <3>1. s.wire \in Seq(Entries) /\ s.buffer \in Seq(Entries)
      BY DEF Ios
    <3> QED BY <2>1, <3>1, AmongConcat
  <2> QED BY <2>1, <2>2, <2>3 DEF Carries, On
<1>3. CASE Failed(s, t)
  <2>1. /\ t.wire = s.wire /\ t.buffer = <<>> /\ t.peer = "reset" /\ ~ Reachable(t)
    BY <1>3 DEF Failed, Unsent, Reachable
  <2>2. \A e : ~ Among(t.buffer, e)
    BY <2>1 DEF Among
  <2> QED BY <2>1, <2>2 DEF Carries, On
<1> QED BY <1>1, <1>2, <1>3 DEF Network

\* So does whatever else the network makes of a call.
LEMMA NetworkGood ==
    ASSUME NEW s \in Ios, NEW t \in Ios, Network(s, t), NEW own, NEW serving,
           Good(s, own, serving), Reachable(s) => Loaded(s, own)
    PROVE  Good(t, own, serving) /\ (Reachable(t) => Loaded(t, own))
<1>1. CASE Untouched(s, t)
  <2>1. t.wire = s.wire /\ t.buffer = s.buffer /\ t.peer = s.peer
    BY <1>1 DEF Untouched
  <2> QED BY <2>1, Zenon DEF Good, Loaded, Reachable
<1>2. CASE Flushed(s, t)
  <2>1. Reachable(s) /\ t.buffer = <<>>
    BY <1>2 DEF Flushed, Sent, Reachable
  <2>2. Good(t, own, serving)
    BY <1>2, <2>1, FlushedGood
  <2>3. Loaded(t, own)
    BY <2>1 DEF Loaded, TextedAfter
  <2> QED BY <2>2, <2>3
<1>3. CASE Failed(s, t)
  <2>1. t.wire = s.wire /\ t.buffer = <<>> /\ t.peer = "reset" /\ ~ Reachable(t)
    BY <1>3 DEF Failed, Unsent, Reachable
  <2>2. Unique(t.buffer) /\ \A e : ~ Among(t.buffer, e)
    BY <2>1 DEF Unique, Among
  <2> QED BY <2>1, <2>2 DEF Good
<1> QED BY <1>1, <1>2, <1>3 DEF Network

LEMMA Kinds ==
    /\ \A i, j \in Items : Item(i) = Item(j) => i = j
    /\ \A i, j \in Items : Item(i) # Text(j) /\ Text(i) # Goodbye /\ Item(i) # Goodbye
    /\ \A i \in Items : Item(i) \in Entries /\ Text(i) \in Entries
    /\ Goodbye \in Entries
BY DEF Item, Text, Goodbye, Entries, Items

\* A text goes into the buffer, and an item after its text.
LEMMA TextGood ==
    ASSUME NEW w \in Seq(Entries), NEW b \in Seq(Entries), NEW i \in Items, NEW own \in SUBSET Items
    PROVE  /\ Unique(b) => Unique(Append(b, Text(i)))
           /\ TextedAfter(w, b, own) => TextedAfter(w, Append(b, Text(i)), own)
           /\ \A j \in Items : Among(Append(b, Text(i)), Item(j)) <=> Among(b, Item(j))
           /\ Among(Append(b, Text(i)), Text(i))
<1> PICK n : n = Len(b)
  OBVIOUS
<1> PICK c : c = Append(b, Text(i))
  OBVIOUS
<1>1. /\ n \in Nat /\ DOMAIN b = 1..n /\ DOMAIN c = 1..(n + 1)
      /\ \A k \in 1..n : c[k] = b[k] /\ k \in 1..(n + 1)
      /\ n + 1 \in 1..(n + 1)
      /\ \A k \in 1..(n + 1) : k \notin 1..n => k = n + 1
      /\ c[n + 1] = Text(i)
  BY AppendProperties, LenProperties, Kinds
<1>2. \A j \in Items : \A k \in 1..(n + 1) : c[k] = Item(j) => k \in 1..n /\ b[k] = Item(j)
  BY <1>1, Kinds
<1>3. Unique(b) => Unique(c)
  BY <1>1, <1>2 DEF Unique
<1>4. TextedAfter(w, b, own) => TextedAfter(w, c, own)
  <2> SUFFICES ASSUME TextedAfter(w, b, own), NEW j \in own, NEW k \in 1..(n + 1), c[k] = Item(j)
               PROVE  Among(w, Text(j)) \/ \E q \in 1..(n + 1) : q < k /\ c[q] = Text(j)
    BY <1>1 DEF TextedAfter
  <2>1. k \in 1..n /\ b[k] = Item(j)
    BY <1>2
  <2>2. Among(w, Text(j)) \/ \E q \in 1..n : q < k /\ b[q] = Text(j)
    BY <1>1, <2>1 DEF TextedAfter
  <2> QED BY <1>1, <2>2
<1>5. \A j \in Items : Among(c, Item(j)) <=> Among(b, Item(j))
  BY <1>1, <1>2 DEF Among
<1>6. Among(c, Text(i))
  BY <1>1 DEF Among
<1> QED BY <1>3, <1>4, <1>5, <1>6

LEMMA ItemGood ==
    ASSUME NEW w \in Seq(Entries), NEW b \in Seq(Entries), NEW i \in Items, NEW own \in SUBSET Items
    PROVE  /\ Unique(b) /\ ~ Among(b, Item(i)) => Unique(Append(b, Item(i)))
           /\ TextedAfter(w, b, own) /\ (i \in own => Among(w, Text(i)) \/ Among(b, Text(i)))
                => TextedAfter(w, Append(b, Item(i)), own)
           /\ \A j \in Items : Among(Append(b, Item(i)), Item(j)) <=> Among(b, Item(j)) \/ i = j
<1> PICK n : n = Len(b)
  OBVIOUS
<1> PICK c : c = Append(b, Item(i))
  OBVIOUS
<1>1. /\ n \in Nat /\ DOMAIN b = 1..n /\ DOMAIN c = 1..(n + 1)
      /\ \A k \in 1..n : c[k] = b[k] /\ k \in 1..(n + 1) /\ k < n + 1
      /\ n + 1 \in 1..(n + 1)
      /\ \A k \in 1..(n + 1) : k \notin 1..n => k = n + 1
      /\ c[n + 1] = Item(i)
  BY AppendProperties, LenProperties, Kinds
<1>2. \A j \in Items : \A k \in 1..(n + 1) :
        c[k] = Item(j) => \/ k \in 1..n /\ b[k] = Item(j)
                          \/ k = n + 1 /\ i = j
  BY <1>1, Kinds
<1>3. ASSUME Unique(b), ~ Among(b, Item(i)) PROVE Unique(c)
  <2> SUFFICES ASSUME NEW j \in Items, NEW k \in 1..(n + 1), NEW q \in 1..(n + 1),
                      c[k] = Item(j), c[q] = Item(j)
               PROVE  k = q
    BY <1>1 DEF Unique
  <2>1. \A p \in 1..n : b[p] # Item(i)
    BY <1>1, <1>3 DEF Among
  <2>2. \/ k \in 1..n /\ b[k] = Item(j)
        \/ k = n + 1 /\ i = j
    BY <1>2
  <2>3. \/ q \in 1..n /\ b[q] = Item(j)
        \/ q = n + 1 /\ i = j
    BY <1>2
  <2>4. \A p, r \in 1..n : b[p] = Item(j) /\ b[r] = Item(j) => p = r
    BY <1>1, <1>3 DEF Unique
  <2> QED BY <2>1, <2>2, <2>3, <2>4
<1>4. ASSUME TextedAfter(w, b, own), i \in own => Among(w, Text(i)) \/ Among(b, Text(i))
      PROVE  TextedAfter(w, c, own)
  <2> SUFFICES ASSUME NEW j \in own, NEW k \in 1..(n + 1), c[k] = Item(j)
               PROVE  Among(w, Text(j)) \/ \E q \in 1..(n + 1) : q < k /\ c[q] = Text(j)
    BY <1>1 DEF TextedAfter
  <2>1. CASE k \in 1..n /\ b[k] = Item(j)
    <3>1. Among(w, Text(j)) \/ \E q \in 1..n : q < k /\ b[q] = Text(j)
      BY <1>1, <1>4, <2>1 DEF TextedAfter
    <3> QED BY <1>1, <3>1
  <2>2. CASE k = n + 1 /\ i = j
    <3>1. Among(w, Text(i)) \/ \E q \in 1..n : b[q] = Text(i)
      BY <1>1, <1>4, <2>2 DEF Among
    <3> QED BY <1>1, <2>2, <3>1
  <2> QED BY <1>2, <2>1, <2>2
<1>5. \A j \in Items : Among(c, Item(j)) <=> Among(b, Item(j)) \/ i = j
  BY <1>1, <1>2 DEF Among
<1> QED BY <1>3, <1>4, <1>5

LEMMA AppendedCarries ==
    ASSUME NEW s \in Ios, NEW t \in Ios, NEW x \in Entries,
           t.wire = s.wire, t.peer = s.peer, t.ok = s.ok, t.buffer = Append(s.buffer, x),
           ~ s.ok => s.peer = "reset"
    PROVE  Carries(s, t, {x})
<1>1. \A e \in Entries : Among(t.buffer, e) <=> Among(s.buffer, e) \/ e = x
  <2>1. s.buffer \in Seq(Entries)
    BY DEF Ios
  <2> QED BY <2>1, AmongAppend
<1> QED BY <1>1 DEF Carries, On

LEMMA CarriesTransitive ==
    ASSUME NEW s, NEW t, NEW u, NEW x, NEW y, Carries(s, t, x), Carries(t, u, y),
           ~ u.ok => u.peer = "reset"
    PROVE  Carries(s, u, x \cup y)
BY DEF Carries, On, Reachable

\* PutItem in its four stages: space, text, space, item.
LEMMA PutItemStages ==
    ASSUME WorkerAssumption, NEW s, Fits(s), NEW fail \in BOOLEAN, NEW i \in Items,
           NEW t, t = PutItem(s, i, fail)
    PROVE  /\ Fits(t)
           /\ \E u, p, v \in Ios :
                /\ Network(s, u)
                /\ p.wire = u.wire /\ p.peer = u.peer /\ p.ok = u.ok
                /\ p.buffer = Append(u.buffer, Text(i))
                /\ Network(p, v)
                /\ t.wire = v.wire /\ t.peer = v.peer /\ t.ok = v.ok
                /\ t.buffer = Append(v.buffer, Item(i))
<1>0. Text(i) \in Entries /\ Item(i) \in Entries
  BY Kinds
<1>1. PICK p : p = Put(s, Text(i), fail)
  OBVIOUS
<1>2. t = Put(p, Item(i), fail)
  BY <1>1 DEF PutItem, Text, Item
<1>3. Fits(p) /\ p \in Ios /\ Added(s, p, Text(i))
  BY <1>0, <1>1, PutIs DEF Fits
<1>4. Fits(t) /\ Added(p, t, Item(i))
  BY <1>0, <1>2, <1>3, PutIs
<1> QED BY <1>3, <1>4 DEF Added

\* PutItem adds its text and its item and loses nothing the server may read.
LEMMA PutItemCarries ==
    ASSUME WorkerAssumption, NEW s, Fits(s), NEW fail \in BOOLEAN, NEW i \in Items,
           NEW t, t = PutItem(s, i, fail)
    PROVE  Carries(s, t, {Text(i), Item(i)})
<1>0. Text(i) \in Entries /\ Item(i) \in Entries /\ s \in Ios /\ t \in Ios
  BY Kinds, PutItemStages DEF Fits
<1>1. PICK u, p, v \in Ios :
        /\ Network(s, u)
        /\ p.wire = u.wire /\ p.peer = u.peer /\ p.ok = u.ok
        /\ p.buffer = Append(u.buffer, Text(i))
        /\ Network(p, v)
        /\ t.wire = v.wire /\ t.peer = v.peer /\ t.ok = v.ok
        /\ t.buffer = Append(v.buffer, Item(i))
  BY PutItemStages
<1>2. Carries(s, u, {}) /\ Carries(p, v, {})
  BY <1>0, <1>1, NetworkCarries
<1>3. (~ u.ok => u.peer = "reset") /\ (~ v.ok => v.peer = "reset")
  BY <1>2 DEF Carries
<1>4. Carries(u, p, {Text(i)}) /\ Carries(v, t, {Item(i)})
  BY <1>0, <1>1, <1>3, AppendedCarries
<1>5. Carries(s, p, {} \cup {Text(i)})
  BY <1>1, <1>2, <1>3, <1>4, CarriesTransitive
<1>6. Carries(s, v, ({} \cup {Text(i)}) \cup {})
  BY <1>2, <1>3, <1>5, CarriesTransitive
<1>7. Carries(s, t, (({} \cup {Text(i)}) \cup {}) \cup {Item(i)})
  BY <1>1, <1>3, <1>4, <1>6, CarriesTransitive
<1>8. (({} \cup {Text(i)}) \cup {}) \cup {Item(i)} = {Text(i), Item(i)}
  OBVIOUS
<1> QED BY <1>7, <1>8

\* PutItem keeps the stream good when its item is not yet in it.
LEMMA PutItemGood ==
    ASSUME WorkerAssumption, NEW s, Fits(s), NEW fail \in BOOLEAN, NEW i \in Items,
           NEW t, t = PutItem(s, i, fail), NEW own \in SUBSET Items, NEW serving,
           Good(s, own, serving), Reachable(s) => Loaded(s, own),
           serving \/ s.peer # "reset" => ~ On(s, Item(i))
    PROVE  Good(t, own, serving) /\ (Reachable(t) => Loaded(t, own))
<1>0. Text(i) \in Entries /\ Item(i) \in Entries /\ s \in Ios /\ t \in Ios
  BY Kinds, PutItemStages DEF Fits
<1>1. PICK u, p, v \in Ios :
        /\ Network(s, u)
        /\ p.wire = u.wire /\ p.peer = u.peer /\ p.ok = u.ok
        /\ p.buffer = Append(u.buffer, Text(i))
        /\ Network(p, v)
        /\ t.wire = v.wire /\ t.peer = v.peer /\ t.ok = v.ok
        /\ t.buffer = Append(v.buffer, Item(i))
  BY PutItemStages
<1>2. Carries(s, u, {}) /\ Carries(p, v, {})
  BY <1>0, <1>1, NetworkCarries
<1>3. Good(u, own, serving) /\ (Reachable(u) => Loaded(u, own))
  BY <1>0, <1>1, NetworkGood
<1>4. /\ Unique(u.buffer) => Unique(Append(u.buffer, Text(i)))
      /\ TextedAfter(u.wire, u.buffer, own) => TextedAfter(u.wire, Append(u.buffer, Text(i)), own)
      /\ \A j \in Items : Among(Append(u.buffer, Text(i)), Item(j)) <=> Among(u.buffer, Item(j))
      /\ Among(Append(u.buffer, Text(i)), Text(i))
  <2>1. u.wire \in Seq(Entries) /\ u.buffer \in Seq(Entries)
    BY <1>1 DEF Ios
  <2> QED BY <2>1, TextGood
<1>5. p.wire = u.wire /\ p.peer = u.peer /\ p.buffer = Append(u.buffer, Text(i))
  BY <1>1
<1>6. Good(p, own, serving)
  BY <1>3, <1>4, <1>5, Zenon DEF Good
<1>7. Reachable(p) => Loaded(p, own)
  BY <1>3, <1>4, <1>5 DEF Loaded, Reachable
<1>8. Good(v, own, serving) /\ (Reachable(v) => Loaded(v, own))
  BY <1>1, <1>6, <1>7, NetworkGood
<1>9. serving \/ v.peer # "reset" => ~ On(v, Item(i))
  <2>1. On(v, Item(i)) => On(p, Item(i))
    BY <1>0, <1>2 DEF Carries
  <2>2. On(p, Item(i)) => On(u, Item(i))
    BY <1>4, <1>5 DEF On
  <2>3. On(u, Item(i)) => On(s, Item(i))
    BY <1>0, <1>2 DEF Carries
  <2>4. v.peer # "reset" => s.peer # "reset"
    BY <1>2, <1>5 DEF Carries
  <2> QED BY <2>1, <2>2, <2>3, <2>4
<1>10. Reachable(v) => On(v, Text(i))
  BY <1>0, <1>2, <1>4, <1>5 DEF Carries, On
<1>11. /\ Unique(v.buffer) /\ ~ Among(v.buffer, Item(i)) => Unique(Append(v.buffer, Item(i)))
       /\ TextedAfter(v.wire, v.buffer, own) /\ (i \in own => Among(v.wire, Text(i)) \/ Among(v.buffer, Text(i)))
            => TextedAfter(v.wire, Append(v.buffer, Item(i)), own)
       /\ \A j \in Items : Among(Append(v.buffer, Item(i)), Item(j)) <=> Among(v.buffer, Item(j)) \/ i = j
  <2>1. v.wire \in Seq(Entries) /\ v.buffer \in Seq(Entries)
    BY <1>1 DEF Ios
  <2> QED BY <2>1, ItemGood
<1>12. t.wire = v.wire /\ t.peer = v.peer /\ t.buffer = Append(v.buffer, Item(i))
  BY <1>1
<1>13. Good(t, own, serving)
  BY <1>8, <1>9, <1>11, <1>12 DEF Good, On
<1>14. Reachable(t) => Loaded(t, own)
  BY <1>8, <1>10, <1>11, <1>12 DEF Loaded, Reachable, On
<1> QED BY <1>13, <1>14

-----------------------------------------------------------------------------
\* Calls that may send the buffer and add no item to it.
Passes(s, t) ==
    /\ Fits(t) /\ Carries(s, t, {})
    /\ \A own \in SUBSET Items, serving \in BOOLEAN :
         Good(s, own, serving) /\ (Reachable(s) => Loaded(s, own))
           => Good(t, own, serving) /\ (Reachable(t) => Loaded(t, own))

LEMMA NetworkPasses ==
    ASSUME NEW s \in Ios, NEW t, Fits(t), Network(s, t)
    PROVE  Passes(s, t)
<1>1. t \in Ios
  BY DEF Fits
<1>2. Carries(s, t, {})
  BY <1>1, NetworkCarries
<1>3. ASSUME NEW own \in SUBSET Items, NEW serving \in BOOLEAN,
             Good(s, own, serving), Reachable(s) => Loaded(s, own)
      PROVE  Good(t, own, serving) /\ (Reachable(t) => Loaded(t, own))
  BY <1>1, <1>3, NetworkGood
<1> QED BY <1>2, <1>3 DEF Passes

LEMMA PassesTransitive ==
    ASSUME NEW s, NEW t, NEW u, Passes(s, t), Passes(t, u)
    PROVE  Passes(s, u)
<1>1. ~ u.ok => u.peer = "reset"
  BY DEF Passes, Carries
<1>2. Carries(s, u, {} \cup {})
  BY <1>1, CarriesTransitive DEF Passes
<1>3. {} \cup {} = {}
  OBVIOUS
<1>4. Carries(s, u, {})
  BY <1>2, <1>3
<1>5. ASSUME NEW own \in SUBSET Items, NEW serving \in BOOLEAN,
             Good(s, own, serving), Reachable(s) => Loaded(s, own)
      PROVE  Good(u, own, serving) /\ (Reachable(u) => Loaded(u, own))
  BY <1>5 DEF Passes
<1> QED BY <1>4, <1>5 DEF Passes

\* The worker's calls that send no item.
Routine(fail) ==
    \/ Connect(fail) \/ IdleFlush(fail) \/ Queries(fail) \/ FarewellWait(fail)
    \/ FarewellQueries(fail) \/ FarewellCommit(fail)
    \/ \E keepAlive \in BOOLEAN : Idle(keepAlive, fail)

LEMMA CommitIo ==
    ASSUME WorkerAssumption, Fits(io), NEW fail \in BOOLEAN, IdleFlush(fail) \/ FarewellCommit(fail)
    PROVE  Passes(io, io') /\ io'.buffer = <<>>
<1>1. io' = CommitPending(io, fail) /\ io \in Ios
  BY DEF IdleFlush, FarewellCommit, Fits
<1> QED BY <1>1, CommitPendingIs, NetworkPasses

LEMMA IdleIo ==
    ASSUME WorkerAssumption, Fits(io), NEW fail \in BOOLEAN, NEW keepAlive \in BOOLEAN,
       Idle(keepAlive, fail)
    PROVE  Passes(io, io')
<1>1. io \in Ios
  BY DEF Fits
<1>2. PICK first : first = CommitPending(io, fail)
  OBVIOUS
<1>3. io' = first \/ io' = Commit(PutOther(first, fail), fail)
  BY <1>2 DEF Idle
<1>4. Fits(first) /\ first \in Ios /\ Network(io, first)
  BY <1>2, CommitPendingIs DEF Fits
<1>5. Passes(io, first)
  BY <1>1, <1>4, NetworkPasses
<1>6. PICK put : put = PutOther(first, fail)
  OBVIOUS
<1>7. Fits(put) /\ put \in Ios /\ Network(first, put)
  BY <1>4, <1>6, PutOtherIs DEF Fits
<1>8. Passes(io, put)
  BY <1>4, <1>5, <1>7, NetworkPasses, PassesTransitive
<1>9. PICK last : last = Commit(put, fail)
  OBVIOUS
<1>10. Fits(last) /\ Network(put, last)
  <2>1. last \in Ios /\ last.buffer = <<>> /\ last.others = 0 /\ (Flushed(put, last) \/ Failed(put, last))
    BY <1>7, <1>9, CommitIs
  <2>2. Len(last.buffer) + last.others = 0
    BY <2>1
  <2> QED BY <2>1, <2>2 DEF Fits, Network, WorkerAssumption
<1>11. Passes(io, last)
  BY <1>7, <1>8, <1>10, NetworkPasses, PassesTransitive
<1> QED BY <1>3, <1>5, <1>6, <1>9, <1>11

LEMMA RoutineIo ==
    ASSUME WorkerAssumption, Fits(io), NEW fail \in BOOLEAN, Routine(fail)
    PROVE  io' = io \/ Passes(io, io')
<1>1. io \in Ios
  BY DEF Fits
<1>2. CASE IdleFlush(fail) \/ FarewellCommit(fail) \/ \E keepAlive \in BOOLEAN : Idle(keepAlive, fail)
  BY <1>2, CommitIo, IdleIo
<1>3. CASE io' = PutOther(io, fail)
  BY <1>1, <1>3, PutOtherIs, NetworkPasses
<1>4. CASE io' = CommitPending(io, fail)
  BY <1>1, <1>4, CommitPendingIs, NetworkPasses
<1>5. CASE Connect(fail)
  BY <1>3, <1>5 DEF Connect
<1>6. CASE Queries(fail)
  BY <1>3, <1>6 DEF Queries, Answer
<1>7. CASE FarewellWait(fail)
  BY <1>4, <1>7 DEF FarewellWait
<1>8. CASE FarewellQueries(fail)
  BY <1>3, <1>4, <1>8 DEF FarewellQueries, Answer
<1> QED BY <1>2, <1>5, <1>6, <1>7, <1>8 DEF Routine

\* The same but for the other end.
Same(s, t) == t.buffer = s.buffer /\ t.others = s.others /\ t.ok = s.ok

LEMMA Repeered ==
    ASSUME NEW s \in Ios, NEW p \in {"none", "open", "closed", "reset"}, NEW t,
       t = [s EXCEPT !.peer = p]
    PROVE  t \in Ios /\ t.peer = p /\ t.wire = s.wire /\ Same(s, t)
BY DEF Ios, Same

LEMMA Unwired ==
    ASSUME NEW s \in Ios, NEW t, t = [s EXCEPT !.wire = <<>>]
    PROVE  t \in Ios /\ t.peer = s.peer /\ t.wire = <<>> /\ Same(s, t)
<1>1. <<>> \in Seq(Entries)
  OBVIOUS
<1> QED BY <1>1 DEF Ios, Same

\* Actions that leave io alone, and those that change only the other end.
Quiet ==
    \/ ExitBeforeAccept \/ AcceptNone \/ Greet \/ ClearQueues \/ DequeueNone
    \/ DequeueBulk \/ SerialNone \/ SerialSwap \/ IdleExit \/ ExitRefusing
    \/ Trace \/ Enqueue \/ RequestShutdown \/ BeginExit \/ Destroy
    \/ \E query \in {"query", "terminate", "partial"} : ServerSends(query)
    \/ UNCHANGED vars
Rewired == Accept \/ Reject \/ Lost \/ AcceptToRefuse \/ Refuse \/ ServerCloses

\* The actions by what they do to io.
LEMMA NextCases ==
    ASSUME [Next]_vars
    PROVE  \/ Quiet \/ Rewired
           \/ \E fail \in BOOLEAN : Routine(fail) \/ Feed(fail) \/ FeedSerial(fail) \/ Terminate(fail)
BY DEF Next, Worker, Server, Program, Quiet, Rewired, Routine

LEMMA QuietIo == ASSUME Quiet PROVE io' = io
BY DEF Quiet, ServerSends, vars, ExitBeforeAccept, AcceptNone, Greet, ClearQueues, DequeueNone,
   DequeueBulk, SerialNone, SerialSwap, IdleExit, ExitRefusing, Trace, Enqueue, RequestShutdown,
   BeginExit, Destroy

LEMMA OpenedIo ==
    ASSUME io \in Ios, Accept \/ AcceptToRefuse
    PROVE  io' \in Ios /\ io'.peer = "open" /\ io'.wire = <<>> /\ Same(io, io')
<1>1. io' = [io EXCEPT !.peer = "open", !.wire = <<>>]
  BY DEF Accept, AcceptToRefuse
<1>2. PICK s : s = [io EXCEPT !.peer = "open"]
  OBVIOUS
<1>3. s \in Ios /\ s.peer = "open" /\ s.wire = io.wire /\ Same(io, s)
  BY <1>2, Repeered
<1>4. io' = [s EXCEPT !.wire = <<>>]
  BY <1>1, <1>2
<1>5. io' \in Ios /\ io'.peer = s.peer /\ io'.wire = <<>> /\ Same(s, io')
  BY <1>3, <1>4, Unwired
<1> QED BY <1>3, <1>5 DEF Same

LEMMA ShutIo ==
    ASSUME io \in Ios, Reject \/ Refuse \/ (Lost /\ ~ shutdown)
    PROVE  io' \in Ios /\ io'.peer = "none" /\ io'.wire = io.wire /\ Same(io, io')
<1>1. io' = [io EXCEPT !.peer = "none"]
  BY DEF Reject, Refuse, Lost
<1> QED BY <1>1, Repeered

LEMMA ClosedIo ==
    ASSUME io \in Ios, ServerCloses
    PROVE  io' \in Ios /\ io'.peer = "closed" /\ io.peer = "open" /\ io'.wire = io.wire /\ Same(io, io')
<1>1. io' = [io EXCEPT !.peer = "closed"] /\ io.peer = "open"
  BY DEF ServerCloses
<1> QED BY <1>1, Repeered

LEMMA LostIo == ASSUME Lost, shutdown PROVE io' = io
BY DEF Lost

LEMMA TerminateIo ==
    ASSUME Fits(io), NEW fail \in BOOLEAN, Terminate(fail)
    PROVE  Fits(io') /\ io'.buffer = io.buffer /\ (Sent(io, <<Goodbye>>, io') \/ Unsent(io, io'))
<1>1. io \in Ios /\ <<Goodbye>> \in Seq(Entries)
  BY Kinds DEF Fits
<1>2. io' = Send(io, <<Goodbye>>, fail)
  BY DEF Terminate
<1>3. /\ io' \in Ios /\ io'.buffer = io.buffer /\ io'.others = io.others
      /\ Sent(io, <<Goodbye>>, io') \/ Unsent(io, io')
  BY <1>1, <1>2, SendIs
<1> QED BY <1>3 DEF Fits

LEMMA FeedIs ==
    ASSUME QueueTypes, AtItem, NEW fail \in BOOLEAN, Feed(fail)
    PROVE  Head(bulk) \in Items /\ io' = PutItem(io, Head(bulk), fail)
BY DEF Feed, AtItem, QueueTypes

LEMMA FeedSerialIs ==
    ASSUME QueueTypes, AtItem, NEW fail \in BOOLEAN, FeedSerial(fail)
    PROVE  swapped[cursor] \in Items /\ io' = PutItem(io, swapped[cursor], fail)
BY DEF FeedSerial, AtItem, QueueTypes

LEMMA IoNext ==
    ASSUME WorkerAssumption, Fits(io), QueueTypes, AtItem, [Next]_vars
    PROVE  Fits(io')
<1>1. CASE Quiet
  BY <1>1, QuietIo
<1>2. CASE Rewired
  <2>1. io \in Ios
    BY DEF Fits
  <2> QED BY <1>2, <2>1, OpenedIo, ShutIo, ClosedIo, LostIo DEF Rewired, Same, Fits
<1>3. ASSUME NEW fail \in BOOLEAN, Routine(fail) PROVE Fits(io')
  BY <1>3, RoutineIo DEF Passes
<1>4. ASSUME NEW fail \in BOOLEAN, Feed(fail) PROVE Fits(io')
  BY <1>4, FeedIs, PutItemFits
<1>5. ASSUME NEW fail \in BOOLEAN, FeedSerial(fail) PROVE Fits(io')
  BY <1>5, FeedSerialIs, PutItemFits
<1>6. ASSUME NEW fail \in BOOLEAN, Terminate(fail) PROVE Fits(io')
  BY <1>6, TerminateIo
<1> QED BY <1>1, <1>2, <1>3, <1>4, <1>5, <1>6, NextCases

-----------------------------------------------------------------------------
\* The loops that feed items have one, step by step.
LEMMA AtItemNext == WorkerAssumption /\ QueueTypes /\ AtItem /\ [Next]_vars => AtItem'
<1> SUFFICES ASSUME WorkerAssumption, QueueTypes, AtItem, [Next]_vars PROVE AtItem'
  OBVIOUS
<1>0. QueueTypes /\ AtItem
  OBVIOUS
<1> USE DEF AtItem, steady, program, config, control, tracer, history, queues
<1>1. CASE ExitBeforeAccept
  BY <1>0, <1>1 DEF ExitBeforeAccept, Return
<1>2. CASE AcceptNone
  <2>1. pc \in {"accept", "refuse"} /\ pc' = pc
    BY <1>2 DEF AcceptNone
  <2> QED BY <2>1 DEF AtItem
<1>3. CASE Accept
  BY <1>0, <1>3 DEF Accept
<1>4. CASE Reject
  BY <1>0, <1>4 DEF Reject
<1>5. CASE Greet
  BY <1>0, <1>5 DEF Greet
<1>6. CASE ClearQueues
  BY <1>0, <1>6 DEF ClearQueues
<1>7. CASE DequeueNone
  BY <1>0, <1>7 DEF DequeueNone
<1>8. CASE DequeueBulk
  <2>1. PICK n : /\ n \in Nat \ {0} /\ n <= Len(queue)
                 /\ bulk' = SubSeq(queue, 1, n)
    <3>1. Len(queue) \in Nat \ {0} /\ BulkSize \in Nat \ {0}
      BY <1>0, <1>8, WorkerAssumption DEF QueueTypes, DequeueBulk
    <3> DEFINE n == IF Len(queue) < BulkSize THEN Len(queue) ELSE BulkSize
    <3>2. n \in Nat \ {0} /\ n <= Len(queue)
      BY <3>1
    <3>3. bulk' = SubSeq(queue, 1, n)
      BY <1>8 DEF DequeueBulk
    <3> QED BY <3>2, <3>3
  <2>2. bulk' # <<>> /\ pc' = "feed"
    <3>1. Len(SubSeq(queue, 1, n)) = n
      BY <1>0, <2>1 DEF QueueTypes
    <3>2. Len(<<>>) = 0
      OBVIOUS
    <3> QED BY <1>8, <2>1, <3>1, <3>2 DEF DequeueBulk
  <2> QED BY <2>2 DEF AtItem
<1>9. CASE SerialNone
  BY <1>0, <1>9 DEF SerialNone, NextPc
<1>10. CASE SerialSwap
  <2>1. swapped' = serial /\ cursor' = 1 /\ pc' = "feedSerial" /\ serial # <<>> /\ serial \in Seq(Items)
    BY <1>0, <1>10 DEF SerialSwap, QueueTypes
  <2>2. Len(serial) \in Nat \ {0} /\ DOMAIN serial = 1..Len(serial)
    BY <2>1
  <2>3. 1 \in DOMAIN serial
    BY <2>2
  <2> QED BY <2>1, <2>3, Zenon DEF AtItem
<1>11. CASE IdleExit
  BY <1>0, <1>11 DEF IdleExit
<1>12. CASE Lost
  BY <1>0, <1>12 DEF Lost
<1>13. CASE ExitRefusing
  BY <1>0, <1>13 DEF ExitRefusing, Return
<1>14. CASE AcceptToRefuse
  BY <1>0, <1>14 DEF AcceptToRefuse
<1>15. CASE Refuse
  BY <1>0, <1>15 DEF Refuse
<1>16. CASE ServerCloses
  BY <1>0, <1>16 DEF ServerCloses
<1>17. CASE Trace
  BY <1>0, <1>17 DEF Trace
<1>18. CASE Enqueue
  BY <1>0, <1>18 DEF Enqueue
<1>19. CASE RequestShutdown
  BY <1>0, <1>19 DEF RequestShutdown
<1>20. CASE BeginExit
  BY <1>0, <1>20 DEF BeginExit
<1>21. CASE Destroy
  BY <1>0, <1>21 DEF Destroy
<1>22. ASSUME NEW fail \in BOOLEAN, Connect(fail) PROVE AtItem'
  BY <1>0, <1>22 DEF Connect
<1>23. ASSUME NEW fail \in BOOLEAN, Feed(fail) PROVE AtItem'
  <2>1. bulk' # <<>> \/ pc' \in {"dequeue", "serial"}
    BY <1>23 DEF Feed
  <2>2. pc' = pc \/ pc' \in {"dequeue", "serial"}
    BY <1>23 DEF Feed
  <2>3. pc = "feed"
    BY <1>23 DEF Feed
  <2> QED BY <2>1, <2>2, <2>3 DEF AtItem
<1>24. ASSUME NEW fail \in BOOLEAN, FeedSerial(fail) PROVE AtItem'
  <2>0. pc = "feedSerial" /\ cursor \in 1..Len(swapped) /\ Len(swapped) \in Nat /\ DOMAIN swapped = 1..Len(swapped)
    BY <1>0, <1>24 DEF FeedSerial, AtItem, QueueTypes
  <2>1. \/ pc' \notin {"feed", "feedSerial"}
        \/ pc' = pc /\ swapped' = swapped /\ cursor' = cursor + 1 /\ cursor < Len(swapped)
    BY <1>24 DEF FeedSerial, NextPc
  <2> QED BY <2>0, <2>1 DEF AtItem
<1>25. ASSUME NEW fail \in BOOLEAN, IdleFlush(fail) PROVE AtItem'
  BY <1>0, <1>25 DEF IdleFlush
<1>26. ASSUME NEW fail \in BOOLEAN, Queries(fail) PROVE AtItem'
  BY <1>0, <1>26 DEF Queries, Answer, NoAnswer
<1>27. ASSUME NEW fail \in BOOLEAN, Terminate(fail) PROVE AtItem'
  BY <1>0, <1>27 DEF Terminate, Return
<1>28. ASSUME NEW fail \in BOOLEAN, FarewellWait(fail) PROVE AtItem'
  BY <1>0, <1>28 DEF FarewellWait
<1>29. ASSUME NEW fail \in BOOLEAN, FarewellQueries(fail) PROVE AtItem'
  BY <1>0, <1>29 DEF FarewellQueries, Answer, NoAnswer, Return
<1>30. ASSUME NEW fail \in BOOLEAN, FarewellCommit(fail) PROVE AtItem'
  BY <1>0, <1>30 DEF FarewellCommit, Return
<1>31. ASSUME NEW fail \in BOOLEAN, NEW keepAlive \in BOOLEAN, Idle(keepAlive, fail) PROVE AtItem'
  BY <1>0, <1>31 DEF Idle
<1>32. ASSUME NEW query \in {"query", "terminate", "partial"}, ServerSends(query) PROVE AtItem'
  BY <1>0, <1>32 DEF ServerSends
<1>33. CASE UNCHANGED vars
  BY <1>0, <1>33 DEF vars
<1> QED BY <1>1, <1>2, <1>3, <1>4, <1>5, <1>6, <1>7, <1>8, <1>9, <1>10, <1>11, <1>12, <1>13, <1>14,
   <1>15, <1>16, <1>17, <1>18, <1>19, <1>20, <1>21, <1>22, <1>23, <1>24, <1>25, <1>26, <1>27,
   <1>28, <1>29, <1>30, <1>31, <1>32, <1>33 DEF Next, Worker, Server, Program

Types == TypeOK /\ AtItem

LEMMA TypesInit == WorkerAssumption /\ Init => Types
<1> SUFFICES ASSUME WorkerAssumption, Init PROVE Types
  OBVIOUS
<1>1. Fits(io)
  <2>1. io = [buffer |-> <<>>, others |-> 0, wire |-> <<>>, peer |-> "none", ok |-> TRUE]
    BY DEF Init
  <2>2. <<>> \in Seq(Entries)
    OBVIOUS
  <2>3. io \in Ios
    BY <2>1, <2>2 DEF Ios
  <2>4. Len(io.buffer) + io.others = 0
    BY <2>1
  <2> QED BY <2>3, <2>4 DEF Fits, WorkerAssumption
<1>2. OtherTypes
  <2>1. session \in 0..MaxSessions /\ tracing \in 0..MaxItems
    BY DEF Init, WorkerAssumption
  <2>2. traced \in [Items -> -1..MaxSessions]
    BY DEF Init, WorkerAssumption
  <2>3. inbox \in Seq({"query", "terminate", "partial"}) /\ due \subseteq Items
    BY DEF Init
  <2> QED BY <2>1, <2>2, <2>3 DEF Init, OtherTypes
<1>3. QueueTypes
  <2>1. <<>> \in Seq(Items)
    OBVIOUS
  <2>2. freed \in [Items -> Nat]
    BY DEF Init
  <2> QED BY <2>1, <2>2 DEF Init, QueueTypes
<1>4. AtItem
  BY DEF Init, AtItem
<1> QED BY <1>1, <1>2, <1>3, <1>4, TypeParts DEF Types

LEMMA TypesNext == WorkerAssumption /\ Types /\ [Next]_vars => Types'
<1> SUFFICES ASSUME WorkerAssumption, Types, [Next]_vars PROVE Types'
  OBVIOUS
<1>1. Fits(io) /\ OtherTypes /\ QueueTypes /\ AtItem /\ TypeOK
  BY TypeParts DEF Types
<1>2. Fits(io)' /\ OtherTypes' /\ QueueTypes' /\ AtItem'
  BY <1>1, IoNext, OtherNext, QueueNext, AtItemNext
<1>3. TypeOK'
  <2>1. \A flag \in {isConnected', shutdown', finished', exiting', destroyed'} : flag \in BOOLEAN
    BY <1>2, Zenon DEF OtherTypes
  <2>2. \A q \in {queue', bulk', serial', swapped'} : q \in Seq(Items)
    BY <1>2, Zenon DEF QueueTypes
  <2> QED BY <1>2, <2>1, <2>2, Zenon DEF TypeOK, Fits, Ios, OtherTypes, QueueTypes
<1> QED BY <1>2, <1>3 DEF Types

\* Every variable keeps its type, the send buffer never holds more than one
\* frame (NeedDataSize, TracyProfiler.cpp:1377-1385), and the two loops that feed
\* items never run past the end of theirs.
THEOREM TypesCorrect == Spec => []Types
<1>1. Init => Types
  BY TypesInit, WorkerAssumption
<1>2. Types /\ [Next]_vars => Types'
  BY TypesNext, WorkerAssumption
<1> QED BY <1>1, <1>2, PTL DEF Spec

-----------------------------------------------------------------------------
\* Where the worker is: between sessions, refusing one, in one of its loops.
Refusing == pc \in {"refuse", "refuseHandshake"}
Connecting == pc \in {"accept", "handshake", "clear", "connect"}
Looping == ~ Refusing /\ ~ Connecting /\ pc # "returned"

Goodbyes == Among(io.wire, Goodbye)

\* Which places go with which modes, sockets and peers: the worker is in a loop
\* only on a live socket, it is in the last two loops only when told to shut
\* down, and Goodbye is sent at the end of the second.
Control ==
    /\ mode = "flush" => pc \in {"dequeue", "feed", "serial", "feedSerial", "idle", "queries",
                                 "terminate", "farewell", "farewellQueries", "returned"}
    /\ mode = "farewell" => pc \in {"dequeue", "feed", "serial", "feedSerial", "farewell",
                                    "farewellQueries", "farewellCommit", "returned"}
    /\ mode = "serve" => pc \notin {"terminate", "farewell", "farewellQueries", "farewellCommit"}
    /\ mode # "serve" => shutdown /\ io.peer # "none"
    /\ exiting => shutdown
    /\ destroyed => pc = "returned"
    /\ pc = "clear" => onDemand
    /\ Refusing => ~ onDemand
    /\ Connecting => ~ isConnected
    /\ Looping => sock = "live" /\ io.peer # "none"
    /\ pc \in {"handshake", "clear", "connect", "refuseHandshake"} => sock = "live" /\ Reachable(io)
    /\ pc \in {"accept", "refuse"} => io.peer = "none"
    /\ pc = "lost" => io.peer = "reset"
    /\ pc \in {"serial", "feedSerial"} /\ status = "lost" => io.peer = "reset"
    /\ pc \in {"farewell", "farewellQueries", "farewellCommit"} \/ mode = "farewell" => Goodbyes
    /\ ~ Among(io.buffer, Goodbye)
    /\ sock = "destroyedTwice" => destroyed
    /\ Goodbyes => /\ mode # "serve"
                   /\ destroyed \/ sock = "live"
                   /\ sock # "destroyedTwice"
                   /\ mode = "flush" => pc \in {"farewell", "farewellQueries", "returned"}

\* Control holds after every step.
LEMMA ControlNext == WorkerAssumption /\ Types /\ Control /\ [Next]_vars => Control'
<1> SUFFICES ASSUME WorkerAssumption, Types, Control, [Next]_vars PROVE Control'
  OBVIOUS
<1>0. Fits(io) /\ io \in Ios /\ OtherTypes /\ QueueTypes /\ AtItem
  BY TypeParts DEF Types, Fits
<1>r. ASSUME NEW fail \in BOOLEAN, Routine(fail)
      PROVE  /\ io'.peer = io.peer \/ io'.peer = "reset"
             /\ (Goodbyes' <=> Goodbyes) /\ ~ Among(io'.buffer, Goodbye)
  <2>1. CASE io' = io
    BY <1>0, <2>1 DEF Control, Goodbyes
  <2>2. CASE Passes(io, io')
    <3>1. Carries(io, io', {}) /\ Goodbye \in Entries
      BY <2>2, Kinds DEF Passes
    <3>2. ~ Among(io.buffer, Goodbye)
      BY DEF Control
    <3>3. /\ Among(io.wire, Goodbye) => Among(io'.wire, Goodbye)
          /\ On(io', Goodbye) => On(io, Goodbye)
          /\ Among(io'.buffer, Goodbye) => Among(io.buffer, Goodbye)
          /\ io'.peer = io.peer \/ io'.peer = "reset"
      BY <3>1 DEF Carries
    <3> QED BY <3>2, <3>3 DEF Goodbyes, On
  <2> QED BY <1>0, <1>r, <2>1, <2>2, RoutineIo
<1>f. ASSUME NEW fail \in BOOLEAN, Feed(fail) \/ FeedSerial(fail)
      PROVE  /\ io'.peer = io.peer \/ io'.peer = "reset"
             /\ ~ io'.ok => io'.peer = "reset"
             /\ (Goodbyes' <=> Goodbyes) /\ ~ Among(io'.buffer, Goodbye)
  <2>1. PICK i \in Items : io' = PutItem(io, i, fail)
    BY <1>0, <1>f, FeedIs, FeedSerialIs
  <2>2. Carries(io, io', {Text(i), Item(i)})
    BY <1>0, <2>1, PutItemCarries
  <2>3. Goodbye \in Entries /\ Goodbye \notin {Text(i), Item(i)}
    BY Kinds
  <2>4. ~ Among(io.buffer, Goodbye)
    BY DEF Control
  <2>5. /\ Among(io.wire, Goodbye) => Among(io'.wire, Goodbye)
        /\ On(io', Goodbye) => On(io, Goodbye)
        /\ Among(io'.buffer, Goodbye) => Among(io.buffer, Goodbye)
        /\ io'.peer = io.peer \/ io'.peer = "reset"
        /\ ~ io'.ok => io'.peer = "reset"
    BY <2>2, <2>3 DEF Carries
  <2> QED BY <2>4, <2>5 DEF Goodbyes, On
<1>k. ASSUME NEW fail \in BOOLEAN, FarewellCommit(fail) \/ \E keepAlive \in BOOLEAN : Idle(keepAlive, fail)
      PROVE  ~ io'.ok => io'.peer = "reset"
  BY <1>0, <1>k, CommitIo, IdleIo DEF Passes, Carries
<1>t. ASSUME NEW fail \in BOOLEAN, Terminate(fail)
      PROVE  /\ io'.buffer = io.buffer
             /\ io'.peer = io.peer \/ io'.peer = "reset"
             /\ io'.ok => Goodbyes'
             /\ ~ io'.ok => (Goodbyes' <=> Goodbyes)
  <2>1. io'.buffer = io.buffer /\ (Sent(io, <<Goodbye>>, io') \/ Unsent(io, io'))
    BY <1>0, <1>t, TerminateIo
  <2>2. CASE Sent(io, <<Goodbye>>, io')
    <3>1. io.wire \in Seq(Entries) /\ <<Goodbye>> \in Seq(Entries)
      BY <1>0, Kinds DEF Ios
    <3>2. Among(<<Goodbye>>, Goodbye)
      BY DEF Among
    <3>3. Among(io.wire \o <<Goodbye>>, Goodbye)
      BY <3>1, <3>2, AmongConcat
    <3> QED BY <2>1, <2>2, <3>3 DEF Sent, Goodbyes
  <2>3. CASE Unsent(io, io')
    BY <2>1, <2>3 DEF Unsent, Goodbyes
  <2> QED BY <2>1, <2>2, <2>3
<1>o. ASSUME Accept \/ AcceptToRefuse
      PROVE  io'.buffer = io.buffer /\ io'.peer = "open" /\ ~ Goodbyes'
  BY <1>0, <1>o, OpenedIo DEF Same, Goodbyes, Among
<1>s. ASSUME Reject \/ Refuse \/ (Lost /\ ~ shutdown)
      PROVE  io'.buffer = io.buffer /\ io'.peer = "none" /\ (Goodbyes' <=> Goodbyes)
  BY <1>0, <1>s, ShutIo DEF Same, Goodbyes
<1>l. ASSUME Lost, shutdown PROVE io' = io
  BY <1>l, LostIo
<1>x. ASSUME ServerCloses
      PROVE  /\ io'.buffer = io.buffer /\ io.peer = "open" /\ io'.peer = "closed"
             /\ (Goodbyes' <=> Goodbyes)
  BY <1>0, <1>x, ClosedIo DEF Same, Goodbyes
<1> USE DEF Control, steady, program, config, control, tracer, history, queues, Looping, Refusing,
   Connecting, OtherTypes, Goodbyes, Reachable
<1>1. CASE ExitBeforeAccept
  BY <1>0, <1>1 DEF ExitBeforeAccept, Return
<1>2. CASE AcceptNone
  BY <1>0, <1>2 DEF AcceptNone
<1>3. CASE Accept
  BY <1>0, <1>3, <1>o DEF Accept
<1>4. CASE Reject
  BY <1>0, <1>4, <1>s, <1>l DEF Reject
<1>5. CASE Greet
  BY <1>0, <1>5 DEF Greet
<1>6. CASE ClearQueues
  BY <1>0, <1>6 DEF ClearQueues
<1>7. CASE DequeueNone
  BY <1>0, <1>7 DEF DequeueNone
<1>8. CASE DequeueBulk
  BY <1>0, <1>8 DEF DequeueBulk
<1>9. CASE SerialNone
  BY <1>0, <1>9 DEF SerialNone, NextPc
<1>10. CASE SerialSwap
  BY <1>0, <1>10 DEF SerialSwap
<1>11. CASE IdleExit
  BY <1>0, <1>11 DEF IdleExit
<1>12. CASE Lost
  BY <1>0, <1>12, <1>s, <1>l DEF Lost
<1>13. CASE ExitRefusing
  BY <1>0, <1>13 DEF ExitRefusing, Return
<1>14. CASE AcceptToRefuse
  BY <1>0, <1>14, <1>o DEF AcceptToRefuse
<1>15. CASE Refuse
  BY <1>0, <1>15, <1>s, <1>l DEF Refuse
<1>16. CASE ServerCloses
  BY <1>0, <1>16, <1>x DEF ServerCloses
<1>17. CASE Trace
  BY <1>0, <1>17 DEF Trace
<1>18. CASE Enqueue
  BY <1>0, <1>18 DEF Enqueue
<1>19. CASE RequestShutdown
  BY <1>0, <1>19 DEF RequestShutdown
<1>20. CASE BeginExit
  BY <1>0, <1>20 DEF BeginExit
<1>21. CASE Destroy
  BY <1>0, <1>21 DEF Destroy
<1>22. ASSUME NEW fail \in BOOLEAN, Connect(fail) PROVE Control'
  BY <1>0, <1>22, <1>r DEF Connect, Routine
<1>23. ASSUME NEW fail \in BOOLEAN, Feed(fail) PROVE Control'
  BY <1>0, <1>23, <1>f DEF Feed
<1>24. ASSUME NEW fail \in BOOLEAN, FeedSerial(fail) PROVE Control'
  BY <1>0, <1>24, <1>f DEF FeedSerial, NextPc
<1>25. ASSUME NEW fail \in BOOLEAN, IdleFlush(fail) PROVE Control'
  BY <1>0, <1>25, <1>r DEF IdleFlush, Routine
<1>26. ASSUME NEW fail \in BOOLEAN, Queries(fail) PROVE Control'
  BY <1>0, <1>26, <1>r DEF Queries, Routine, Answer, NoAnswer
<1>27. ASSUME NEW fail \in BOOLEAN, Terminate(fail) PROVE Control'
  BY <1>0, <1>27, <1>t DEF Terminate, Return
<1>28. ASSUME NEW fail \in BOOLEAN, FarewellWait(fail) PROVE Control'
  BY <1>0, <1>28, <1>r DEF FarewellWait, Routine
<1>29. ASSUME NEW fail \in BOOLEAN, FarewellQueries(fail) PROVE Control'
  BY <1>0, <1>29, <1>r DEF FarewellQueries, Routine, Return, Answer, NoAnswer
<1>30. ASSUME NEW fail \in BOOLEAN, FarewellCommit(fail) PROVE Control'
  BY <1>0, <1>30, <1>r, <1>k DEF FarewellCommit, Routine, Return
<1>31. ASSUME NEW fail \in BOOLEAN, NEW keepAlive \in BOOLEAN, Idle(keepAlive, fail) PROVE Control'
  BY <1>0, <1>31, <1>r, <1>k DEF Idle, Routine
<1>32. ASSUME NEW query \in {"query", "terminate", "partial"}, ServerSends(query) PROVE Control'
  BY <1>0, <1>32 DEF ServerSends
<1>33. CASE UNCHANGED vars
  BY <1>0, <1>33 DEF vars
<1> QED BY <1>1, <1>2, <1>3, <1>4, <1>5, <1>6, <1>7, <1>8, <1>9, <1>10, <1>11, <1>12, <1>13, <1>14,
   <1>15, <1>16, <1>17, <1>18, <1>19, <1>20, <1>21, <1>22, <1>23, <1>24, <1>25, <1>26, <1>27,
   <1>28, <1>29, <1>30, <1>31, <1>32, <1>33 DEF Next, Worker, Server, Program

LEMMA ControlInit == Init => Control
<1> SUFFICES ASSUME Init PROVE Control
  OBVIOUS
<1>1. ~ Among(io.buffer, Goodbye) /\ ~ Goodbyes /\ io.peer = "none"
  BY DEF Init, Among, Goodbyes
<1> QED BY <1>1 DEF Init, Control, Looping, Refusing, Connecting, Reachable

\* The worker's place, its mode, its socket and its peer go together in every
\* behaviour of Profiler::Worker.
THEOREM ControlHolds == Spec => []Control
<1>1. Init => Control
  BY ControlInit
<1>2. Types /\ Control /\ [Next]_vars => Control'
  BY ControlNext, WorkerAssumption
<1> QED BY <1>1, <1>2, TypesCorrect, PTL DEF Spec

\* SocketUsable, for any bounds: no place in Worker uses m_sock after it was
\* destroyed (TracyProfiler.cpp:943-962, 1089-1115), and the destructor destroys
\* it twice only in a session that was never told Terminate.
THEOREM SocketIsUsable == Spec => []SocketUsable
<1>1. Types /\ Control => SocketUsable
  <2> SUFFICES ASSUME Types, Control PROVE SocketUsable
    OBVIOUS
  <2>1. Goodbye \in ToSet(io.wire) => Goodbyes
    BY DEF ToSet, Goodbyes, Among
  <2> QED BY <2>1 DEF Control, SocketUsable, Looping, Refusing, Connecting
<1> QED BY <1>1, TypesCorrect, ControlHolds, PTL

LEMMA RefusingSteps ==
    ASSUME io \in Ios, ~ onDemand, Refusing, [Next]_vars
    PROVE  pc' \in {"refuse", "refuseHandshake", "returned"} /\ io'.wire \in {io.wire, <<>>}
<1>1. CASE Quiet
  <2>1. io' = io
    BY <1>1, QuietIo
  <2>2. pc' \in {pc, "returned"}
    BY <1>1 DEF Quiet, Refusing, ServerSends, vars, ExitBeforeAccept, AcceptNone, Greet,
       ClearQueues,
       DequeueNone, DequeueBulk, SerialNone, SerialSwap, IdleExit, ExitRefusing, Trace, Enqueue,
       RequestShutdown, BeginExit, Destroy, Return
  <2> QED BY <2>1, <2>2 DEF Refusing
<1>2. CASE Rewired
  <2>1. CASE AcceptToRefuse
    BY <2>1, OpenedIo DEF AcceptToRefuse
  <2>2. CASE Refuse
    BY <2>2, ShutIo DEF Refuse
  <2>3. CASE ServerCloses
    BY <2>3, ClosedIo DEF ServerCloses, Refusing
  <2> QED BY <1>2, <2>1, <2>2, <2>3 DEF Rewired, Refusing, Accept, Reject, Lost
<1>3. ASSUME NEW fail \in BOOLEAN, Routine(fail) \/ Feed(fail) \/ FeedSerial(fail) \/ Terminate(fail)
      PROVE  FALSE
  BY <1>3 DEF Refusing, Routine, Connect, IdleFlush, Queries, FarewellWait, FarewellQueries,
     FarewellCommit, Idle, Feed, FeedSerial, Terminate
<1> QED BY <1>1, <1>2, <1>3, NextCases

\* OnlyFirstSessionServed, for any bounds: without on-demand mode the worker that
\* lost its server only refuses connections, and sends them nothing
\* (TracyProfiler.cpp:1052-1116).
THEOREM OnlyFirstIsServed == Spec => OnlyFirstSessionServed
<1>1. Types /\ [Next]_vars =>
        [~ onDemand /\ pc \in {"refuse", "refuseHandshake"} =>
           pc' \in {"refuse", "refuseHandshake", "returned"} /\ io'.wire \in {io.wire, <<>>}]_vars
  BY TypeParts, RefusingSteps DEF Types, Fits, Refusing
<1> QED BY <1>1, TypesCorrect, PTL DEF Spec, OnlyFirstSessionServed

Injective(s) == \A j, k \in DOMAIN s : s[j] = s[k] => j = k

\* Items whose tracing thread is done with them.
Started == { i \in Items : traced[i] # -1 /\ i # tracing }

\* What DequeueSerial has still to send, and all that is still to be sent.
Left == IF pc = "feedSerial" THEN { swapped[k] : k \in cursor..Len(swapped) } ELSE {}
Waiting == ToSet(queue) \cup ToSet(bulk) \cup ToSet(serial) \cup Left

LEMMA EmptyIs == ToSet(<<>>) = {} /\ Injective(<<>>)
BY DEF ToSet, Injective

LEMMA AppendIs ==
    ASSUME NEW q \in Seq(Items), NEW x \in Items
    PROVE  /\ ToSet(Append(q, x)) = ToSet(q) \cup {x}
           /\ Injective(q) /\ x \notin ToSet(q) => Injective(Append(q, x))
<1> PICK n : n = Len(q)
  OBVIOUS
<1> PICK c : c = Append(q, x)
  OBVIOUS
<1>1. /\ n \in Nat /\ DOMAIN q = 1..n /\ DOMAIN c = 1..(n + 1)
      /\ \A k \in 1..n : c[k] = q[k] /\ k \in 1..(n + 1)
      /\ n + 1 \in 1..(n + 1)
      /\ \A k \in 1..(n + 1) : k \notin 1..n => k = n + 1
      /\ c[n + 1] = x
  <2>1. n \in Nat /\ DOMAIN q = 1..n
    BY LenProperties
  <2>2. /\ Append(q, x) \in Seq(Items) /\ Len(Append(q, x)) = n + 1
        /\ \A k \in 1..n : Append(q, x)[k] = q[k]
        /\ Append(q, x)[n + 1] = x
    BY AppendProperties
  <2>3. DOMAIN c = 1..(n + 1)
    BY <2>2, LenProperties
  <2> QED BY <2>1, <2>2, <2>3
<1>2. ToSet(c) = ToSet(q) \cup {x}
  BY <1>1 DEF ToSet
<1>3. Injective(q) /\ x \notin ToSet(q) => Injective(c)
  BY <1>1 DEF ToSet, Injective
<1> QED BY <1>2, <1>3

LEMMA TailIs ==
    ASSUME NEW q \in Seq(Items), q # <<>>, Injective(q)
    PROVE  /\ Head(q) \in ToSet(q) /\ Injective(Tail(q))
           /\ ToSet(Tail(q)) = ToSet(q) \ {Head(q)}
<1> PICK n : n = Len(q)
  OBVIOUS
<1> PICK t : t = Tail(q)
  OBVIOUS
<1>1. /\ n \in Nat \ {0} /\ DOMAIN q = 1..n /\ DOMAIN t = 1..(n - 1)
      /\ \A k \in 1..(n - 1) : t[k] = q[k + 1] /\ k + 1 \in 1..n
      /\ \A k \in 1..n : k # 1 => k - 1 \in 1..(n - 1) /\ t[k - 1] = q[k]
      /\ 1 \in 1..n /\ Head(q) = q[1]
  BY HeadTailProperties, LenProperties
<1>2. Head(q) \in ToSet(q)
  BY <1>1 DEF ToSet
<1>3. Injective(t)
  <2> SUFFICES ASSUME NEW j \in 1..(n - 1), NEW k \in 1..(n - 1), t[j] = t[k] PROVE j = k
    BY <1>1 DEF Injective
  <2>1. q[j + 1] = q[k + 1] /\ j + 1 \in 1..n /\ k + 1 \in 1..n
    BY <1>1
  <2>2. j + 1 = k + 1
    BY <1>1, <2>1 DEF Injective
  <2> QED BY <1>1, <2>2
<1>4. \A k \in 1..(n - 1) : t[k] \in ToSet(q) /\ t[k] # q[1]
  <2> TAKE k \in 1..(n - 1)
  <2>1. t[k] = q[k + 1] /\ k + 1 \in 1..n /\ k + 1 # 1
    BY <1>1
  <2> QED BY <1>1, <2>1 DEF ToSet, Injective
<1>5. \A k \in 1..n : q[k] # q[1] => q[k] \in ToSet(t)
  <2> TAKE k \in 1..n
  <2> HAVE q[k] # q[1]
  <2>1. k - 1 \in 1..(n - 1) /\ t[k - 1] = q[k]
    BY <1>1
  <2> QED BY <1>1, <2>1 DEF ToSet
<1>6. ToSet(t) = ToSet(q) \ {q[1]}
  <2>1. ToSet(t) = { t[k] : k \in 1..(n - 1) } /\ ToSet(q) = { q[k] : k \in 1..n }
    BY <1>1 DEF ToSet
  <2> QED BY <1>4, <1>5, <2>1
<1> QED BY <1>1, <1>2, <1>3, <1>6

\* b and r share out what is in q.
Splits(q, b, r) ==
    /\ Injective(b) /\ Injective(r)
    /\ ToSet(b) \cap ToSet(r) = {}
    /\ ToSet(b) \cup ToSet(r) = ToSet(q)

LEMMA SplitIs ==
    ASSUME NEW q \in Seq(Items), NEW n \in Nat, n <= Len(q), Injective(q),
           NEW b, b = SubSeq(q, 1, n), NEW r, r = SubSeq(q, n + 1, Len(q))
    PROVE  Splits(q, b, r)
<1> PICK m : m = Len(q)
  OBVIOUS
<1>1. m \in Nat /\ n \in 0..m /\ DOMAIN q = 1..m /\ \A k \in 1..m : q[k] \in Items
  BY LenProperties
<1>2. DOMAIN b = 1..n /\ \A k \in 1..n : b[k] = q[k] /\ k \in 1..m
  <2>1. Len(b) = n /\ b \in Seq(Items) /\ \A k \in 1..n : b[k] = q[k]
    BY <1>1, SubSeqProperties
  <2> QED BY <1>1, <2>1, LenProperties
<1>3. DOMAIN r = 1..(m - n) /\ \A k \in 1..(m - n) : r[k] = q[n + k] /\ n + k \in 1..m
  <2>1. \A k \in (n + 1)..m : q[k] \in Items
    BY <1>1
  <2>2. Len(r) = m - n /\ r \in Seq(Items) /\ \A k \in 1..(m - n) : r[k] = q[n + k]
    BY <1>1, <2>1
  <2> QED BY <1>1, <2>2, LenProperties
<1>4. Injective(b)
  BY <1>1, <1>2 DEF Injective
<1>5. Injective(r)
  <2> SUFFICES ASSUME NEW j \in 1..(m - n), NEW k \in 1..(m - n), r[j] = r[k] PROVE j = k
    BY <1>3 DEF Injective
  <2>1. q[n + j] = q[n + k] /\ n + j \in DOMAIN q /\ n + k \in DOMAIN q
    BY <1>1, <1>3
  <2>2. n + j = n + k
    BY <2>1 DEF Injective
  <2> QED BY <1>1, <2>2
<1>6. ToSet(b) = { q[k] : k \in 1..n } /\ ToSet(q) = { q[k] : k \in 1..m }
  BY <1>1, <1>2 DEF ToSet
<1>7. ToSet(r) = { q[k] : k \in (n + 1)..m }
  <2>1. ToSet(r) = { r[k] : k \in 1..(m - n) }
    BY <1>3 DEF ToSet
  <2>2. \A k \in (n + 1)..m : k - n \in 1..(m - n) /\ n + (k - n) = k
    BY <1>1
  <2>3. \A k \in 1..(m - n) : n + k \in (n + 1)..m
    BY <1>1
  <2>4. \A k \in (n + 1)..m : r[k - n] = q[k]
    BY <1>3, <2>2
  <2>5. \A k \in 1..(m - n) : r[k] = q[n + k]
    BY <1>3
  <2>6. \A k \in (n + 1)..m : q[k] \in ToSet(r)
    <3> TAKE k \in (n + 1)..m
    <3>1. k - n \in 1..(m - n) /\ r[k - n] = q[k]
      BY <2>2, <2>4
    <3> QED BY <2>1, <3>1
  <2>7. \A k \in 1..(m - n) : r[k] \in { q[j] : j \in (n + 1)..m }
    BY <2>3, <2>5
  <2> QED BY <2>1, <2>6, <2>7
<1>8. ToSet(b) \cap ToSet(r) = {}
  <2>1. ASSUME NEW j \in 1..n, NEW k \in (n + 1)..m, q[j] = q[k] PROVE FALSE
    <3>1. j \in 1..m /\ k \in 1..m /\ j # k
      BY <1>1
    <3>2. j \in DOMAIN q /\ k \in DOMAIN q
      BY <1>1, <3>1
    <3> QED BY <2>1, <3>1, <3>2 DEF Injective
  <2> QED BY <1>6, <1>7, <2>1
<1>9. ToSet(b) \cup ToSet(r) = ToSet(q)
  BY <1>1, <1>6, <1>7
<1> QED BY <1>4, <1>5, <1>8, <1>9 DEF Splits

LEMMA CursorIs ==
    ASSUME NEW q \in Seq(Items), NEW c \in DOMAIN q, Injective(q)
    PROVE  /\ { q[k] : k \in c..Len(q) } = { q[k] : k \in (c + 1)..Len(q) } \cup {q[c]}
           /\ q[c] \notin { q[k] : k \in (c + 1)..Len(q) }
           /\ { q[k] : k \in c..Len(q) } \subseteq ToSet(q)
           /\ c = Len(q) => { q[k] : k \in (c + 1)..Len(q) } = {}
<1> PICK m : m = Len(q)
  OBVIOUS
<1>1. m \in Nat /\ c \in 1..m /\ DOMAIN q = 1..m
  BY LenProperties
<1>2. { q[k] : k \in c..m } = { q[k] : k \in (c + 1)..m } \cup {q[c]}
  <2>1. \A k \in c..m : k = c \/ k \in (c + 1)..m
    BY <1>1
  <2>2. c \in c..m /\ \A k \in (c + 1)..m : k \in c..m
    BY <1>1
  <2> QED BY <2>1, <2>2
<1>3. q[c] \notin { q[k] : k \in (c + 1)..m }
  <2>1. ASSUME NEW k \in (c + 1)..m, q[c] = q[k] PROVE FALSE
    <3>1. k \in DOMAIN q /\ k # c
      BY <1>1
    <3> QED BY <2>1, <3>1 DEF Injective
  <2> QED BY <2>1
<1>4. { q[k] : k \in c..m } \subseteq ToSet(q)
  <2>1. \A k \in c..m : k \in DOMAIN q
    BY <1>1
  <2> QED BY <2>1 DEF ToSet
<1>5. c = m => (c + 1)..m = {}
  BY <1>1
<1> QED BY <1>2, <1>3, <1>4, <1>5

-----------------------------------------------------------------------------
\* The four queues share no item and hold none twice, and only items whose
\* tracing is over: an Enqueue adds its item to one queue, the other steps move
\* items between queues or forget them.
Places ==
    /\ Injective(queue) /\ Injective(bulk) /\ Injective(serial) /\ Injective(swapped)
    /\ ToSet(queue) \cap ToSet(bulk) = {} /\ ToSet(queue) \cap ToSet(serial) = {}
    /\ ToSet(queue) \cap ToSet(swapped) = {} /\ ToSet(bulk) \cap ToSet(serial) = {}
    /\ ToSet(bulk) \cap ToSet(swapped) = {} /\ ToSet(serial) \cap ToSet(swapped) = {}
    /\ ToSet(queue) \subseteq Started /\ ToSet(bulk) \subseteq Started
    /\ ToSet(serial) \subseteq Started /\ ToSet(swapped) \subseteq Started
    /\ pc # "feed" => bulk = <<>>
    /\ tracing # 0 => traced[tracing] # -1
    /\ kept \subseteq Started /\ due \subseteq Started /\ dropped \subseteq Started

\* The actions that move no item.
Still ==
    /\ UNCHANGED <<queue, bulk, serial, swapped, cursor, freed, kept, dropped>>
    /\ pc' = "feedSerial" <=> pc = "feedSerial"
    /\ pc' = "feed" <=> pc = "feed"
    /\ pc' = "idle" => pc = "idle"
    /\ ~ Enqueue

LEMMA QueueCases ==
    ASSUME [Next]_vars
    PROVE  \/ Still \/ (AcceptNone /\ pc = "refuse") \/ AcceptToRefuse \/ ClearQueues \/ DequeueBulk
           \/ SerialNone \/ SerialSwap \/ Enqueue
           \/ \E fail \in BOOLEAN : Feed(fail) \/ FeedSerial(fail)
<1>1. CASE Quiet
  BY <1>1 DEF Quiet, Still, ServerSends, vars, queues, steady, history, program, tracer,
     ExitBeforeAccept,
     AcceptNone, Greet, DequeueNone, IdleExit, ExitRefusing, Trace, RequestShutdown, BeginExit,
        Destroy,
     Enqueue, Return
<1>2. CASE Rewired
  BY <1>2 DEF Rewired, Still, Accept, Reject, Lost, Refuse, ServerCloses, queues, steady, history,
     program, tracer, Enqueue
<1>3. ASSUME NEW fail \in BOOLEAN, Routine(fail) \/ Terminate(fail) PROVE Still
  BY <1>3 DEF Routine, Still, Connect, IdleFlush, Queries, FarewellWait, FarewellQueries, Answer,
     NoAnswer,
     FarewellCommit, Idle, Terminate, queues, steady, history, program, tracer, Enqueue, Return
<1> QED BY <1>1, <1>2, <1>3, NextCases

LEMMA NextTracer == ASSUME [Next]_vars, ~ Trace, ~ Enqueue PROVE tracing' = tracing /\ traced' = traced
<1>1. CASE Quiet
  BY <1>1 DEF Quiet, ServerSends, vars, queues, steady, history, program, tracer, ExitBeforeAccept,
     AcceptNone, Greet, ClearQueues, DequeueNone, DequeueBulk, SerialNone, SerialSwap, IdleExit,
     ExitRefusing, RequestShutdown, BeginExit, Destroy
<1>2. CASE Rewired
  BY <1>2 DEF Rewired, Accept, AcceptToRefuse, Reject, Lost, Refuse, ServerCloses, steady, program,
     tracer
<1>3. ASSUME NEW fail \in BOOLEAN, Routine(fail) \/ Terminate(fail) \/ Feed(fail) \/ FeedSerial(fail)
      PROVE  tracing' = tracing /\ traced' = traced
  BY <1>3 DEF Routine, Connect, IdleFlush, Queries, FarewellWait, FarewellQueries,
     FarewellCommit, Idle, Terminate, Feed, FeedSerial, steady, program, tracer
<1> QED BY <1>1, <1>2, <1>3, NextCases

LEMMA NextDue == ASSUME [Next]_vars PROVE due' \in {due, Started}
<1>1. CASE Quiet
  BY <1>1 DEF Quiet, ServerSends, vars, queues, steady, history, program, tracer, ExitBeforeAccept,
     AcceptNone, Greet, ClearQueues, DequeueNone, DequeueBulk, SerialNone, SerialSwap, IdleExit,
     ExitRefusing, RequestShutdown, BeginExit, Destroy, Trace, Enqueue, NoteDue, Started
<1>2. CASE Rewired
  BY <1>2 DEF Rewired, Accept, AcceptToRefuse, Reject, Lost, Refuse, ServerCloses, steady, history
<1>3. ASSUME NEW fail \in BOOLEAN, Routine(fail) \/ Terminate(fail) \/ Feed(fail) \/ FeedSerial(fail)
      PROVE  due' = due
  BY <1>3 DEF Routine, Connect, IdleFlush, Queries, FarewellWait, FarewellQueries,
     FarewellCommit, Idle, Terminate, Feed, FeedSerial, steady, history
<1> QED BY <1>1, <1>2, <1>3, NextCases

LEMMA StartedNext ==
    ASSUME OtherTypes, Places, WorkerAssumption, [Next]_vars
    PROVE  /\ tracing' # 0 => traced'[tracing'] # -1
           /\ due' \in {due, Started}
           /\ IF Enqueue THEN Started' = Started \cup {tracing} /\ tracing \in Items \ Started
                         ELSE Started' = Started
<1>1. CASE Trace
  <2>1. tracing = 0 /\ tracing' \in Untraced /\ due' = due
    BY <1>1, FirstUntraced DEF Trace, history
  <2>2. traced' = [traced EXCEPT ![tracing'] = IF onDemand THEN session ELSE 0]
    BY <1>1 DEF Trace
  <2>3. traced \in [Items -> -1..MaxSessions] /\ session \in Nat
    BY DEF OtherTypes, WorkerAssumption
  <2>4. /\ tracing' \in Items /\ traced[tracing'] = -1 /\ traced'[tracing'] # -1
        /\ \A i \in Items : i # tracing' => traced'[i] = traced[i]
    BY <2>1, <2>2, <2>3 DEF Untraced
  <2>5. \A i \in Items : i # 0
    BY DEF Items
  <2>6. Started' = Started
    BY <2>1, <2>4, <2>5 DEF Started
  <2>7. ~ Enqueue
    BY <2>1 DEF Enqueue
  <2> QED BY <2>1, <2>4, <2>6, <2>7
<1>2. CASE Enqueue
  <2>1. tracing \in Items /\ tracing' = 0 /\ traced' = traced /\ due' = due /\ traced[tracing] # -1
    BY <1>2 DEF Enqueue, OtherTypes, Places, history, Items
  <2>2. \A i \in Items : i # 0
    BY DEF Items
  <2> QED BY <1>2, <2>1, <2>2 DEF Started
<1>3. CASE ~ Trace /\ ~ Enqueue
  <2>1. tracing' = tracing /\ traced' = traced
    BY <1>3, NextTracer
  <2>2. due' \in {due, Started}
    BY <1>3, NextDue
  <2> QED BY <1>3, <2>1, <2>2 DEF Started, Places
<1> QED BY <1>1, <1>2, <1>3

LEMMA BulkIs ==
    ASSUME QueueTypes, Places, WorkerAssumption, DequeueBulk
    PROVE  /\ Injective(bulk') /\ Injective(queue') /\ bulk = <<>>
           /\ ToSet(bulk') \cap ToSet(queue') = {} /\ ToSet(bulk') \cup ToSet(queue') = ToSet(queue)
<1> DEFINE size == IF Len(queue) < BulkSize THEN Len(queue) ELSE BulkSize
<1>1. Len(queue) \in Nat /\ BulkSize \in Nat /\ queue \in Seq(Items) /\ Injective(queue)
  BY LenProperties DEF WorkerAssumption, QueueTypes, Places
<1>2. PICK n : n \in Nat /\ n <= Len(queue) /\ n = size
  <2>1. size \in Nat /\ size <= Len(queue)
    BY <1>1
  <2> QED BY <2>1
<1>3. bulk' = SubSeq(queue, 1, n) /\ queue' = SubSeq(queue, n + 1, Len(queue)) /\ bulk = <<>>
  BY <1>2 DEF DequeueBulk, Places
<1> HIDE DEF size
<1>4. PICK b, r : b = SubSeq(queue, 1, n) /\ r = SubSeq(queue, n + 1, Len(queue))
  OBVIOUS
<1>5. Splits(queue, b, r)
  BY <1>1, <1>2, <1>4, SplitIs
<1> QED BY <1>3, <1>4, <1>5 DEF Splits

\* Places holds after every step.
LEMMA PlacesNext == WorkerAssumption /\ Types /\ Places /\ [Next]_vars => Places'
<1> SUFFICES ASSUME WorkerAssumption, Types, Places, [Next]_vars PROVE Places'
  OBVIOUS
<1>0. QueueTypes /\ OtherTypes /\ AtItem
  BY TypeParts DEF Types
<1>1. /\ tracing' # 0 => traced'[tracing'] # -1
      /\ due' \in {due, Started}
      /\ IF Enqueue THEN Started' = Started \cup {tracing} /\ tracing \in Items \ Started
                    ELSE Started' = Started
  BY <1>0, StartedNext
<1>2. Started \subseteq Started' /\ due' \subseteq Started'
  BY <1>1 DEF Places
<1>3. CASE Still
  BY <1>1, <1>2, <1>3 DEF Still, Places
<1>4. CASE (AcceptNone /\ pc = "refuse") \/ AcceptToRefuse
  <2>1. /\ queue' = <<>> /\ serial' = swapped /\ swapped' = <<>> /\ bulk' = bulk /\ kept' = kept
        /\ dropped' = dropped \cup ToSet(queue) \cup ToSet(serial) /\ pc # "feed" /\ ~ Enqueue
    BY <1>4 DEF AcceptNone, AcceptToRefuse, Discard, Enqueue, queues
  <2> QED BY <1>1, <1>2, <2>1, EmptyIs DEF Places
<1>5. CASE ClearQueues
  <2>1. /\ queue' = <<>> /\ serial' = <<>> /\ swapped' = <<>> /\ bulk' = bulk /\ kept' = kept
        /\ dropped' = dropped \cup (ToSet(queue) \cup ToSet(serial) \cup ToSet(swapped))
        /\ pc # "feed" /\ ~ Enqueue
    BY <1>5 DEF ClearQueues, Enqueue, queues, program, tracer
  <2> QED BY <1>1, <1>2, <2>1, EmptyIs DEF Places
<1>6. CASE DequeueBulk
  <2>1. /\ serial' = serial /\ swapped' = swapped /\ kept' = kept /\ dropped' = dropped
        /\ pc' = "feed" /\ ~ Enqueue
    BY <1>6 DEF DequeueBulk, Enqueue, queues, steady, program, history, tracer
  <2>2. /\ Injective(bulk') /\ Injective(queue') /\ bulk = <<>>
        /\ ToSet(bulk') \cap ToSet(queue') = {} /\ ToSet(bulk') \cup ToSet(queue') = ToSet(queue)
    BY <1>0, <1>6, BulkIs
  <2> QED BY <1>1, <1>2, <2>1, <2>2 DEF Places
<1>7. CASE SerialNone \/ SerialSwap
  <2>1. /\ UNCHANGED <<queue, bulk, kept, dropped>> /\ pc = "serial" /\ pc' # "feed" /\ ~ Enqueue
        /\ serial' = swapped /\ swapped' \in {serial, <<>>}
    BY <1>7 DEF SerialNone, SerialSwap, Enqueue, queues, steady, program, history, tracer, NextPc
  <2> QED BY <1>1, <1>2, <2>1, EmptyIs DEF Places
<1>8. CASE Enqueue
  <2>1. /\ UNCHANGED <<bulk, swapped, kept, dropped, pc>>
        /\ \/ queue' = Append(queue, tracing) /\ UNCHANGED serial
           \/ serial' = Append(serial, tracing) /\ UNCHANGED queue
    BY <1>8 DEF Enqueue, history
  <2>2. tracing \in Items \ Started /\ queue \in Seq(Items) /\ serial \in Seq(Items)
    BY <1>0, <1>1, <1>8 DEF QueueTypes
  <2>3. tracing \notin ToSet(queue) /\ tracing \notin ToSet(serial)
    BY <2>2 DEF Places
  <2>4. /\ ToSet(Append(queue, tracing)) = ToSet(queue) \cup {tracing}
        /\ Injective(queue) => Injective(Append(queue, tracing))
        /\ ToSet(Append(serial, tracing)) = ToSet(serial) \cup {tracing}
        /\ Injective(serial) => Injective(Append(serial, tracing))
    BY <2>2, <2>3, AppendIs
  <2> QED BY <1>1, <1>2, <1>8, <2>1, <2>2, <2>4 DEF Places
<1>9. ASSUME NEW fail \in BOOLEAN, Feed(fail) PROVE Places'
  <2>1. /\ UNCHANGED <<queue, serial, swapped, kept>> /\ ~ Enqueue
        /\ bulk' \in {Tail(bulk), <<>>} /\ dropped' \in {dropped, dropped \cup ToSet(bulk)}
        /\ pc' # "feed" => bulk' = <<>>
    BY <1>9 DEF Feed, Enqueue, program, tracer
  <2>2. Injective(Tail(bulk)) /\ ToSet(Tail(bulk)) \subseteq ToSet(bulk)
    BY <1>0, <1>9, TailIs DEF QueueTypes, AtItem, Feed, Places
  <2> QED BY <1>1, <1>2, <2>1, <2>2, EmptyIs DEF Places
<1>10. ASSUME NEW fail \in BOOLEAN, FeedSerial(fail) PROVE Places'
  <2>1. /\ UNCHANGED <<queue, serial, bulk, dropped>> /\ ~ Enqueue
        /\ swapped' \in {swapped, <<>>} /\ kept' \in {kept, kept \cup ToSet(swapped)}
        /\ pc = "feedSerial" /\ pc' # "feed"
    BY <1>10 DEF FeedSerial, Enqueue, program, tracer, NextPc
  <2> QED BY <1>1, <1>2, <2>1, EmptyIs DEF Places
<1> QED BY <1>3, <1>4, <1>5, <1>6, <1>7, <1>8, <1>9, <1>10, QueueCases

LEMMA PlacesInit == Init => Places
BY EmptyIs DEF Init, Places, Started

\* An item is in one of the queues at most, and once, in every behaviour.
THEOREM PlacesHold == Spec => []Places
<1>1. Init => Places
  BY PlacesInit
<1>2. Types /\ Places /\ [Next]_vars => Places'
  BY PlacesNext, WorkerAssumption
<1> QED BY <1>1, <1>2, TypesCorrect, PTL DEF Spec

-----------------------------------------------------------------------------
\* What each step does to what is still to be sent.
LEMMA StillWaits == ASSUME Still PROVE Waiting' = Waiting
BY DEF Still, Waiting, Left

LEMMA DiscardWaits ==
    ASSUME Places, (AcceptNone /\ pc = "refuse") \/ AcceptToRefuse
    PROVE  Waiting' = ToSet(swapped) /\ Waiting = ToSet(queue) \cup ToSet(serial)
<1>1. /\ queue' = <<>> /\ serial' = swapped /\ bulk' = bulk /\ bulk = <<>>
      /\ pc # "feedSerial" /\ pc' # "feedSerial"
  BY DEF AcceptNone, AcceptToRefuse, Discard, Places
<1> QED BY <1>1, EmptyIs DEF Waiting, Left

LEMMA ClearWaits ==
    ASSUME Places, ClearQueues
    PROVE  Waiting' = {} /\ Waiting = ToSet(queue) \cup ToSet(serial)
<1>1. /\ queue' = <<>> /\ serial' = <<>> /\ bulk' = bulk /\ bulk = <<>>
      /\ pc # "feedSerial" /\ pc' # "feedSerial"
  BY DEF ClearQueues, Places
<1> QED BY <1>1, EmptyIs DEF Waiting, Left

LEMMA BulkWaits ==
    ASSUME QueueTypes, Places, WorkerAssumption, DequeueBulk
    PROVE  Waiting' = Waiting
<1>1. serial' = serial /\ pc # "feedSerial" /\ pc' # "feedSerial"
  BY DEF DequeueBulk
<1> QED BY <1>1, BulkIs, EmptyIs DEF Waiting, Left

LEMMA SerialWaits ==
    ASSUME QueueTypes, SerialNone \/ SerialSwap
    PROVE  Waiting' = Waiting \cup ToSet(swapped)
<1>1. CASE SerialNone
  <2>1. /\ queue' = queue /\ bulk' = bulk /\ serial = <<>> /\ serial' = swapped
        /\ pc # "feedSerial" /\ pc' # "feedSerial"
    BY <1>1 DEF SerialNone, NextPc
  <2> QED BY <2>1, EmptyIs DEF Waiting, Left
<1>2. CASE SerialSwap
  <2>1. /\ queue' = queue /\ bulk' = bulk /\ swapped' = serial /\ serial' = swapped /\ cursor' = 1
        /\ pc # "feedSerial" /\ pc' = "feedSerial"
    BY <1>2 DEF SerialSwap
  <2>2. ToSet(serial) = { serial[k] : k \in 1..Len(serial) }
    BY SetOf DEF QueueTypes
  <2> QED BY <2>1, <2>2 DEF Waiting, Left
<1> QED BY <1>1, <1>2

LEMMA EnqueueWaits ==
    ASSUME QueueTypes, OtherTypes, Enqueue
    PROVE  Waiting' = Waiting \cup {tracing}
<1>1. /\ tracing \in Items /\ queue \in Seq(Items) /\ serial \in Seq(Items)
      /\ UNCHANGED <<bulk, swapped, cursor, pc>>
      /\ \/ queue' = Append(queue, tracing) /\ UNCHANGED serial
         \/ serial' = Append(serial, tracing) /\ UNCHANGED queue
  BY DEF Enqueue, QueueTypes, OtherTypes, Items
<1>2. /\ ToSet(Append(queue, tracing)) = ToSet(queue) \cup {tracing}
      /\ ToSet(Append(serial, tracing)) = ToSet(serial) \cup {tracing}
  BY <1>1, AppendIs
<1> QED BY <1>1, <1>2 DEF Waiting, Left

LEMMA FeedWaits ==
    ASSUME QueueTypes, AtItem, Places, NEW fail \in BOOLEAN, Feed(fail)
    PROVE  /\ Head(bulk) \in Waiting /\ Head(bulk) \notin Waiting'
           /\ io'.ok => Waiting' = Waiting \ {Head(bulk)} /\ dropped' = dropped
           /\ ~ io'.ok => Waiting' = Waiting \ ToSet(bulk) /\ dropped' = dropped \cup ToSet(bulk)
<1>1. /\ queue' = queue /\ serial' = serial /\ pc # "feedSerial" /\ pc' # "feedSerial"
      /\ bulk \in Seq(Items) /\ bulk # <<>> /\ Injective(bulk)
      /\ bulk' = IF io'.ok THEN Tail(bulk) ELSE <<>>
      /\ dropped' = IF io'.ok THEN dropped ELSE dropped \cup ToSet(bulk)
  BY DEF Feed, QueueTypes, AtItem, Places
<1>2. Head(bulk) \in ToSet(bulk) /\ ToSet(Tail(bulk)) = ToSet(bulk) \ {Head(bulk)} /\ ToSet(<<>>) = {}
  BY <1>1, TailIs, EmptyIs
<1>3. /\ Waiting = ToSet(queue) \cup ToSet(bulk) \cup ToSet(serial)
      /\ Waiting' = ToSet(queue) \cup ToSet(bulk') \cup ToSet(serial)
  BY <1>1 DEF Waiting, Left
<1>4. ToSet(queue) \cap ToSet(bulk) = {} /\ ToSet(bulk) \cap ToSet(serial) = {}
  BY DEF Places
<1> QED BY <1>1, <1>2, <1>3, <1>4

LEMMA FeedSerialWaits ==
    ASSUME QueueTypes, AtItem, Places, NEW fail \in BOOLEAN, FeedSerial(fail)
    PROVE  /\ swapped[cursor] \in Waiting /\ swapped[cursor] \notin Waiting'
           /\ io'.ok => Waiting' = Waiting \ {swapped[cursor]} /\ kept' = kept
           /\ ~ io'.ok => Waiting' = Waiting \ Left /\ Left \subseteq ToSet(swapped)
           /\ pc' # "feedSerial" => swapped' = <<>> \/ (kept' = kept \cup ToSet(swapped) /\ swapped' = swapped)
           /\ kept \subseteq kept'
<1> DEFINE rest == { swapped[k] : k \in (cursor + 1)..Len(swapped) }
<1>1. /\ swapped \in Seq(Items) /\ cursor \in DOMAIN swapped /\ Injective(swapped)
      /\ pc = "feedSerial" /\ UNCHANGED <<queue, bulk, serial>>
      /\ Len(swapped) \in Nat /\ cursor \in 1..Len(swapped)
  BY LenProperties DEF FeedSerial, QueueTypes, AtItem, Places
<1>2. /\ Left = rest \cup {swapped[cursor]} /\ swapped[cursor] \notin rest /\ Left \subseteq ToSet(swapped)
      /\ cursor = Len(swapped) => rest = {}
  BY <1>1, CursorIs DEF Left
<1>3. io'.ok => Left' = rest /\ kept' = kept /\ (pc' # "feedSerial" => swapped' = <<>>)
  <2>1. CASE io'.ok /\ cursor < Len(swapped)
    <3>1. pc' = pc /\ swapped' = swapped /\ cursor' = cursor + 1 /\ kept' = kept
      BY <2>1 DEF FeedSerial
    <3> QED BY <1>1, <3>1 DEF Left
  <2>2. CASE io'.ok /\ ~ (cursor < Len(swapped))
    <3>1. pc' # "feedSerial" /\ kept' = kept /\ swapped' = <<>>
      BY <2>2 DEF FeedSerial, NextPc
    <3>2. cursor = Len(swapped)
      BY <1>1, <2>2
    <3> QED BY <1>2, <3>1, <3>2 DEF Left
  <2> QED BY <2>1, <2>2
<1>4. ~ io'.ok => pc' # "feedSerial" /\ Left' = {} /\ swapped' = swapped /\ kept' = kept \cup ToSet(swapped)
  BY DEF FeedSerial, NextPc, Left
<1>5. /\ Waiting = ToSet(queue) \cup ToSet(bulk) \cup ToSet(serial) \cup Left
      /\ Waiting' = ToSet(queue) \cup ToSet(bulk) \cup ToSet(serial) \cup Left'
  BY <1>1 DEF Waiting
<1>6. Left \cap (ToSet(queue) \cup ToSet(bulk) \cup ToSet(serial)) = {}
  BY <1>2 DEF Places
<1> HIDE DEF rest
<1>7. CASE io'.ok
  <2>1. Left' = rest /\ kept' = kept /\ (pc' # "feedSerial" => swapped' = <<>>)
    BY <1>3, <1>7
  <2>2. Waiting' = Waiting \ {swapped[cursor]} /\ swapped[cursor] \in Waiting
    BY <1>2, <1>5, <1>6, <2>1
  <2> QED BY <1>7, <2>1, <2>2
<1>8. CASE ~ io'.ok
  <2>1. Left' = {} /\ kept' = kept \cup ToSet(swapped) /\ swapped' = swapped
    BY <1>4, <1>8
  <2>2. Waiting' = Waiting \ Left
    BY <1>5, <1>6, <2>1
  <2>3. swapped[cursor] \in Waiting /\ swapped[cursor] \notin Waiting'
    BY <1>2, <1>5, <2>2
  <2>4. Left \subseteq ToSet(swapped) /\ kept \subseteq kept'
    BY <1>2, <2>1
  <2> QED BY <1>8, <2>1, <2>2, <2>3, <2>4
<1> QED BY <1>7, <1>8

-----------------------------------------------------------------------------
LEMMA WaitingStarted == ASSUME QueueTypes, AtItem, Places PROVE Waiting \cup kept \subseteq Started
<1>1. Left \subseteq ToSet(swapped)
  BY CursorIs, LenProperties DEF Left, QueueTypes, AtItem, Places
<1> QED BY <1>1 DEF Waiting, Places

\* A payload is freed when its item stops waiting, and again only with an item
\* that a lost connection left in m_serialDequeue; no item waits that was freed.
Freed ==
    /\ \A i \in Items : freed[i] <= 1 \/ i \in kept
    /\ \A i \in Items \ kept : i \in Waiting \/ i \notin Started => freed[i] = 0
    /\ pc # "feedSerial" => ToSet(swapped) \subseteq kept

\* Freeing the payloads of items that stop waiting keeps the counts.
LEMMA FreedSome ==
    ASSUME freed \in [Items -> Nat], Freed, NEW set, Free(set), kept \subseteq kept',
           (set \cap Waiting') \subseteq kept', set \subseteq Waiting \cup kept,
           Waiting' \subseteq Waiting, Started' = Started, Waiting \cup kept \subseteq Started
    PROVE  /\ \A i \in Items : freed'[i] <= 1 \/ i \in kept'
           /\ \A i \in Items \ kept' : i \in Waiting' \/ i \notin Started' => freed'[i] = 0
<1>1. \A i \in Items : /\ freed[i] \in Nat /\ i \in set => freed'[i] = freed[i] + 1
                       /\ i \notin set => freed'[i] = freed[i]
  BY DEF Free
<1>2. ASSUME NEW i \in Items, i \notin kept' PROVE freed'[i] <= 1
  <2>1. CASE i \in set
    <3>1. i \in Waiting /\ i \notin kept
      BY <1>2, <2>1
    <3>2. freed[i] = 0
      BY <3>1 DEF Freed
    <3> QED BY <1>1, <2>1, <3>2
  <2>2. CASE i \notin set
    <3>1. freed[i] <= 1
      BY <1>2 DEF Freed
    <3> QED BY <1>1, <2>2, <3>1
  <2> QED BY <2>1, <2>2
<1>3. ASSUME NEW i \in Items, i \notin kept', i \in Waiting' \/ i \notin Started' PROVE freed'[i] = 0
  <2>1. i \notin set /\ i \notin kept /\ (i \in Waiting \/ i \notin Started)
    BY <1>3
  <2>2. freed[i] = 0
    BY <2>1 DEF Freed
  <2> QED BY <1>1, <2>1, <2>2
<1> QED BY <1>2, <1>3

\* Freed holds after every step.
LEMMA FreedNext == WorkerAssumption /\ Types /\ Places /\ Freed /\ [Next]_vars => Freed'
<1> SUFFICES ASSUME WorkerAssumption, Types, Places, Freed, [Next]_vars PROVE Freed'
  OBVIOUS
<1>0. QueueTypes /\ OtherTypes /\ AtItem /\ freed \in [Items -> Nat]
  BY TypeParts DEF Types, QueueTypes
<1>1. IF Enqueue THEN Started' = Started \cup {tracing} /\ tracing \in Items \ Started
                 ELSE Started' = Started
  BY <1>0, StartedNext
<1>2. Waiting \cup kept \subseteq Started
  BY <1>0, WaitingStarted
<1>3. CASE Still
  BY <1>1, <1>3, StillWaits DEF Still, Freed
<1>4. CASE (AcceptNone /\ pc = "refuse") \/ AcceptToRefuse
  <2>1. freed' = freed /\ kept' = kept /\ swapped' = <<>> /\ pc # "feedSerial" /\ ~ Enqueue
    BY <1>4 DEF AcceptNone, AcceptToRefuse, Discard, Enqueue, queues
  <2>2. Waiting' \subseteq kept
    BY <1>4, <2>1, DiscardWaits DEF Freed
  <2> QED BY <1>1, <2>1, <2>2, EmptyIs DEF Freed
<1>5. CASE ClearQueues
  <2>1. /\ Free(ToSet(queue) \cup ToSet(serial) \cup ToSet(swapped))
        /\ kept' = kept /\ swapped' = <<>> /\ pc # "feedSerial" /\ ~ Enqueue
    BY <1>5 DEF ClearQueues, Enqueue, program, tracer
  <2>2. Waiting' = {} /\ Waiting = ToSet(queue) \cup ToSet(serial) /\ ToSet(swapped) \subseteq kept
    BY <1>5, <2>1, ClearWaits DEF Freed
  <2>3. /\ \A i \in Items : freed'[i] <= 1 \/ i \in kept'
        /\ \A i \in Items \ kept' : i \in Waiting' \/ i \notin Started' => freed'[i] = 0
    BY <1>0, <1>1, <1>2, <2>1, <2>2, FreedSome
  <2> QED BY <2>1, <2>3, EmptyIs DEF Freed
<1>6. CASE DequeueBulk
  <2>1. freed' = freed /\ kept' = kept /\ swapped' = swapped /\ pc # "feedSerial" /\ ~ Enqueue
    BY <1>6 DEF DequeueBulk, Enqueue, steady, program, history, tracer
  <2>2. Waiting' = Waiting
    BY <1>0, <1>6, BulkWaits
  <2> QED BY <1>1, <2>1, <2>2 DEF Freed
<1>7. CASE SerialNone \/ SerialSwap
  <2>1. /\ freed' = freed /\ kept' = kept /\ ~ Enqueue /\ pc = "serial"
        /\ pc' # "feedSerial" => swapped' = <<>>
    BY <1>7 DEF SerialNone, SerialSwap, Enqueue, steady, program, history, tracer
  <2>2. Waiting' = Waiting \cup ToSet(swapped) /\ ToSet(swapped) \subseteq kept
    BY <1>0, <1>7, <2>1, SerialWaits DEF Freed
  <2> QED BY <1>1, <2>1, <2>2, EmptyIs DEF Freed
<1>8. CASE Enqueue
  <2>1. freed' = freed /\ kept' = kept /\ swapped' = swapped /\ pc' = pc
    BY <1>8 DEF Enqueue, history
  <2>2. Waiting' = Waiting \cup {tracing}
    BY <1>0, <1>8, EnqueueWaits
  <2> QED BY <1>1, <1>8, <2>1, <2>2 DEF Freed
<1>9. ASSUME NEW fail \in BOOLEAN, Feed(fail) PROVE Freed'
  <2>1. /\ Free({Head(bulk)}) /\ kept' = kept /\ swapped' = swapped /\ ~ Enqueue
        /\ pc # "feedSerial" /\ pc' # "feedSerial"
    BY <1>9 DEF Feed, Enqueue, program, tracer
  <2>2. Head(bulk) \in Waiting /\ Head(bulk) \notin Waiting' /\ Waiting' \subseteq Waiting
    BY <1>0, <1>9, FeedWaits
  <2>3. /\ \A i \in Items : freed'[i] <= 1 \/ i \in kept'
        /\ \A i \in Items \ kept' : i \in Waiting' \/ i \notin Started' => freed'[i] = 0
    BY <1>0, <1>1, <1>2, <2>1, <2>2, FreedSome
  <2> QED BY <2>1, <2>3 DEF Freed
<1>10. ASSUME NEW fail \in BOOLEAN, FeedSerial(fail) PROVE Freed'
  <2>1. Free({swapped[cursor]}) /\ ~ Enqueue
    BY <1>10 DEF FeedSerial, Enqueue, program, tracer
  <2>2. /\ swapped[cursor] \in Waiting /\ swapped[cursor] \notin Waiting' /\ Waiting' \subseteq Waiting
        /\ kept \subseteq kept'
        /\ pc' # "feedSerial" => ToSet(swapped') \subseteq kept'
    BY <1>0, <1>10, FeedSerialWaits, EmptyIs
  <2>3. /\ \A i \in Items : freed'[i] <= 1 \/ i \in kept'
        /\ \A i \in Items \ kept' : i \in Waiting' \/ i \notin Started' => freed'[i] = 0
    BY <1>0, <1>1, <1>2, <2>1, <2>2, FreedSome
  <2> QED BY <2>2, <2>3 DEF Freed
<1> QED BY <1>3, <1>4, <1>5, <1>6, <1>7, <1>8, <1>9, <1>10, QueueCases

LEMMA FreedInit == Init => Freed
BY EmptyIs DEF Init, Freed

\* FreedOnceUnlessKept, for any bounds: a payload is freed twice only when its
\* item was in m_serialDequeue as the connection was lost (TracyProfiler.cpp:1349,
\* freed again by ClearQueues, 1221-1245).
THEOREM FreedOnce == Spec => []FreedOnceUnlessKept
<1>1. Init => Freed
  BY FreedInit
<1>2. Types /\ Places /\ Freed /\ [Next]_vars => Freed'
  BY FreedNext, WorkerAssumption
<1>3. Freed => FreedOnceUnlessKept
  BY DEF Freed, FreedOnceUnlessKept
<1> QED BY <1>1, <1>2, <1>3, TypesCorrect, PlacesHold, PTL DEF Spec

\* The items of this session, on demand; all of them otherwise.
Own == { i \in Items : onDemand => traced[i] = session }

\* Somebody may yet be sent what is in the buffer.
Attached == ~ Refusing /\ pc # "returned" /\ (mode = "serve" \/ io.peer # "reset")

Opened == Accept \/ AcceptToRefuse
Shut == Reject \/ Refuse \/ (Lost /\ ~ shutdown)

-----------------------------------------------------------------------------
\* The session each item was traced in.
Sessions ==
    /\ \A i \in Items : traced[i] <= session /\ (~ onDemand => traced[i] \in {-1, 0})
    /\ onDemand /\ pc \in {"handshake", "clear", "connect"} => \A i \in Items : traced[i] < session

LEMMA SessionSteps ==
    ASSUME [Next]_vars
    PROVE  /\ onDemand' = onDemand
           /\ ~ Opened => session' = session
           /\ Opened => session' = session + 1 /\ traced' = traced
           /\ pc' \in {"handshake", "clear", "connect"} =>
                Accept \/ pc \in {"handshake", "clear", "connect"}
<1>1. CASE Quiet
  BY <1>1 DEF Quiet, Opened, Accept, AcceptToRefuse, ServerSends, vars, queues, steady, history,
     program,
     tracer, config, ExitBeforeAccept,
     AcceptNone, Greet, ClearQueues, DequeueNone, DequeueBulk, SerialNone, SerialSwap, IdleExit,
     ExitRefusing, RequestShutdown, BeginExit, Destroy, Trace, Enqueue, Return, NextPc
<1>2. CASE Rewired
  BY <1>2 DEF Rewired, Opened, Accept, AcceptToRefuse, Reject, Lost, Refuse, ServerCloses, steady,
     program,
     tracer, config
<1>3. ASSUME NEW fail \in BOOLEAN, Routine(fail) \/ Terminate(fail) \/ Feed(fail) \/ FeedSerial(fail)
      PROVE  /\ onDemand' = onDemand /\ session' = session /\ ~ Opened
             /\ pc' \in {"handshake", "clear", "connect"} => pc \in {"handshake", "clear", "connect"}
  BY <1>3 DEF Routine, Connect, IdleFlush, Queries, FarewellWait, FarewellQueries, Answer, NoAnswer,
     FarewellCommit, Idle, Terminate, Feed, FeedSerial, steady, program, config, Opened, Accept,
     AcceptToRefuse, Return, NextPc
<1> QED BY <1>1, <1>2, <1>3, NextCases

LEMMA TracedNext ==
    ASSUME WorkerAssumption, OtherTypes, Control, [Next]_vars
    PROVE  \A i \in Items :
             \/ traced'[i] = traced[i]
             \/ /\ Trace /\ traced[i] = -1 /\ i = tracing'
                /\ traced'[i] = IF onDemand THEN session ELSE 0
                /\ onDemand => isConnected
<1>1. CASE Trace
  <2>1. traced' = [traced EXCEPT ![tracing'] = IF onDemand THEN session ELSE 0] /\ (onDemand => isConnected)
    BY <1>1 DEF Trace
  <2>2. tracing' \in Untraced
    BY <1>1, FirstUntraced
  <2>3. traced \in [Items -> -1..MaxSessions]
    BY DEF OtherTypes
  <2> QED BY <1>1, <2>1, <2>2, <2>3 DEF Untraced
<1>2. CASE ~ Trace
  <2>1. CASE Enqueue
    BY <2>1 DEF Enqueue
  <2> QED BY <1>2, <2>1, NextTracer
<1> QED BY <1>1, <1>2

LEMMA SessionsNext == WorkerAssumption /\ Types /\ Control /\ Sessions /\ [Next]_vars => Sessions'
<1> SUFFICES ASSUME WorkerAssumption, Types, Control, Sessions, [Next]_vars PROVE Sessions'
  OBVIOUS
<1>0. OtherTypes
  BY TypeParts DEF Types
<1>1. \A i \in Items :
             \/ traced'[i] = traced[i]
             \/ /\ Trace /\ traced[i] = -1 /\ i = tracing'
                /\ traced'[i] = IF onDemand THEN session ELSE 0
                /\ onDemand => isConnected
  BY <1>0, TracedNext
<1>2. /\ onDemand' = onDemand
      /\ ~ Opened => session' = session
      /\ Opened => session' = session + 1 /\ traced' = traced
      /\ pc' \in {"handshake", "clear", "connect"} =>
           Accept \/ pc \in {"handshake", "clear", "connect"}
  BY SessionSteps
<1>3. session \in Nat /\ \A i \in Items : traced[i] \in Int
  BY <1>0 DEF OtherTypes, WorkerAssumption
<1>4. \A i \in Items : traced'[i] <= session' /\ (~ onDemand' => traced'[i] \in {-1, 0})
  BY <1>1, <1>2, <1>3 DEF Sessions
<1>5. ASSUME onDemand', pc' \in {"handshake", "clear", "connect"}, NEW i \in Items
      PROVE  traced'[i] < session'
  <2>1. CASE Opened
    BY <1>2, <1>3, <2>1 DEF Sessions
  <2>2. CASE ~ Opened
    <3>1. pc \in {"handshake", "clear", "connect"}
      BY <1>2, <1>5, <2>2 DEF Opened
    <3>2. ~ isConnected
      BY <3>1 DEF Control, Connecting
    <3> QED BY <1>1, <1>2, <1>5, <2>2, <3>1, <3>2 DEF Sessions
  <2> QED BY <2>1, <2>2
<1> QED BY <1>4, <1>5 DEF Sessions

\* No item was traced in a later session, and none yet in the one that a server
\* is being welcomed to (TracyProfiler.cpp:968-970: m_isConnected after ClearQueues).
THEOREM SessionsHold == Spec => []Sessions
<1>1. Init => Sessions
  BY WorkerAssumption DEF Init, Sessions
<1>2. Types /\ Control /\ Sessions /\ [Next]_vars => Sessions'
  BY SessionsNext, WorkerAssumption
<1> QED BY <1>1, <1>2, TypesCorrect, ControlHolds, PTL DEF Spec

\* A new connection makes the items of this session none, on demand; tracing
\* adds one that no queue holds.
LEMMA OwnNext ==
    ASSUME WorkerAssumption, Types, Control, Sessions, [Next]_vars
    PROVE  /\ Opened => IF onDemand THEN Own' = {} ELSE Own' = Own
           /\ ~ Opened => Own \subseteq Own'
           /\ ~ Opened => Own' \subseteq Own \cup { i \in Items : traced[i] = -1 }
           /\ \A i \in Own' \ Own : i \notin Started
<1>0. OtherTypes
  BY TypeParts DEF Types
<1>1. \A i \in Items :
             \/ traced'[i] = traced[i]
             \/ /\ Trace /\ traced[i] = -1 /\ i = tracing'
                /\ traced'[i] = IF onDemand THEN session ELSE 0
                /\ onDemand => isConnected
  BY <1>0, TracedNext
<1>2. /\ onDemand' = onDemand
      /\ ~ Opened => session' = session
      /\ Opened => session' = session + 1 /\ traced' = traced
  BY SessionSteps
<1>3. session \in Nat /\ \A i \in Items : traced[i] \in Int
  BY <1>0 DEF OtherTypes, WorkerAssumption
<1>4. ASSUME Opened PROVE IF onDemand THEN Own' = {} ELSE Own' = Own
  <2>1. \A i \in Items : traced'[i] < session'
    BY <1>2, <1>3, <1>4 DEF Sessions
  <2>2. \A i \in Items : traced'[i] # session'
    BY <1>2, <1>3, <1>4, <2>1
  <2> QED BY <1>2, <2>2 DEF Own
<1>5. ASSUME ~ Opened PROVE Own \subseteq Own' /\ Own' \subseteq Own \cup { i \in Items : traced[i] = -1 }
  BY <1>1, <1>2, <1>3, <1>5 DEF Own
<1>6. ASSUME NEW i \in Own', i \notin Own PROVE i \notin Started
  BY <1>4, <1>5, <1>6 DEF Started
<1> QED BY <1>4, <1>5, <1>6

\* What a step can do to io.
LEMMA IoCases ==
    ASSUME WorkerAssumption, Types, [Next]_vars
    PROVE  \/ io' = io /\ ~ Opened /\ ~ Shut /\ ~ ServerCloses
           \/ Opened \/ Shut \/ ServerCloses
           \/ \E fail \in BOOLEAN :
                \/ Routine(fail) /\ Passes(io, io')
                \/ Feed(fail) \/ FeedSerial(fail) \/ Terminate(fail)
<1>0. Fits(io)
  BY TypeParts DEF Types
<1>1. CASE Quiet
  BY <1>1, QuietIo
<1>2. CASE Rewired
  BY <1>2, LostIo DEF Rewired, Opened, Shut
<1>3. ASSUME NEW fail \in BOOLEAN, Routine(fail)
      PROVE  io' = io \/ Passes(io, io')
  BY <1>0, <1>3, RoutineIo
<1> QED BY <1>1, <1>2, <1>3, NextCases

LEMMA FedIo ==
    ASSUME WorkerAssumption, Types, NEW fail \in BOOLEAN, Feed(fail) \/ FeedSerial(fail)
    PROVE  \E i \in Items :
             /\ io' = PutItem(io, i, fail) /\ Carries(io, io', {Text(i), Item(i)})
             /\ Feed(fail) => i = Head(bulk)
             /\ FeedSerial(fail) => i = swapped[cursor]
<1>0. Fits(io) /\ QueueTypes /\ AtItem
  BY TypeParts DEF Types
<1>1. CASE Feed(fail)
  <2>1. Head(bulk) \in Items /\ io' = PutItem(io, Head(bulk), fail) /\ ~ FeedSerial(fail)
    BY <1>0, <1>1, FeedIs DEF Feed, FeedSerial
  <2>2. Carries(io, io', {Text(Head(bulk)), Item(Head(bulk))})
    BY <1>0, <2>1, PutItemCarries
  <2> QED BY <2>1, <2>2
<1>2. CASE FeedSerial(fail)
  <2>1. swapped[cursor] \in Items /\ io' = PutItem(io, swapped[cursor], fail) /\ ~ Feed(fail)
    BY <1>0, <1>2, FeedSerialIs DEF Feed, FeedSerial
  <2>2. Carries(io, io', {Text(swapped[cursor]), Item(swapped[cursor])})
    BY <1>0, <2>1, PutItemCarries
  <2> QED BY <2>1, <2>2
<1> QED BY <1>1, <1>2

LEMMA GoodbyeIo ==
    ASSUME WorkerAssumption, Types, NEW fail \in BOOLEAN, Terminate(fail)
    PROVE  /\ io'.buffer = io.buffer
           /\ \/ Reachable(io) /\ io'.wire = io.wire \o <<Goodbye>> /\ io'.peer \in {io.peer, "reset"} /\ io'.ok
              \/ io'.wire = io.wire /\ io'.peer = "reset" /\ ~ io'.ok
           /\ \A e \in Entries : Among(io.wire, e) => Among(io'.wire, e)
           /\ \A i \in Items : Among(io'.wire, Item(i)) => Among(io.wire, Item(i))
<1>0. Fits(io) /\ io \in Ios /\ io.wire \in Seq(Entries) /\ <<Goodbye>> \in Seq(Entries)
  BY TypeParts, Kinds DEF Types, Fits, Ios
<1>1. io'.buffer = io.buffer /\ (Sent(io, <<Goodbye>>, io') \/ Unsent(io, io'))
  BY <1>0, TerminateIo
<1>2. \A e : Among(io.wire \o <<Goodbye>>, e) <=> Among(io.wire, e) \/ Among(<<Goodbye>>, e)
  BY <1>0, AmongConcat
<1>3. \A i \in Items : ~ Among(<<Goodbye>>, Item(i))
  BY Kinds DEF Among
<1>4. CASE Sent(io, <<Goodbye>>, io')
  <2>1. Reachable(io) /\ io'.wire = io.wire \o <<Goodbye>> /\ io'.peer \in {io.peer, "reset"} /\ io'.ok
    BY <1>4 DEF Sent, Reachable
  <2> QED BY <1>1, <1>2, <1>3, <2>1
<1>5. CASE Unsent(io, io')
  <2>1. io'.wire = io.wire /\ io'.peer = "reset" /\ ~ io'.ok
    BY <1>5 DEF Unsent
  <2> QED BY <1>1, <2>1
<1> QED BY <1>1, <1>4, <1>5

\* Only a new connection, or the end of one, revives a connection that failed.
LEMMA PeerNext ==
    ASSUME WorkerAssumption, Types, [Next]_vars, ~ Opened, ~ Shut
    PROVE  /\ io.peer = "reset" => io'.peer = "reset"
           /\ Reachable(io') => Reachable(io)
<1>0. Fits(io) /\ io \in Ios
  BY TypeParts DEF Types, Fits
<1>1. CASE io' = io
  BY <1>1
<1>2. CASE ServerCloses
  BY <1>0, <1>2, ClosedIo DEF Reachable
<1>3. ASSUME NEW fail \in BOOLEAN, Passes(io, io')
      PROVE  (io.peer = "reset" => io'.peer = "reset") /\ (Reachable(io') => Reachable(io))
  BY <1>3 DEF Passes, Carries, Reachable
<1>4. ASSUME NEW fail \in BOOLEAN, Feed(fail) \/ FeedSerial(fail)
      PROVE  (io.peer = "reset" => io'.peer = "reset") /\ (Reachable(io') => Reachable(io))
  BY <1>4, FedIo DEF Carries, Reachable
<1>5. ASSUME NEW fail \in BOOLEAN, Terminate(fail)
      PROVE  (io.peer = "reset" => io'.peer = "reset") /\ (Reachable(io') => Reachable(io))
  BY <1>5, GoodbyeIo DEF Reachable
<1> QED BY <1>1, <1>2, <1>3, <1>4, <1>5, IoCases

LEMMA ModeNext ==
    ASSUME [Next]_vars
    PROVE  /\ mode # "serve" /\ pc # "connect" => mode' # "serve"
           /\ pc = "returned" => pc' = "returned"
<1>1. CASE Quiet
  BY <1>1 DEF Quiet, ServerSends, vars, queues, steady, history, program,
     ExitBeforeAccept, AcceptNone, Greet, ClearQueues, DequeueNone, DequeueBulk, SerialNone,
        SerialSwap,
     IdleExit, ExitRefusing, RequestShutdown, BeginExit, Destroy, Trace, Enqueue, Return
<1>2. CASE Rewired
  BY <1>2 DEF Rewired, Accept, AcceptToRefuse, Reject, Lost, Refuse, ServerCloses
<1>3. ASSUME NEW fail \in BOOLEAN, Routine(fail) \/ Terminate(fail) \/ Feed(fail) \/ FeedSerial(fail)
      PROVE  (mode # "serve" /\ pc # "connect" => mode' # "serve") /\ pc # "returned"
  BY <1>3 DEF Routine, Connect, IdleFlush, Queries, FarewellWait, FarewellQueries,
     FarewellCommit, Idle, Terminate, Feed, FeedSerial
<1> QED BY <1>1, <1>2, <1>3, NextCases

LEMMA AttachedBefore ==
    ASSUME WorkerAssumption, Types, Control, [Next]_vars, Attached'
    PROVE  Attached
<1>0. io \in Ios
  BY TypeParts DEF Types, Fits
<1>1. pc # "returned"
  BY ModeNext DEF Attached
<1>2. ~ Refusing
  <2>1. Refusing => ~ onDemand
    BY DEF Control
  <2>2. Refusing => pc' \in {"refuse", "refuseHandshake", "returned"}
    BY <1>0, <2>1, RefusingSteps
  <2> QED BY <2>2 DEF Attached, Refusing
<1>3. CASE mode = "serve"
  BY <1>1, <1>2, <1>3 DEF Attached
<1>4. CASE mode # "serve"
  <2>1. pc \notin {"connect", "accept", "handshake", "lost"}
    BY <1>4 DEF Control, OtherTypes, Types, TypeOK
  <2>2. mode' # "serve" /\ ~ Opened /\ ~ Shut
    BY <1>2, <1>4, <2>1, ModeNext DEF Opened, Shut, Accept, AcceptToRefuse, Reject, Refuse, Lost,
       Refusing
  <2>3. io.peer # "reset"
    BY <2>2, PeerNext DEF Attached
  <2> QED BY <1>1, <1>2, <2>3 DEF Attached
<1> QED BY <1>3, <1>4

-----------------------------------------------------------------------------
\* Only items that were queued are sent, or about to be.
OnStarted == \A i \in Items : On(io, Item(i)) => i \in Started

LEMMA OnStartedNext ==
    WorkerAssumption /\ Types /\ Control /\ Places /\ OnStarted /\ [Next]_vars => OnStarted'
<1> SUFFICES ASSUME WorkerAssumption, Types, Control, Places, OnStarted, [Next]_vars,
                    NEW i \in Items, On(io', Item(i))
             PROVE  i \in Started'
  BY DEF OnStarted
<1>0. Fits(io) /\ io \in Ios /\ QueueTypes /\ OtherTypes /\ AtItem
  BY TypeParts DEF Types, Fits
<1>1. Started \subseteq Started'
  BY <1>0, StartedNext
<1>2. On(io, Item(i)) => i \in Started
  BY DEF OnStarted
<1>3. CASE io' = io
  BY <1>1, <1>2, <1>3
<1>4. CASE Opened \/ Shut \/ ServerCloses
  <2>1. io'.buffer = io.buffer /\ io'.wire \in {io.wire, <<>>}
    BY <1>0, <1>4, OpenedIo, ShutIo, ClosedIo DEF Opened, Shut, Same
  <2> QED BY <1>1, <1>2, <2>1 DEF On, Among
<1>5. CASE Passes(io, io')
  <2>1. On(io, Item(i))
    BY <1>5, Kinds DEF Passes, Carries
  <2> QED BY <1>1, <1>2, <2>1
<1>6. ASSUME NEW fail \in BOOLEAN, Feed(fail) \/ FeedSerial(fail) PROVE i \in Started'
  <2>1. PICK j \in Items : /\ Carries(io, io', {Text(j), Item(j)})
                           /\ Feed(fail) => j = Head(bulk)
                           /\ FeedSerial(fail) => j = swapped[cursor]
    BY <1>6, FedIo
  <2>2. On(io, Item(i)) \/ i = j
    BY <2>1, Kinds DEF Carries
  <2>3. j \in Waiting
    BY <1>0, <1>6, <2>1, FeedWaits, FeedSerialWaits
  <2>4. j \in Started
    BY <1>0, <2>3, WaitingStarted
  <2> QED BY <1>1, <1>2, <2>2, <2>4
<1>7. ASSUME NEW fail \in BOOLEAN, Terminate(fail) PROVE i \in Started'
  BY <1>1, <1>2, <1>7, GoodbyeIo DEF On
<1> QED BY <1>3, <1>4, <1>5, <1>6, <1>7, IoCases

\* The stream holds only items that were queued before.
THEOREM OnStartedHolds == Spec => []OnStarted
<1>1. Init => OnStarted
  BY DEF Init, OnStarted, On, Among
<1>2. Types /\ Control /\ Places /\ OnStarted /\ [Next]_vars => OnStarted'
  BY OnStartedNext, WorkerAssumption
<1> QED BY <1>1, <1>2, TypesCorrect, ControlHolds, PlacesHold, PTL DEF Spec

-----------------------------------------------------------------------------
\* Between two sessions without on-demand mode there is only the first.
FirstSession ==
    ~ onDemand /\ Connecting =>
      /\ bulk = <<>> /\ swapped = <<>> /\ io.wire = <<>> /\ io.buffer = <<>>
      /\ dropped = {} /\ Started \subseteq Waiting

LEMMA ConnectingSteps ==
    ASSUME [Next]_vars, ~ onDemand, Connecting', Control
    PROVE  /\ Connecting /\ pc # "clear"
           /\ UNCHANGED <<bulk, swapped, dropped>>
           /\ io' = io \/ Accept \/ Reject \/ ServerCloses
           /\ Still \/ Enqueue
<1>0. pc # "clear"
  BY DEF Control
<1>1. CASE Quiet
  BY <1>0, <1>1 DEF Quiet, ServerSends, vars, queues, steady, history, program, tracer, config,
     ExitBeforeAccept, AcceptNone, Greet, ClearQueues, DequeueNone, DequeueBulk, SerialNone,
        SerialSwap,
     IdleExit, ExitRefusing, RequestShutdown, BeginExit, Destroy, Trace, Enqueue, Return, NextPc,
     Connecting, Still
<1>2. CASE Rewired
  BY <1>0, <1>2 DEF Rewired, Accept, AcceptToRefuse, Reject, Lost, Refuse, ServerCloses, steady,
     program,
     history, queues, Connecting, Still, Enqueue
<1>3. ASSUME NEW fail \in BOOLEAN, Routine(fail) \/ Terminate(fail) \/ Feed(fail) \/ FeedSerial(fail)
      PROVE  FALSE
  BY <1>3 DEF Routine, Connect, IdleFlush, Queries, FarewellWait, FarewellQueries, Answer, NoAnswer,
     FarewellCommit, Idle, Terminate, Feed, FeedSerial, Connecting, Return, NextPc
<1> QED BY <1>1, <1>2, <1>3, NextCases

LEMMA FirstSessionNext ==
    WorkerAssumption /\ Types /\ Control /\ Places /\ FirstSession /\ [Next]_vars => FirstSession'
<1> SUFFICES ASSUME WorkerAssumption, Types, Control, Places, FirstSession, [Next]_vars,
                    ~ onDemand', Connecting'
             PROVE  /\ bulk' = <<>> /\ swapped' = <<>> /\ io'.wire = <<>> /\ io'.buffer = <<>>
                    /\ dropped' = {} /\ Started' \subseteq Waiting'
  BY DEF FirstSession
<1>0. io \in Ios /\ QueueTypes /\ OtherTypes
  BY TypeParts DEF Types, Fits
<1>1. ~ onDemand
  BY SessionSteps
<1>2. /\ Connecting /\ UNCHANGED <<bulk, swapped, dropped>>
      /\ io' = io \/ Accept \/ Reject \/ ServerCloses
      /\ Still \/ Enqueue
  BY <1>1, ConnectingSteps
<1>3. /\ bulk = <<>> /\ swapped = <<>> /\ io.wire = <<>> /\ io.buffer = <<>>
      /\ dropped = {} /\ Started \subseteq Waiting
  BY <1>1, <1>2 DEF FirstSession
<1>4. io'.buffer = io.buffer /\ io'.wire \in {io.wire, <<>>}
  BY <1>0, <1>2, OpenedIo, ShutIo, ClosedIo DEF Same
<1>5. IF Enqueue THEN Started' = Started \cup {tracing} ELSE Started' = Started
  BY <1>0, StartedNext
<1>6. Started' \subseteq Waiting'
  BY <1>0, <1>2, <1>3, <1>5, StillWaits, EnqueueWaits DEF Still
<1> QED BY <1>2, <1>3, <1>4, <1>6

\* Without on-demand mode there is nothing sent or thrown away before the first
\* connection: what was traced waits for it.
THEOREM FirstSessionHolds == Spec => []FirstSession
<1>1. Init => FirstSession
  BY DEF Init, FirstSession, Started
<1>2. Types /\ Control /\ Places /\ FirstSession /\ [Next]_vars => FirstSession'
  BY FirstSessionNext, WorkerAssumption
<1> QED BY <1>1, <1>2, TypesCorrect, ControlHolds, PlacesHold, PTL DEF Spec

-----------------------------------------------------------------------------
\* What waits is not in the stream, and nothing is left of a lost session.
Fresh ==
    Attached =>
      /\ \A i \in Waiting : ~ On(io, Item(i))
      /\ swapped # <<>> => pc \in {"feedSerial", "lost", "accept", "handshake", "clear"}

LEMMA SwappedSteps ==
    ASSUME WorkerAssumption, Types, Control, FirstSession, [Next]_vars, Attached', Attached,
           swapped # <<>> => pc \in {"feedSerial", "lost", "accept", "handshake", "clear"}
    PROVE  swapped' # <<>> => pc' \in {"feedSerial", "lost", "accept", "handshake", "clear"}
<1>1. CASE Quiet
  BY <1>1 DEF Quiet, ServerSends, vars, queues, steady, history, program,
     ExitBeforeAccept, AcceptNone, Greet, ClearQueues, DequeueNone, DequeueBulk, SerialNone,
        SerialSwap,
     IdleExit, ExitRefusing, RequestShutdown, BeginExit, Destroy, Trace, Enqueue, Return, NextPc,
     FirstSession, Connecting, Discard, Attached, Refusing
<1>2. CASE Rewired
  BY <1>2 DEF Rewired, Accept, AcceptToRefuse, Reject, Lost, Refuse, ServerCloses, queues, Attached,
     Refusing, Control
<1>3. ASSUME NEW fail \in BOOLEAN, Routine(fail) \/ Terminate(fail) \/ Feed(fail)
      PROVE  swapped' = swapped /\ pc \notin {"feedSerial", "lost", "accept", "handshake", "clear"}
  BY <1>3 DEF Routine, Connect, IdleFlush, Queries, FarewellWait, FarewellQueries,
     FarewellCommit, Idle, Terminate, Feed, queues
<1>4. ASSUME NEW fail \in BOOLEAN, FeedSerial(fail)
      PROVE  swapped' # <<>> => pc' \in {"feedSerial", "lost"}
  <2>1. mode' = mode /\ (~ io'.ok => io'.peer = "reset")
    BY <1>4, FedIo DEF FeedSerial, Carries
  <2>2. ~ io'.ok => mode = "serve"
    BY <2>1 DEF Attached
  <2>3. CASE io'.ok
    <3>1. pc = "feedSerial" /\ (pc' = pc \/ swapped' = <<>>)
      BY <1>4, <2>3 DEF FeedSerial
    <3> QED BY <3>1
  <2>4. CASE ~ io'.ok
    <3>1. pc' = NextPc("lost") /\ mode = "serve"
      BY <1>4, <2>2, <2>4 DEF FeedSerial
    <3>2. PICK results : results = {status, "lost"}
      OBVIOUS
    <3>3. "lost" \in results /\ results # {"empty"}
      BY <3>2
    <3>4. NextPc("lost") = "lost"
      BY <3>1, <3>2, <3>3, Zenon DEF NextPc
    <3> QED BY <3>1, <3>4
  <2> QED BY <2>3, <2>4
<1> QED BY <1>1, <1>2, <1>3, <1>4, NextCases

LEMMA FreshNext ==
    WorkerAssumption /\ Types /\ Control /\ Places /\ OnStarted /\ FirstSession /\ Fresh /\ [Next]_vars
      => Fresh'
<1> SUFFICES ASSUME WorkerAssumption, Types, Control, Places, OnStarted, FirstSession, Fresh,
                    [Next]_vars, Attached'
             PROVE  /\ \A i \in Waiting' : ~ On(io', Item(i))
                    /\ swapped' # <<>> => pc' \in {"feedSerial", "lost", "accept", "handshake", "clear"}
  BY DEF Fresh
<1>0. Fits(io) /\ io \in Ios /\ QueueTypes /\ OtherTypes /\ AtItem
  BY TypeParts DEF Types, Fits
<1>1. Attached
  BY AttachedBefore
<1>2. /\ \A i \in Waiting : ~ On(io, Item(i))
      /\ swapped # <<>> => pc \in {"feedSerial", "lost", "accept", "handshake", "clear"}
  BY <1>1 DEF Fresh
<1>3. swapped' # <<>> => pc' \in {"feedSerial", "lost", "accept", "handshake", "clear"}
  BY <1>1, <1>2, SwappedSteps
<1>w. Waiting \subseteq Items
  BY <1>0, WaitingStarted DEF Started
<1>4. ASSUME NEW fail \in BOOLEAN, Feed(fail) \/ FeedSerial(fail), NEW i \in Waiting'
      PROVE  ~ On(io', Item(i))
  <2>1. PICK j \in Items : /\ Carries(io, io', {Text(j), Item(j)})
                           /\ Feed(fail) => j = Head(bulk)
                           /\ FeedSerial(fail) => j = swapped[cursor]
    BY <1>4, FedIo
  <2>2. j \notin Waiting' /\ Waiting' \subseteq Waiting
    BY <1>0, <1>4, <2>1, FeedWaits, FeedSerialWaits
  <2>3. i # j /\ ~ On(io, Item(i)) /\ i \in Items
    BY <1>2, <1>w, <2>2
  <2> QED BY <2>1, <2>3, Kinds DEF Carries
<1>5. ASSUME ~ (\E fail \in BOOLEAN : Feed(fail) \/ FeedSerial(fail)), NEW i \in Items, On(io', Item(i))
      PROVE  On(io, Item(i))
  <2>1. CASE io' = io
    BY <1>5, <2>1
  <2>2. CASE Opened \/ Shut \/ ServerCloses
    <3>1. io'.buffer = io.buffer /\ io'.wire \in {io.wire, <<>>}
      BY <1>0, <2>2, OpenedIo, ShutIo, ClosedIo DEF Opened, Shut, Same
    <3> QED BY <1>5, <3>1 DEF On, Among
  <2>3. CASE Passes(io, io')
    BY <1>5, <2>3, Kinds DEF Passes, Carries
  <2>4. ASSUME NEW fail \in BOOLEAN, Terminate(fail) PROVE On(io, Item(i))
    BY <1>5, <2>4, GoodbyeIo DEF On
  <2> QED BY <1>5, <2>1, <2>2, <2>3, <2>4, IoCases
<1>6. ASSUME ~ (\E fail \in BOOLEAN : Feed(fail) \/ FeedSerial(fail)), NEW i \in Waiting'
      PROVE  ~ On(io', Item(i))
  <2>1. CASE Still \/ DequeueBulk
    BY <1>0, <1>2, <1>5, <1>6, <1>w, <2>1, StillWaits, BulkWaits
  <2>2. CASE (AcceptNone /\ pc = "refuse") \/ AcceptToRefuse
    BY <1>1, <2>2 DEF Attached, Refusing, AcceptToRefuse
  <2>3. CASE ClearQueues
    BY <1>6, <2>3, ClearWaits
  <2>4. CASE SerialNone \/ SerialSwap
    <3>1. swapped = <<>>
      BY <1>2, <2>4 DEF SerialNone, SerialSwap
    <3>2. Waiting' = Waiting
      BY <1>0, <2>4, <3>1, SerialWaits, EmptyIs
    <3> QED BY <1>2, <1>5, <1>6, <1>w, <3>2
  <2>5. CASE Enqueue
    <3>1. Waiting' = Waiting \cup {tracing} /\ tracing \in Items \ Started
      BY <1>0, <2>5, EnqueueWaits, StartedNext
    <3>2. ~ On(io, Item(tracing))
      BY <3>1 DEF OnStarted
    <3> QED BY <1>2, <1>5, <1>6, <1>w, <3>1, <3>2
  <2> QED BY <1>6, <2>1, <2>2, <2>3, <2>4, <2>5, QueueCases
<1> QED BY <1>3, <1>4, <1>6

\* Nothing that still waits is in the stream, and m_serialDequeue is not empty
\* only while it is fed or after the connection was lost there.
THEOREM FreshHolds == Spec => []Fresh
<1>1. Init => Fresh
  BY EmptyIs DEF Init, Fresh, Waiting, Left
<1>2. Types /\ Control /\ Places /\ OnStarted /\ FirstSession /\ Fresh /\ [Next]_vars => Fresh'
  BY FreshNext, WorkerAssumption
<1> QED BY <1>1, <1>2, TypesCorrect, ControlHolds, PlacesHold, OnStartedHolds, FirstSessionHolds,
   PTL DEF Spec

-----------------------------------------------------------------------------
\* What was sent, and is about to be to a server that may still read it.
Stream ==
    /\ Good(io, Own, mode = "serve")
    /\ Reachable(io) /\ pc # "refuseHandshake" => Loaded(io, Own)

\* More items of their own are no matter as long as none is in the stream.
LEMMA OwnMore ==
    ASSUME NEW s, NEW own, NEW more, NEW serving, Good(s, own, serving),
           \A i \in more \ own : ~ On(s, Item(i))
    PROVE  /\ Good(s, more, serving)
           /\ Loaded(s, own) => Loaded(s, more)
<1>1. Texted(s.wire, more)
  BY DEF Good, Texted, On, Among
<1>2. Loaded(s, own) => Loaded(s, more)
  BY DEF Loaded, TextedAfter, On, Among
<1> QED BY <1>1, <1>2 DEF Good

LEMMA GoodLess ==
    ASSUME NEW s, NEW own, NEW t, NEW serving, NEW later, Good(s, own, serving),
           t.buffer = s.buffer, t.wire \in {s.wire, <<>>},
           later \/ t.peer # "reset" => serving \/ s.peer # "reset"
    PROVE  Good(t, own, later)
<1>1. CASE t.wire = s.wire
  BY <1>1 DEF Good
<1>2. CASE t.wire = <<>>
  BY <1>2 DEF Good, Unique, Texted, Among
<1> QED BY <1>1, <1>2

LEMMA GoodbyeGood ==
    ASSUME NEW w \in Seq(Entries), NEW own \in SUBSET Items, Unique(w), Texted(w, own)
    PROVE  Unique(w \o <<Goodbye>>) /\ Texted(w \o <<Goodbye>>, own)
<1> PICK g : g = <<Goodbye>>
  OBVIOUS
<1>1. g \in Seq(Entries) /\ DOMAIN g = {1} /\ g[1] = Goodbye
  BY Kinds
<1>2. \A i \in Items : ~ Among(g, Item(i))
  BY <1>1, Kinds DEF Among
<1>3. Unique(g) /\ TextedAfter(w, g, own)
  BY <1>1, Kinds DEF Unique, TextedAfter
<1>4. Unique(w \o g)
  BY <1>1, <1>2, <1>3, ConcatUnique
<1>5. Texted(w \o g, own)
  BY <1>1, <1>3, ConcatTexted
<1> QED BY <1>4, <1>5

LEMMA StaysRefusing ==
    ASSUME [Next]_vars, pc = "refuseHandshake", ~ Refuse
    PROVE  pc' = pc
<1>1. CASE Quiet
  BY <1>1 DEF Quiet, ServerSends, vars, queues, steady, history, program,
     ExitBeforeAccept, AcceptNone, Greet, ClearQueues, DequeueNone, DequeueBulk, SerialNone,
        SerialSwap,
     IdleExit, ExitRefusing, RequestShutdown, BeginExit, Destroy, Trace, Enqueue
<1>2. CASE Rewired
  BY <1>2 DEF Rewired, Accept, AcceptToRefuse, Reject, Lost, ServerCloses
<1>3. ASSUME NEW fail \in BOOLEAN, Routine(fail) \/ Terminate(fail) \/ Feed(fail) \/ FeedSerial(fail)
      PROVE  FALSE
  BY <1>3 DEF Routine, Connect, IdleFlush, Queries, FarewellWait, FarewellQueries,
     FarewellCommit, Idle, Terminate, Feed, FeedSerial
<1> QED BY <1>1, <1>2, <1>3, NextCases

\* Stream holds after every step.
LEMMA StreamNext ==
    WorkerAssumption /\ Types /\ Control /\ Places /\ Sessions /\ OnStarted /\ FirstSession /\ Fresh
      /\ Stream /\ [Next]_vars => Stream'
<1> SUFFICES ASSUME WorkerAssumption, Types, Control, Places, Sessions, OnStarted, FirstSession, Fresh,
                    Stream, [Next]_vars
             PROVE  Stream'
  OBVIOUS
<1>0. Fits(io) /\ io \in Ios /\ io' \in Ios /\ QueueTypes /\ OtherTypes /\ AtItem
  BY TypeParts, IoNext DEF Types, Fits
<1>1. PICK own, now, was, will :
        own = Own /\ now = Own' /\ was = (mode = "serve") /\ will = (mode' = "serve")
  OBVIOUS
<1>2. /\ own \in SUBSET Items /\ was \in BOOLEAN /\ will \in BOOLEAN
      /\ Good(io, own, was)
      /\ Reachable(io) /\ pc # "refuseHandshake" => Loaded(io, own)
  BY <1>1 DEF Stream, Own
<1>3. /\ ~ Opened => own \subseteq now
      /\ \A i \in now \ own : i \notin Started
      /\ ~ onDemand => now \subseteq own
      /\ Opened /\ onDemand => now = {}
      /\ \A i \in now \ own : ~ On(io, Item(i)) /\ i \in Items
  <2>1. /\ Opened => IF onDemand THEN now = {} ELSE now = own
        /\ ~ Opened => own \subseteq now
        /\ \A i \in now \ own : i \notin Started
    BY <1>1, OwnNext
  <2>2. now \subseteq Items /\ (~ onDemand => now = Items /\ own = Items)
    BY <1>1, SessionSteps DEF Own
  <2> QED BY <2>1, <2>2 DEF OnStarted
<1>4. will /\ ~ was => pc = "connect"
  BY <1>1, ModeNext
<1>5. will => was
  BY <1>1, <1>4 DEF Control, Types, TypeOK
<1>g. SUFFICES /\ Good(io', now, will)
               /\ Reachable(io') /\ pc' # "refuseHandshake" => Loaded(io', now)
  BY <1>1 DEF Stream
<1>6. CASE io' = io /\ ~ Opened /\ ~ Shut /\ ~ ServerCloses
  <2>1. pc = "refuseHandshake" => pc' = "refuseHandshake"
    BY <1>6, StaysRefusing DEF Shut
  <2>2. Good(io, own, will)
    BY <1>2, <1>5 DEF Good
  <2> QED BY <1>2, <1>3, <1>6, <2>1, <2>2, OwnMore
<1>7. CASE Opened
  <2>1. io'.peer = "open" /\ io'.wire = <<>> /\ io'.buffer = io.buffer
    BY <1>0, <1>7, OpenedIo DEF Opened, Same
  <2>2. was
    BY <1>1, <1>7 DEF Opened, Accept, AcceptToRefuse, Control, Types, TypeOK
  <2>3. Good(io', own, will)
    BY <1>2, <2>1, <2>2, GoodLess
  <2>4. now \subseteq own
    BY <1>3, <1>7
  <2>5. Good(io', now, will)
    BY <2>3, <2>4 DEF Good, Texted
  <2>6. CASE onDemand
    <3>1. now = {}
      BY <1>3, <1>7, <2>6
    <3> QED BY <2>5, <3>1 DEF Loaded, TextedAfter
  <2>7. CASE ~ onDemand /\ Accept
    <3>1. io.buffer = <<>>
      BY <2>7 DEF Accept, FirstSession, Connecting
    <3> QED BY <2>1, <2>5, <3>1 DEF Loaded, TextedAfter
  <2>8. CASE AcceptToRefuse
    <3>1. pc' = "refuseHandshake"
      BY <2>8 DEF AcceptToRefuse
    <3> QED BY <2>5, <3>1
  <2> QED BY <1>7, <2>6, <2>7, <2>8 DEF Opened
<1>8. CASE Shut \/ ServerCloses
  <2>1. /\ io'.wire = io.wire /\ io'.buffer = io.buffer /\ ~ Opened
        /\ Shut => io'.peer = "none"
        /\ ServerCloses => io.peer = "open"
    BY <1>0, <1>8, ShutIo, ClosedIo
       DEF Shut, Same, Opened, Accept, AcceptToRefuse, Reject, Refuse, Lost, ServerCloses
  <2>2. Shut => was
    BY <1>1 DEF Shut, Reject, Refuse, Lost, Control, Types, TypeOK
  <2>3. Good(io', own, will)
    BY <1>2, <1>5, <1>8, <2>1, <2>2, GoodLess
  <2>4. Reachable(io') => Reachable(io) /\ pc' = pc
    BY <1>8, <2>1 DEF Reachable, ServerCloses
  <2>5. Loaded(io, own) => Loaded(io', own)
    BY <2>1 DEF Loaded
  <2>6. \A i \in now \ own : ~ On(io', Item(i))
    BY <1>3, <2>1 DEF On
  <2> QED BY <1>2, <1>3, <2>3, <2>4, <2>5, <2>6, OwnMore
<1>9. ASSUME NEW fail \in BOOLEAN, Routine(fail) \/ Feed(fail) \/ FeedSerial(fail)
      PROVE  pc # "refuseHandshake" /\ ~ Opened /\ now = own
  <2>1. pc \notin {"refuseHandshake", "accept", "refuse"} /\ traced' = traced
    BY <1>9 DEF Routine, Connect, IdleFlush, Queries, FarewellWait, FarewellQueries,
       FarewellCommit, Idle,
       Feed, FeedSerial, steady, program, tracer
  <2>2. ~ Opened
    BY <2>1 DEF Opened, Accept, AcceptToRefuse
  <2>3. onDemand' = onDemand /\ session' = session
    BY <2>2, SessionSteps
  <2> QED BY <1>1, <2>1, <2>2, <2>3 DEF Own
<1>10. ASSUME NEW fail \in BOOLEAN, Routine(fail), Passes(io, io')
       PROVE  Good(io', now, will) /\ (Reachable(io') => Loaded(io', now))
  <2>1. Reachable(io) => Loaded(io, own)
    BY <1>2, <1>9, <1>10
  <2>2. Good(io', own, was) /\ (Reachable(io') => Loaded(io', own))
    BY <1>2, <1>10, <2>1 DEF Passes
  <2> QED BY <1>5, <1>9, <1>10, <2>2 DEF Good
<1>11. ASSUME NEW fail \in BOOLEAN, Feed(fail) \/ FeedSerial(fail)
       PROVE  Good(io', now, will) /\ (Reachable(io') => Loaded(io', now))
  <2>1. PICK i \in Items : /\ io' = PutItem(io, i, fail)
                           /\ Feed(fail) => i = Head(bulk)
                           /\ FeedSerial(fail) => i = swapped[cursor]
    BY <1>11, FedIo
  <2>2. i \in Waiting
    BY <1>0, <1>11, <2>1, FeedWaits, FeedSerialWaits
  <2>3. was \/ io.peer # "reset" => Attached
    BY <1>1, <1>11 DEF Attached, Refusing, Feed, FeedSerial
  <2>4. was \/ io.peer # "reset" => ~ On(io, Item(i))
    BY <2>2, <2>3 DEF Fresh
  <2>5. Reachable(io) => Loaded(io, own)
    BY <1>2, <1>9, <1>11
  <2>6. Good(io', own, was) /\ (Reachable(io') => Loaded(io', own))
    BY <1>0, <1>2, <2>1, <2>4, <2>5, PutItemGood
  <2> QED BY <1>5, <1>9, <1>11, <2>6 DEF Good
<1>12. ASSUME NEW fail \in BOOLEAN, Terminate(fail)
       PROVE  Good(io', now, will) /\ (Reachable(io') => Loaded(io', now))
  <2>1. /\ pc # "refuseHandshake" /\ now = own /\ was = will
    <3>1. pc = "terminate" /\ traced' = traced /\ mode' = mode
      BY <1>12 DEF Terminate, program, tracer
    <3>2. onDemand' = onDemand /\ session' = session
      BY <3>1, SessionSteps DEF Opened, Accept, AcceptToRefuse
    <3> QED BY <1>1, <3>1, <3>2 DEF Own
  <2>2. /\ io'.buffer = io.buffer
        /\ \/ Reachable(io) /\ io'.wire = io.wire \o <<Goodbye>> /\ io'.peer \in {io.peer, "reset"}
           \/ io'.wire = io.wire /\ io'.peer = "reset"
        /\ \A e \in Entries : Among(io.wire, e) => Among(io'.wire, e)
        /\ \A i \in Items : Among(io'.wire, Item(i)) => Among(io.wire, Item(i))
    BY <1>12, GoodbyeIo
  <2>3. io.wire \in Seq(Entries) /\ Unique(io.wire) /\ Texted(io.wire, own)
    BY <1>0, <1>2 DEF Ios, Good
  <2>4. Unique(io'.wire) /\ Texted(io'.wire, own)
    BY <1>2, <2>2, <2>3, GoodbyeGood
  <2>5. was \/ io'.peer # "reset" => was \/ io.peer # "reset"
    BY <2>2 DEF Reachable
  <2>6. Good(io', own, was)
    BY <1>2, <2>2, <2>4, <2>5 DEF Good
  <2>7. Reachable(io') => Reachable(io)
    BY <2>2 DEF Reachable
  <2>8. Loaded(io, own) => Loaded(io', own)
    <3>1. \A i \in own : Among(io.wire, Text(i)) => Among(io'.wire, Text(i))
      BY <1>2, <2>2, Kinds
    <3> QED BY <2>2, <3>1 DEF Loaded, TextedAfter
  <2> QED BY <1>2, <2>1, <2>6, <2>7, <2>8
<1> QED BY <1>6, <1>7, <1>8, <1>10, <1>11, <1>12, IoCases

\* Whatever the network does, a session's stream holds every item at most once,
\* after its text, and so will the buffer as long as the server can read it.
THEOREM StreamHolds == Spec => []Stream
<1>1. Init => Stream
  BY DEF Init, Stream, Good, Unique, Texted, Among, Reachable
<1>2. Types /\ Control /\ Places /\ Sessions /\ OnStarted /\ FirstSession /\ Fresh
        /\ Stream /\ [Next]_vars => Stream'
  BY StreamNext, WorkerAssumption
<1> QED BY <1>1, <1>2, TypesCorrect, ControlHolds, PlacesHold, SessionsHold, OnStartedHolds,
           FirstSessionHolds, FreshHolds, PTL DEF Spec

LEMMA AtMostOne ==
    ASSUME NEW S, \A j, k \in S : j = k
    PROVE  Cardinality(S) <= 1
<1>1. CASE S = {}
  BY <1>1, FS_EmptySet
<1>2. CASE S # {}
  <2>1. PICK k : S = {k}
    BY <1>2
  <2> QED BY <2>1, FS_Singleton
<1> QED BY <1>1, <1>2

\* SentOnceAfterPayload, for any bounds: a server gets each item of its session
\* at most once and after its payload, though nobody looks at the result of
\* the call that sends the payload (TracyProfiler.cpp:1265-1288, 1341-1349, 1406).
THEOREM SentOnce == Spec => []SentOnceAfterPayload
<1>1. Stream => SentOnceAfterPayload
  <2> SUFFICES ASSUME Stream, NEW i \in Items
               PROVE  /\ Cardinality(OnWire("item", i)) <= 1
                      /\ (onDemand => traced[i] = session) =>
                           \A k \in OnWire("item", i) : \E j \in OnWire("text", i) : j < k
    BY DEF SentOnceAfterPayload
  <2>1. Unique(io.wire) /\ Texted(io.wire, Own)
    BY DEF Stream, Good
  <2>2. \A j, k \in OnWire("item", i) : j = k
    BY <2>1 DEF Unique, Item, OnWire
  <2>3. Cardinality(OnWire("item", i)) <= 1
    BY <2>2, AtMostOne
  <2>4. i \in Own => \A k \in OnWire("item", i) : \E j \in OnWire("text", i) : j < k
    BY <2>1 DEF Texted, Item, Text, OnWire
  <2> QED BY <2>3, <2>4 DEF Own
<1> QED BY <1>1, StreamHolds, PTL

\* What the items of this session that no longer wait have come to, as long as
\* the server may read it.
Sending ==
    Attached /\ Reachable(io) =>
      \A i \in Started : i \in Waiting \/ i \in dropped \/ (i \in Own => On(io, Item(i)))

\* After the shutdown the queues are emptied of what was due, one by one.
Emptied ==
    /\ mode = "flush" /\ pc \in {"serial", "feedSerial"} /\ status = "empty" => due \cap ToSet(queue) = {}
    /\ mode = "flush" /\ pc = "idle" /\ Reachable(io) => due \cap Waiting = {}
    /\ pc = "terminate" /\ Reachable(io) => due \cap Waiting = {} /\ io.buffer = <<>>

\* A server that was told Terminate has what was due to it.
Told == Goodbyes => \A i \in due \ dropped : i \in Own => Among(io.wire, Item(i))

LEMMA DroppedGrows == ASSUME [Next]_vars PROVE dropped \subseteq dropped'
BY QueueCases DEF Still, AcceptNone, AcceptToRefuse, Discard, ClearQueues, DequeueBulk, SerialNone,
   SerialSwap, Enqueue, Feed, FeedSerial, history, steady

\* Sending holds after every step.
LEMMA SendingNext ==
    WorkerAssumption /\ Types /\ Control /\ Places /\ Sessions /\ OnStarted /\ FirstSession /\ Fresh
      /\ Sending /\ [Next]_vars => Sending'
<1> SUFFICES ASSUME WorkerAssumption, Types, Control, Places, Sessions, OnStarted, FirstSession, Fresh,
                    Sending, [Next]_vars, Attached', Reachable(io'),
                    NEW i \in Started', i \notin Waiting', i \notin dropped', i \in Own'
             PROVE  On(io', Item(i))
  BY DEF Sending
<1>0. Fits(io) /\ io \in Ios /\ QueueTypes /\ OtherTypes /\ AtItem
  BY TypeParts DEF Types, Fits
<1>1. Attached /\ dropped \subseteq dropped'
  BY AttachedBefore, DroppedGrows
<1>2. i \in Started
  BY <1>0, EnqueueWaits, StartedNext
<1>3. ~ Opened
  <2>1. CASE Accept
    <3>1. onDemand => Own' = {}
      BY <2>1, OwnNext DEF Opened
    <3>2. ~ onDemand => Started \subseteq Waiting
      BY <2>1 DEF FirstSession, Connecting, Accept
    <3>3. Waiting' = Waiting
      BY <2>1 DEF Accept, queues, Waiting, Left
    <3> QED BY <1>2, <3>1, <3>2, <3>3
  <2>2. CASE AcceptToRefuse
    BY <2>2 DEF AcceptToRefuse, Attached, Refusing
  <2> QED BY <2>1, <2>2 DEF Opened
<1>4. ~ Shut
  BY <1>0, ShutIo DEF Shut, Reachable
<1>5. Reachable(io) /\ i \in Own /\ i \in Items
  BY <1>2, <1>3, <1>4, PeerNext, OwnNext DEF Own
<1>6. CASE i \in Waiting
  <2>1. ~ (Still \/ DequeueBulk \/ Enqueue \/ SerialNone \/ SerialSwap)
    BY <1>0, <1>6, StillWaits, BulkWaits, EnqueueWaits, SerialWaits
  <2>2. ~ ClearQueues
    BY <1>6, ClearWaits DEF ClearQueues
  <2>3. ~ ((AcceptNone /\ pc = "refuse") \/ AcceptToRefuse)
    BY <1>1 DEF Attached, Refusing, AcceptToRefuse
  <2>4. PICK fail \in BOOLEAN : Feed(fail) \/ FeedSerial(fail)
    BY <2>1, <2>2, <2>3, QueueCases
  <2>5. PICK j \in Items : /\ Carries(io, io', {Text(j), Item(j)})
                           /\ Feed(fail) => j = Head(bulk)
                           /\ FeedSerial(fail) => j = swapped[cursor]
    BY <2>4, FedIo
  <2>6. io'.ok
    BY <2>5 DEF Carries, Reachable
  <2>7. i = j
    BY <1>0, <1>6, <2>4, <2>5, <2>6, FeedWaits, FeedSerialWaits
  <2> QED BY <2>5, <2>7, Kinds DEF Carries
<1>7. CASE i \notin Waiting
  <2>1. On(io, Item(i))
    BY <1>1, <1>2, <1>5, <1>7 DEF Sending
  <2>2. CASE io' = io
    BY <2>1, <2>2
  <2>3. CASE ServerCloses
    BY <1>0, <2>1, <2>3, ClosedIo DEF On, Same
  <2>4. ASSUME NEW fail \in BOOLEAN, Passes(io, io') PROVE On(io', Item(i))
    BY <1>5, <2>1, <2>4, Kinds DEF Passes, Carries
  <2>5. ASSUME NEW fail \in BOOLEAN, Feed(fail) \/ FeedSerial(fail) PROVE On(io', Item(i))
    BY <1>5, <2>1, <2>5, FedIo, Kinds DEF Carries
  <2>6. ASSUME NEW fail \in BOOLEAN, Terminate(fail) PROVE On(io', Item(i))
    BY <1>5, <2>1, <2>6, GoodbyeIo, Kinds DEF On
  <2> QED BY <1>3, <1>4, <2>2, <2>3, <2>4, <2>5, <2>6, IoCases
<1> QED BY <1>6, <1>7

\* An item of the session that no longer waits was sent, is in the buffer or was
\* thrown away as the server connected, as long as the server can be reached.
THEOREM SendingHolds == Spec => []Sending
<1>1. Init => Sending
  BY DEF Init, Sending, Reachable
<1>2. Types /\ Control /\ Places /\ Sessions /\ OnStarted /\ FirstSession /\ Fresh
        /\ Sending /\ [Next]_vars => Sending'
  BY SendingNext, WorkerAssumption
<1> QED BY <1>1, <1>2, TypesCorrect, ControlHolds, PlacesHold, SessionsHold, OnStartedHolds,
           FirstSessionHolds, FreshHolds, PTL DEF Spec

-----------------------------------------------------------------------------
\* Once the shutdown is requested, what was due is settled.
LEMMA DueSettled ==
    ASSUME [Next]_vars
    PROVE  shutdown => due' = due
<1>1. CASE Quiet
  BY <1>1 DEF Quiet, ServerSends, vars, queues, steady, history, program, control,
     ExitBeforeAccept, AcceptNone, Greet, ClearQueues, DequeueNone, DequeueBulk, SerialNone,
        SerialSwap,
     IdleExit, ExitRefusing, RequestShutdown, BeginExit, Destroy, Trace, Enqueue, NoteDue
<1>2. CASE Rewired
  BY <1>2 DEF Rewired, Accept, AcceptToRefuse, Reject, Lost, Refuse, ServerCloses, steady, program,
     control,
     history
<1>3. ASSUME NEW fail \in BOOLEAN, Routine(fail) \/ Terminate(fail) \/ Feed(fail) \/ FeedSerial(fail)
      PROVE  due' = due
  BY <1>3 DEF Routine, Connect, IdleFlush, Queries, FarewellWait, FarewellQueries,
     FarewellCommit, Idle, Terminate, Feed, FeedSerial, steady, program, control, history
<1> QED BY <1>1, <1>2, <1>3, NextCases

\* Where the loops go after Dequeue and DequeueSerial.
LEMMA NextPcIs ==
    ASSUME mode \in {"serve", "flush", "farewell"}
    PROVE  /\ NextPc("lost") # "idle" /\ NextPc("success") # "idle"
           /\ NextPc("empty") = "idle" => status = "empty"
           /\ \A s \in {"lost", "success", "empty"} :
                /\ NextPc(s) = "terminate" => mode = "flush" /\ (s = "lost" \/ status = "lost")
                /\ NextPc(s) \in {"serial", "feedSerial"} => mode = "farewell"
<1>1. ASSUME NEW s
      PROVE  \/ mode = "farewell" /\ NextPc(s) \in {"serial", "farewellCommit"}
             \/ mode = "serve" /\ NextPc(s) = "lost"
             \/ mode = "flush" /\ "lost" \in {status, s} /\ NextPc(s) = "terminate"
             \/ {status, s} = {"empty"} /\ NextPc(s) = "idle"
             \/ NextPc(s) = "queries"
  <2> PICK results : results = {status, s}
    OBVIOUS
  <2>1. NextPc(s) = CASE mode = "farewell" /\ s = "success" -> "serial"
          [] mode = "farewell" /\ s # "success" -> "farewellCommit"
          [] mode = "serve" /\ "lost" \in results -> "lost"
          [] mode = "flush" /\ "lost" \in results -> "terminate"
          [] mode # "farewell" /\ results = {"empty"} -> "idle"
          [] OTHER -> "queries"
    BY DEF NextPc
  <2> QED BY <2>1
<1> QED BY <1>1

\* How the worker comes to DequeueSerial with an empty queue in the second loop.
LEMMA SerialBefore ==
    ASSUME OtherTypes, [Next]_vars, ~ DequeueNone, mode' = "flush", pc' \in {"serial",
       "feedSerial"},
           status' = "empty"
    PROVE  /\ mode = "flush" /\ pc \in {"serial", "feedSerial"} /\ status = "empty"
           /\ queue' = queue \/ Enqueue
<1>0. mode \in {"serve", "flush", "farewell"}
  BY DEF OtherTypes
<1>1. CASE Quiet
  <2>1. CASE Enqueue
    BY <2>1 DEF Enqueue
  <2>2. CASE SerialNone
    BY <1>0, <2>2, NextPcIs DEF SerialNone
  <2>3. CASE ~ Enqueue /\ ~ SerialNone
    BY <1>1, <2>3 DEF Quiet, ServerSends, vars, queues, steady, history, program, control, Return,
     ExitBeforeAccept, AcceptNone, Greet, ClearQueues, DequeueBulk, SerialSwap,
     IdleExit, ExitRefusing, RequestShutdown, BeginExit, Destroy, Trace
  <2> QED BY <2>1, <2>2, <2>3
<1>2. CASE Rewired
  BY <1>2 DEF Rewired, Accept, AcceptToRefuse, Reject, Lost, Refuse, ServerCloses, queues
<1>3. ASSUME NEW fail \in BOOLEAN, Routine(fail) \/ Terminate(fail)
      PROVE  /\ mode = "flush" /\ pc \in {"serial", "feedSerial"} /\ status = "empty" /\ queue' = queue
  BY <1>3 DEF Routine, Connect, IdleFlush, Queries, FarewellWait, FarewellQueries, Return, Answer,
     NoAnswer,
     FarewellCommit, Idle, Terminate, queues
<1>4. ASSUME NEW fail \in BOOLEAN, Feed(fail) PROVE FALSE
  BY <1>4 DEF Feed
<1>5. ASSUME NEW fail \in BOOLEAN, FeedSerial(fail)
      PROVE  /\ mode = "flush" /\ pc \in {"serial", "feedSerial"} /\ status = "empty" /\ queue' = queue
  BY <1>5 DEF FeedSerial
<1> QED BY <1>1, <1>2, <1>3, <1>4, <1>5, NextCases

\* How the second loop comes to its end.
LEMMA IdleBefore ==
    ASSUME OtherTypes, [Next]_vars, mode' = "flush", pc' = "idle"
    PROVE  /\ mode = "flush" /\ ~ Opened /\ ~ Shut
           /\ \/ SerialNone /\ status = "empty"
              \/ pc = "idle" /\ (Still \/ Enqueue)
<1>0. mode \in {"serve", "flush", "farewell"}
  BY DEF OtherTypes
<1>1. CASE Quiet
  <2>1. CASE SerialNone
    BY <1>0, <2>1, NextPcIs DEF SerialNone, Opened, Shut, Accept, AcceptToRefuse, Reject, Refuse,
       Lost
  <2>2. CASE Enqueue
    BY <2>2 DEF Enqueue, Opened, Shut, Accept, AcceptToRefuse, Reject, Refuse, Lost
  <2>3. CASE ~ SerialNone /\ ~ Enqueue
    <3>1. pc = "idle" /\ mode = "flush" /\ Still
      BY <1>1, <2>3 DEF Quiet, ServerSends, vars, queues, steady, history, program, control, Return,
       ExitBeforeAccept, AcceptNone, Greet, ClearQueues, DequeueNone, DequeueBulk, SerialSwap,
       IdleExit, ExitRefusing, RequestShutdown, BeginExit, Destroy, Trace, Still, tracer
    <3> QED BY <3>1 DEF Opened, Shut, Accept, AcceptToRefuse, Reject, Refuse, Lost
  <2> QED BY <2>1, <2>2, <2>3
<1>2. CASE Rewired
  BY <1>2, <1>0 DEF Rewired, Accept, AcceptToRefuse, Reject, Lost, Refuse, ServerCloses, queues,
     Opened, Shut,
     Still, Enqueue, steady, history, program
<1>3. ASSUME NEW fail \in BOOLEAN, Routine(fail) \/ Terminate(fail) \/ Feed(fail)
      PROVE  FALSE
  BY <1>3 DEF Routine, Connect, IdleFlush, Queries, FarewellWait, FarewellQueries, Return, Answer,
     NoAnswer,
     FarewellCommit, Idle, Terminate, Feed
<1>4. ASSUME NEW fail \in BOOLEAN, FeedSerial(fail) PROVE FALSE
  BY <1>0, <1>4, NextPcIs DEF FeedSerial
<1> QED BY <1>1, <1>2, <1>3, <1>4, NextCases

\* How the worker comes to say Terminate to a server it can reach.
LEMMA TerminateBefore ==
    ASSUME WorkerAssumption, Types, Control, [Next]_vars, pc' = "terminate", Reachable(io')
    PROVE  /\ mode = "flush" /\ Reachable(io)
           /\ \/ \E fail \in BOOLEAN : IdleFlush(fail)
              \/ pc = "terminate" /\ (Still \/ Enqueue) /\ io'.buffer = io.buffer
<1>0. mode \in {"serve", "flush", "farewell"} /\ io \in Ios
  BY TypeParts DEF OtherTypes, Types, Fits
<1>1. pc = "terminate" => mode = "flush"
  BY <1>0 DEF Control
<1>2. CASE Quiet
  <2>1. io' = io /\ Reachable(io)
    BY <1>2, QuietIo
  <2>2. CASE Enqueue
    BY <1>1, <2>1, <2>2 DEF Enqueue
  <2>3. CASE SerialNone
    BY <1>0, <2>1, <2>3, NextPcIs DEF SerialNone, Control, Reachable
  <2>4. CASE ~ Enqueue /\ ~ SerialNone
    <3>1. pc = "terminate" /\ Still
      BY <1>2, <2>4 DEF Quiet, ServerSends, vars, queues, steady, history, program, control, Return,
       ExitBeforeAccept, AcceptNone, Greet, ClearQueues, DequeueNone, DequeueBulk, SerialSwap,
       IdleExit, ExitRefusing, RequestShutdown, BeginExit, Destroy, Trace, Still, tracer
    <3> QED BY <1>1, <2>1, <3>1
  <2> QED BY <2>2, <2>3, <2>4
<1>3. CASE Rewired
  <2>1. ServerCloses /\ pc = "terminate" /\ Still
    BY <1>3 DEF Rewired, Accept, AcceptToRefuse, Reject, Lost, Refuse, ServerCloses, queues,
       Still, Enqueue, steady, history, program
  <2> QED BY <1>0, <1>1, <2>1, ClosedIo DEF Same, Reachable
<1>4. ASSUME NEW fail \in BOOLEAN, Routine(fail) PROVE mode = "flush" /\ Reachable(io) /\ IdleFlush(fail)
  <2>1. IdleFlush(fail) /\ mode = "flush"
    BY <1>4 DEF Routine, Connect, IdleFlush, Queries, FarewellWait, FarewellQueries, Return, Answer,
       NoAnswer, FarewellCommit, Idle
  <2>2. ~ Opened /\ ~ Shut
    BY <2>1 DEF IdleFlush, Opened, Shut, Accept, AcceptToRefuse, Reject, Refuse, Lost
  <2> QED BY <2>1, <2>2, PeerNext
<1>5. ASSUME NEW fail \in BOOLEAN, Feed(fail) \/ Terminate(fail) PROVE FALSE
  BY <1>5 DEF Feed, Terminate, Return
<1>6. ASSUME NEW fail \in BOOLEAN, FeedSerial(fail) PROVE FALSE
  <2>1. Carries(io, io', {}) \/ \E i \in Items : Carries(io, io', {Text(i), Item(i)})
    BY <1>6, FedIo
  <2>2. io'.ok /\ (io'.peer = io.peer \/ io'.peer = "reset")
    BY <2>1 DEF Carries, Reachable
  <2>3. status # "lost"
    BY <1>6, <2>2 DEF FeedSerial, Control, Reachable
  <2>4. NextPc("success") # "terminate"
    BY <1>0, <2>3, NextPcIs
  <2> QED BY <1>6, <2>2, <2>4 DEF FeedSerial
<1> QED BY <1>2, <1>3, <1>4, <1>5, <1>6, NextCases

LEMMA EmptiedNext ==
    WorkerAssumption /\ Types /\ Control /\ Places /\ FirstSession /\ Fresh
      /\ Emptied /\ [Next]_vars => Emptied'
<1> SUFFICES ASSUME WorkerAssumption, Types, Control, Places, FirstSession, Fresh, Emptied, [Next]_vars
             PROVE  Emptied'
  OBVIOUS
<1>0. Fits(io) /\ io \in Ios /\ QueueTypes /\ OtherTypes /\ AtItem
  BY TypeParts DEF Types, Fits
<1>1. shutdown => due' = due
  BY DueSettled
<1>2. mode # "serve" => shutdown
  BY DEF Control
<1>3. /\ ~ Opened /\ ~ Shut => (Reachable(io') => Reachable(io))
  BY PeerNext
<1>4. Enqueue => /\ Waiting' = Waiting \cup {tracing} /\ tracing \notin due /\ queue \in Seq(Items)
                 /\ tracing \in Items
  BY <1>0, EnqueueWaits, StartedNext DEF QueueTypes, Places
<1>5. ASSUME mode' = "flush", pc' \in {"serial", "feedSerial"}, status' = "empty"
      PROVE  due' \cap ToSet(queue') = {}
  <2>1. CASE DequeueNone
    BY <2>1, EmptyIs DEF DequeueNone, queues
  <2>2. CASE ~ DequeueNone
    <3>1. /\ mode = "flush" /\ pc \in {"serial", "feedSerial"} /\ status = "empty"
          /\ queue' = queue \/ Enqueue
      BY <1>0, <1>5, <2>2, SerialBefore
    <3>2. due \cap ToSet(queue) = {} /\ due' = due
      BY <1>1, <1>2, <3>1 DEF Emptied
    <3>3. Enqueue => ToSet(queue') \subseteq ToSet(queue) \cup {tracing}
      BY <1>4, AppendIs DEF Enqueue
    <3> QED BY <1>4, <3>1, <3>2, <3>3
  <2> QED BY <2>1, <2>2
<1>6. ASSUME mode' = "flush", pc' = "idle", Reachable(io')
      PROVE  due' \cap Waiting' = {}
  <2>1. /\ mode = "flush" /\ Reachable(io)
        /\ \/ SerialNone /\ status = "empty"
           \/ pc = "idle" /\ (Still \/ Enqueue)
    BY <1>0, <1>3, <1>6, IdleBefore
  <2>2. due' = due
    BY <1>1, <1>2, <2>1
  <2>3. CASE SerialNone /\ status = "empty"
    <3>1. pc = "serial" /\ Attached
      BY <1>6, <2>1, <2>3 DEF SerialNone, Attached, Refusing, Reachable
    <3>2. swapped = <<>> /\ serial = <<>> /\ bulk = <<>>
      BY <2>3, <3>1 DEF Fresh, Places, SerialNone
    <3>3. Waiting = ToSet(queue) /\ Waiting' = ToSet(queue)
      BY <1>0, <2>3, <3>1, <3>2, SerialWaits, EmptyIs DEF Waiting, Left
    <3> QED BY <2>1, <2>2, <2>3, <3>1, <3>3 DEF Emptied
  <2>4. CASE pc = "idle" /\ (Still \/ Enqueue)
    <3>1. due \cap Waiting = {}
      BY <1>6, <2>1, <2>4 DEF Emptied
    <3> QED BY <1>4, <2>2, <2>4, <3>1, StillWaits
  <2> QED BY <2>1, <2>3, <2>4
<1>7. ASSUME pc' = "terminate", Reachable(io')
      PROVE  due' \cap Waiting' = {} /\ io'.buffer = <<>>
  <2>1. /\ mode = "flush" /\ Reachable(io)
        /\ \/ \E fail \in BOOLEAN : IdleFlush(fail)
           \/ pc = "terminate" /\ (Still \/ Enqueue) /\ io'.buffer = io.buffer
    BY <1>7, TerminateBefore
  <2>2. due' = due
    BY <1>1, <1>2, <2>1
  <2>3. ASSUME NEW fail \in BOOLEAN, IdleFlush(fail)
        PROVE  due' \cap Waiting' = {} /\ io'.buffer = <<>>
    <3>1. pc = "idle" /\ Waiting' = Waiting
      BY <2>3 DEF IdleFlush, queues, Waiting, Left
    <3>2. io'.buffer = <<>>
      BY <1>0, <2>3, CommitIo
    <3> QED BY <2>1, <2>2, <3>1, <3>2 DEF Emptied
  <2>4. CASE pc = "terminate" /\ (Still \/ Enqueue) /\ io'.buffer = io.buffer
    <3>1. due \cap Waiting = {} /\ io.buffer = <<>>
      BY <2>1, <2>4 DEF Emptied
    <3> QED BY <1>4, <2>2, <2>4, <3>1, StillWaits
  <2> QED BY <2>1, <2>3, <2>4
<1> QED BY <1>5, <1>6, <1>7 DEF Emptied

\* In the second loop the queues are emptied of what was due, first s_queue, then
\* m_serialQueue, and then the buffer (TracyProfiler.cpp:1120-1139).
THEOREM EmptiedHolds == Spec => []Emptied
<1>1. Init => Emptied
  BY DEF Init, Emptied
<1>2. Types /\ Control /\ Places /\ FirstSession /\ Fresh /\ Emptied /\ [Next]_vars => Emptied'
  BY EmptiedNext, WorkerAssumption
<1> QED BY <1>1, <1>2, TypesCorrect, ControlHolds, PlacesHold, FirstSessionHolds, FreshHolds,
   PTL DEF Spec

-----------------------------------------------------------------------------
\* Told holds after every step.
LEMMA ToldNext ==
    WorkerAssumption /\ Types /\ Control /\ Places /\ Sessions /\ Sending /\ Emptied
      /\ Told /\ [Next]_vars => Told'
<1> SUFFICES ASSUME WorkerAssumption, Types, Control, Places, Sessions, Sending, Emptied, Told, [Next]_vars,
                    Goodbyes', NEW i \in due', i \notin dropped', i \in Own'
             PROVE  Among(io'.wire, Item(i))
  BY DEF Told
<1>0. Fits(io) /\ io \in Ios /\ QueueTypes /\ OtherTypes /\ AtItem
  BY TypeParts DEF Types, Fits
<1>1. ~ Opened
  BY <1>0, OpenedIo DEF Opened, Goodbyes, Among
<1>2. mode # "serve" => due' = due
  BY DueSettled DEF Control
<1>3. i \in due /\ mode # "serve" => i \in Own /\ i \notin dropped /\ i \in Items /\ i \in Started
  BY <1>1, DroppedGrows, OwnNext DEF Places, Own
<1>4. ASSUME NEW fail \in BOOLEAN, Terminate(fail) PROVE Among(io'.wire, Item(i))
  <2>1. pc = "terminate" /\ mode # "serve"
    BY <1>4 DEF Terminate, Control
  <2>2. i \in Own /\ i \notin dropped /\ i \in Items /\ i \in Started /\ i \in due
    BY <1>2, <1>3, <2>1
  <2>3. CASE Reachable(io)
    <3>1. due \cap Waiting = {} /\ io.buffer = <<>>
      BY <2>1, <2>3 DEF Emptied
    <3>2. Attached
      BY <2>1, <2>3 DEF Attached, Refusing, Reachable
    <3>3. On(io, Item(i))
      BY <2>2, <2>3, <3>1, <3>2 DEF Sending
    <3>4. Among(io.wire, Item(i))
      BY <3>1, <3>3 DEF On, Among
    <3> QED BY <1>4, <2>2, <3>4, GoodbyeIo, Kinds
  <2>4. CASE ~ Reachable(io)
    <3>1. io'.wire = io.wire
      BY <1>4, <2>4, GoodbyeIo
    <3>2. Goodbyes
      BY <3>1 DEF Goodbyes
    <3> QED BY <2>2, <3>1, <3>2 DEF Told
  <2> QED BY <2>3, <2>4
<1>5. CASE Goodbyes
  <2>1. i \in Own /\ i \notin dropped /\ i \in Items /\ i \in due
    BY <1>2, <1>3, <1>5 DEF Control
  <2>2. Among(io.wire, Item(i)) /\ Item(i) \in Entries
    BY <1>5, <2>1, Kinds DEF Told
  <2>3. CASE io' = io
    BY <2>2, <2>3
  <2>4. CASE Shut \/ ServerCloses
    BY <1>0, <2>2, <2>4, ShutIo, ClosedIo DEF Shut
  <2>5. ASSUME NEW fail \in BOOLEAN, Passes(io, io') PROVE Among(io'.wire, Item(i))
    BY <2>2, <2>5 DEF Passes, Carries
  <2>6. ASSUME NEW fail \in BOOLEAN, Feed(fail) \/ FeedSerial(fail) PROVE Among(io'.wire, Item(i))
    BY <2>2, <2>6, FedIo DEF Carries
  <2> QED BY <1>1, <1>4, <2>3, <2>4, <2>5, <2>6, IoCases
<1>6. CASE ~ Goodbyes
  <2>1. ~ Among(io.buffer, Goodbye) /\ Goodbye \in Entries
    BY Kinds DEF Control
  <2>2. ~ On(io, Goodbye)
    BY <1>6, <2>1 DEF On, Goodbyes
  <2>3. On(io', Goodbye)
    BY DEF On, Goodbyes
  <2>4. io' # io
    BY <2>2, <2>3
  <2>5. ~ (Shut \/ ServerCloses)
    <3>1. Shut \/ ServerCloses => io'.wire = io.wire
      BY <1>0, ShutIo, ClosedIo DEF Shut
    <3> QED BY <1>6, <3>1 DEF Goodbyes
  <2>6. ~ Passes(io, io')
    BY <2>1, <2>2, <2>3 DEF Passes, Carries
  <2>7. ASSUME NEW fail \in BOOLEAN, Feed(fail) \/ FeedSerial(fail) PROVE FALSE
    <3>1. PICK j \in Items : Carries(io, io', {Text(j), Item(j)})
      BY <2>7, FedIo
    <3>2. Goodbye \notin {Text(j), Item(j)}
      BY Kinds
    <3> QED BY <2>1, <2>2, <2>3, <3>1, <3>2 DEF Carries
  <2> QED BY <1>1, <1>4, <2>4, <2>5, <2>6, <2>7, IoCases
<1> QED BY <1>5, <1>6

\* FlushedBeforeTerminate, for any bounds: a server told Terminate was sent every
\* item of its session that was queued when the shutdown was requested, except
\* those cleared as it connected (NEWS:115, TracyProfiler.cpp:1120-1147).
THEOREM FlushedFirst == Spec => []FlushedBeforeTerminate
<1>1. Init => Told
  BY DEF Init, Told, Goodbyes, Among
<1>2. Types /\ Control /\ Places /\ Sessions /\ Sending /\ Emptied /\ Told /\ [Next]_vars => Told'
  BY ToldNext, WorkerAssumption
<1>3. Types /\ Told => FlushedBeforeTerminate
  <2> SUFFICES ASSUME Types, Told, Goodbye \in ToSet(io.wire), NEW i \in due \ dropped,
                      onDemand => traced[i] = session
               PROVE  OnWire("item", i) # {}
    BY DEF FlushedBeforeTerminate
  <2>1. Goodbyes
    BY DEF Goodbyes, Among, ToSet
  <2>2. i \in Own
    BY DEF Own, Types, TypeOK
  <2>3. Among(io.wire, Item(i))
    BY <2>1, <2>2 DEF Told
  <2> QED BY <2>3 DEF Among, OnWire, Item
<1> QED BY <1>1, <1>2, <1>3, TypesCorrect, ControlHolds, PlacesHold, SessionsHold, SendingHolds,
           EmptiedHolds, PTL DEF Spec
=============================================================================
