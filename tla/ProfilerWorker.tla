---------------------------- MODULE ProfilerWorker ----------------------------
(***************************************************************************)
(* The profiler's worker thread: Profiler::Worker with Dequeue,            *)
(* DequeueSerial, ClearQueues, HandleServerQuery, AppendData and CommitData *)
(* (src/tracy/client/TracyProfiler.cpp), the thread that traces, the       *)
(* requests to shut down, the destructor, and a server that connects,      *)
(* queries, stalls and disconnects as it likes.                            *)
(*                                                                         *)
(* An item is a number; each carries a payload on the heap, sent as its    *)
(* "text" before the item itself and then freed.  The send buffer is what  *)
(* m_buffer holds between m_bufferStart and m_bufferOffset: the sequence   *)
(* of its texts and items, and the number of its other entries (replies,   *)
(* keep-alives, deferred items), which nothing below tells apart; a frame  *)
(* holds FrameItems in all (bytes: SendBuffer).                            *)
(* The serial queue's lock is always obtained (without it: SerialQueue).   *)
(* TCP: the first send to a closed peer may still succeed, later ones fail. *)
(***************************************************************************)
EXTENDS Integers, Sequences, FiniteSets, SequencesExt

CONSTANTS
    FrameItems,   \* entries that fit in one frame
    BulkSize,     \* items Dequeue takes at once
    MaxItems,     \* bound on the items traced
    MaxSessions   \* bound on the connections accepted

ASSUME WorkerAssumption == /\ FrameItems \in Nat \ {0}
                           /\ BulkSize \in Nat \ {0}
                           /\ MaxItems \in Nat
                           /\ MaxSessions \in Nat

Items == 1..MaxItems

VARIABLES
    onDemand,   \* TRACY_ON_DEMAND is defined
    noExit,     \* m_noExit
    pc,         \* where the worker is
    mode,       \* the loop that called Dequeue
    status,     \* what Dequeue returned
    sock,       \* m_sock: "null", "live" or "dangling"
    io,         \* [buffer, others, wire, peer, ok]: the send buffer, what was
                \* sent in this session (less the other entries), the other
                \* end, and the result of the last send
    inbox,      \* the server's queries that have arrived
    queue,      \* s_queue
    bulk,       \* the rest of m_itemBuf
    serial,     \* m_serialQueue
    swapped,    \* m_serialDequeue
    cursor,     \* DequeueSerial's place in it
    isConnected, shutdown, finished,
    exiting,    \* the destructor has begun
    destroyed,  \* the destructor has ended
    tracing,    \* what the tracing thread is about to queue, 0 when nothing
    traced,     \* the session each item was traced in; -1: not traced yet
    session,    \* connections accepted
    freed,      \* history: how often each payload was freed
    kept,       \* history: items a lost connection left in m_serialDequeue
    due,        \* history: items queued when the shutdown was requested
    dropped     \* history: items thrown away unsent

queues == <<queue, bulk, serial, swapped, cursor>>
control == <<shutdown, exiting, destroyed>>
tracer == <<tracing, traced>>
history == <<freed, kept, due, dropped>>
config == <<onDemand, noExit>>
program == <<config, control, tracer, session>>
steady == <<program, isConnected, finished, history>>
vars == <<steady, pc, mode, status, sock, io, inbox, queues>>

Goodbye == <<"terminate", 0>>
Entries == ({"text", "item"} \X Items) \cup {Goodbye}

TypeOK ==
    /\ onDemand \in BOOLEAN /\ noExit \in BOOLEAN
    /\ pc \in {"accept", "handshake", "clear", "connect", "dequeue", "feed",
               "serial", "feedSerial", "idle", "queries", "lost", "refuse",
               "refuseHandshake", "terminate", "farewell", "farewellQueries",
               "farewellCommit", "returned"}
    /\ mode \in {"serve", "flush", "farewell"}
    /\ status \in {"success", "empty", "lost"}
    /\ sock \in {"null", "live", "dangling", "destroyedTwice"}
    /\ io \in [buffer : Seq(Entries), others : Nat, wire : Seq(Entries),
               peer : {"none", "open", "closed", "reset"}, ok : BOOLEAN]
    /\ Len(io.buffer) + io.others <= FrameItems
    /\ inbox \in Seq({"query", "terminate", "partial"})
    /\ \A q \in {queue, bulk, serial, swapped} : q \in Seq(Items)
    /\ cursor \in Nat \ {0}
    /\ \A flag \in {isConnected, shutdown, finished, exiting, destroyed} : flag \in BOOLEAN
    /\ tracing \in 0..MaxItems
    /\ traced \in [Items -> -1..MaxSessions]
    /\ session \in 0..MaxSessions
    /\ freed \in [Items -> Nat]
    /\ kept \subseteq Items /\ due \subseteq Items /\ dropped \subseteq Items

Init ==
    /\ onDemand \in BOOLEAN /\ noExit \in BOOLEAN
    /\ pc = "accept"
    /\ mode = "serve"
    /\ status = "empty"
    /\ sock = "null"
    /\ io = [buffer |-> <<>>, others |-> 0, wire |-> <<>>, peer |-> "none", ok |-> TRUE]
    /\ inbox = <<>>
    /\ queue = <<>> /\ bulk = <<>> /\ serial = <<>> /\ swapped = <<>>
    /\ cursor = 1
    /\ isConnected = FALSE /\ shutdown = FALSE /\ finished = FALSE
    /\ exiting = FALSE /\ destroyed = FALSE
    /\ tracing = 0
    /\ traced = [i \in Items |-> -1]
    /\ session = 0
    /\ freed = [i \in Items |-> 0]
    /\ kept = {} /\ due = {} /\ dropped = {}

-----------------------------------------------------------------------------
\* Sending.  "fail" is what the network does with a send to a closed peer.

Send(s, entries, fail) ==
    LET sent == s.peer = "open" \/ (s.peer = "closed" /\ ~ fail)
    IN  [s EXCEPT !.wire = IF sent THEN @ \o entries ELSE @,
                  !.peer = IF @ = "open" THEN "open" ELSE "reset",
                  !.ok = sent]

\* CommitData: the buffer is emptied even when the send fails.
CommitMutant(s, fail) == [Send(s, s.buffer, fail) EXCEPT !.others = 0]
Commit(s, fail) == [Send(s, s.buffer, fail) EXCEPT !.buffer = <<>>, !.others = 0]

Pending(s) == Len(s.buffer) + s.others

CommitPending(s, fail) ==
    IF Pending(s) = 0 THEN [s EXCEPT !.ok = TRUE] ELSE Commit(s, fail)

\* AppendData: NeedDataSize may commit; the entry goes in whatever came of it.
NeedSpace(s, fail) ==
    IF Pending(s) = FrameItems THEN Commit(s, fail) ELSE [s EXCEPT !.ok = TRUE]

Put(s, entry, fail) == [NeedSpace(s, fail) EXCEPT !.buffer = Append(@, entry)]
PutOther(s, fail) == [NeedSpace(s, fail) EXCEPT !.others = @ + 1]

\* The payload, whose own result nobody looks at, and then the item.
PutItemMutant(s, i, fail) == Put(Put(s, <<"item", i>>, fail), <<"text", i>>, fail)
PutItem(s, i, fail) == Put(Put(s, <<"text", i>>, fail), <<"item", i>>, fail)

Free(set) == freed' = [i \in Items |-> IF i \in set THEN freed[i] + 1 ELSE freed[i]]

-----------------------------------------------------------------------------
\* The handshake.

Return == pc' = "returned" /\ finished' = TRUE

ExitBeforeAccept ==
    /\ pc = "accept" /\ shutdown /\ ~ noExit
    /\ Return
    /\ UNCHANGED <<program, mode, status, sock, io, inbox, queues, isConnected,
                   history>>

\* What is traced after the connection was lost is thrown away.
Discard ==
    /\ queue' = <<>> /\ serial' = swapped /\ swapped' = <<>>
    /\ dropped' = dropped \cup ToSet(queue) \cup ToSet(serial)

\* Accept waits ten milliseconds for a connection.
AcceptNone ==
    /\ pc \in {"accept", "refuse"} /\ ~ (shutdown /\ (pc = "refuse" \/ ~ noExit))
    /\ sock' = "null"
    /\ IF pc = "refuse" THEN Discard ELSE UNCHANGED <<queue, serial, swapped, dropped>>
    /\ UNCHANGED <<program, pc, mode, status, io, inbox, bulk, cursor, isConnected,
                   finished, freed, kept, due>>

Accept ==
    /\ pc = "accept" /\ ~ (shutdown /\ ~ noExit)
    /\ session < MaxSessions
    /\ sock' = "live"
    /\ session' = session + 1
    /\ io' = [io EXCEPT !.peer = "open", !.wire = <<>>]
    /\ inbox' = <<>>
    /\ pc' = "handshake"
    /\ UNCHANGED <<config, mode, status, queues, isConnected, finished, control,
                   tracer, history>>

\* No or wrong shibboleth, no or wrong protocol version: m_sock is destroyed
\* and keeps its value.
Reject ==
    /\ pc = "handshake"
    /\ sock' = "dangling"
    /\ io' = [io EXCEPT !.peer = "none"]
    /\ pc' = "accept"
    /\ UNCHANGED <<steady, mode, status, inbox, queues>>

\* The two messages are right.
Greet ==
    /\ pc = "handshake"
    /\ pc' = IF onDemand THEN "clear" ELSE "connect"
    /\ UNCHANGED <<steady, mode, status, sock, io, inbox, queues>>

\* ClearQueues: the payloads are freed, also those of the items a lost
\* connection left in m_serialDequeue.
ClearQueues ==
    /\ pc = "clear"
    /\ LET all == ToSet(queue) \cup ToSet(serial) \cup ToSet(swapped)
       IN  Free(all) /\ dropped' = dropped \cup all
    /\ queue' = <<>> /\ serial' = <<>> /\ swapped' = <<>>
    /\ pc' = "connect"
    /\ UNCHANGED <<program, mode, status, sock, io, inbox, bulk, cursor,
                   isConnected, finished, kept, due>>

\* The welcome; on demand, m_isConnected and then the deferred items.  The
\* send buffer is left as it is.
Connect(fail) ==
    /\ pc = "connect"
    /\ isConnected' = onDemand
    /\ io' = IF onDemand THEN PutOther(io, fail) ELSE io
    /\ mode' = "serve"
    /\ pc' = "dequeue"
    /\ UNCHANGED <<program, status, sock, inbox, queues, finished, history>>

-----------------------------------------------------------------------------
\* Dequeue and DequeueSerial, called from three loops.

DequeueNone ==
    /\ pc = "dequeue" /\ queue = <<>>
    /\ status' = "empty"
    /\ pc' = "serial"
    /\ UNCHANGED <<steady, mode, sock, io, inbox, queues>>

DequeueBulkMutant ==
    /\ pc = "dequeue" /\ queue # <<>>
    /\ LET n == IF Len(queue) < BulkSize THEN Len(queue) ELSE BulkSize
       IN  bulk' = SubSeq(queue, 1, n) /\ queue' = SubSeq(queue, n, Len(queue))
    /\ pc' = "feed"
    /\ UNCHANGED <<steady, mode, status, sock, io, inbox, serial, swapped, cursor>>
DequeueBulk ==
    /\ pc = "dequeue" /\ queue # <<>>
    /\ LET n == IF Len(queue) < BulkSize THEN Len(queue) ELSE BulkSize
       IN  bulk' = SubSeq(queue, 1, n) /\ queue' = SubSeq(queue, n + 1, Len(queue))
    /\ pc' = "feed"
    /\ UNCHANGED <<steady, mode, status, sock, io, inbox, serial, swapped, cursor>>

\* When the connection is lost the rest of the bulk is forgotten.  The last
\* loop calls Dequeue again until it does not succeed.
Feed(fail) ==
    /\ pc = "feed"
    /\ io' = PutItem(io, Head(bulk), fail)
    /\ Free({Head(bulk)})
    /\ bulk' = IF io'.ok THEN Tail(bulk) ELSE <<>>
    /\ IF bulk' # <<>>
         THEN UNCHANGED <<pc, status>>
         ELSE /\ status' = IF io'.ok THEN "success" ELSE "lost"
              /\ pc' = IF mode = "farewell" /\ io'.ok THEN "dequeue" ELSE "serial"
    /\ dropped' = IF io'.ok THEN dropped ELSE dropped \cup ToSet(bulk)
    /\ UNCHANGED <<program, mode, sock, inbox, queue, serial, swapped, cursor,
                   isConnected, finished, kept, due>>

\* What each loop does with the results of the two calls.
NextPc(serialStatus) ==
    LET results == {status, serialStatus}
    IN  CASE mode = "farewell" /\ serialStatus = "success" -> "serial"
          [] mode = "farewell" /\ serialStatus # "success" -> "farewellCommit"
          [] mode = "serve" /\ "lost" \in results -> "lost"
          [] mode = "flush" /\ "lost" \in results -> "terminate"
          [] mode # "farewell" /\ results = {"empty"} -> "idle"
          [] OTHER -> "queries"

\* DequeueSerial swaps the two vectors under the lock.
SerialNone ==
    /\ pc = "serial" /\ serial = <<>>
    /\ serial' = swapped /\ swapped' = <<>>
    /\ pc' = NextPc("empty")
    /\ UNCHANGED <<steady, mode, status, sock, io, inbox, queue, bulk, cursor>>

SerialSwap ==
    /\ pc = "serial" /\ serial # <<>>
    /\ serial' = swapped /\ swapped' = serial
    /\ cursor' = 1
    /\ pc' = "feedSerial"
    /\ UNCHANGED <<steady, mode, status, sock, io, inbox, queue, bulk>>

\* The vector is cleared at its end; when the connection is lost it is not.
FeedSerial(fail) ==
    /\ pc = "feedSerial"
    /\ io' = PutItem(io, swapped[cursor], fail)
    /\ Free({swapped[cursor]})
    /\ IF ~ io'.ok
         THEN kept' = kept \cup ToSet(swapped) /\ pc' = NextPc("lost") /\ UNCHANGED <<swapped, cursor>>
         ELSE /\ UNCHANGED kept
              /\ IF cursor < Len(swapped)
                   THEN cursor' = cursor + 1 /\ UNCHANGED <<pc, swapped>>
                   ELSE swapped' = <<>> /\ cursor' = 1 /\ pc' = NextPc("success")
    /\ UNCHANGED <<program, mode, status, sock, inbox, queue, bulk, serial,
                   isConnected, finished, due, dropped>>

\* Both queues are empty: the worker leaves the loop when it should exit, else
\* commits what is pending and now and then keeps the connection alive.
IdleExitMutant ==
    /\ pc = "idle" /\ mode = "serve" /\ shutdown
    /\ pc' = "terminate" /\ mode' = "flush"
    /\ UNCHANGED <<steady, status, sock, io, inbox, queues>>
IdleExit ==
    /\ pc = "idle" /\ mode = "serve" /\ shutdown
    /\ pc' = "dequeue" /\ mode' = "flush"
    /\ UNCHANGED <<steady, status, sock, io, inbox, queues>>

Idle(keepAlive, fail) ==
    /\ pc = "idle" /\ mode = "serve" /\ ~ shutdown
    /\ LET first == CommitPending(io, fail)
       IN  io' = IF first.ok /\ keepAlive
                   THEN Commit(PutOther(first, fail), fail) ELSE first
    /\ pc' = IF io'.ok THEN "queries" ELSE "lost"
    /\ UNCHANGED <<steady, mode, status, sock, inbox, queues>>

IdleFlush(fail) ==
    /\ pc = "idle" /\ mode = "flush"
    /\ io' = CommitPending(io, fail)
    /\ pc' = "terminate"
    /\ UNCHANGED <<steady, mode, status, sock, inbox, queues>>

-----------------------------------------------------------------------------
\* HandleServerQuery.  A closed connection has "data": its end.

HasData == inbox # <<>> \/ io.peer # "open"

\* A query that is not all there is waited for, however long it takes.
Truncated == inbox # <<>> /\ Head(inbox) = "partial" /\ io.peer # "open"

Answer(fail) ==
    /\ inbox # <<>> /\ Head(inbox) = "query"
    /\ inbox' = Tail(inbox)
    /\ io' = PutOther(io, fail)

\* Terminate, or nothing more to read: the call returns false.
NoAnswer ==
    \/ inbox # <<>> /\ Head(inbox) = "terminate" /\ inbox' = Tail(inbox)
    \/ (inbox = <<>> \/ Truncated) /\ io.peer # "open" /\ UNCHANGED inbox

Queries(fail) ==
    /\ pc = "queries"
    /\ \/ Answer(fail) /\ UNCHANGED pc
       \/ NoAnswer /\ pc' = "dequeue" /\ UNCHANGED io
       \/ ~ HasData /\ pc' = "dequeue" /\ UNCHANGED <<io, inbox>>
    /\ UNCHANGED <<steady, mode, status, sock, queues>>

-----------------------------------------------------------------------------
\* The end of a session.

LostMutant ==
    /\ pc = "lost"
    /\ IF shutdown
         THEN pc' = "dequeue" /\ mode' = "flush" /\ sock' = "dangling" /\ UNCHANGED <<io, isConnected>>
         ELSE /\ isConnected' = FALSE
              /\ sock' = "dangling"
              /\ io' = [io EXCEPT !.peer = "none"]
              /\ pc' = IF onDemand THEN "accept" ELSE "refuse"
              /\ UNCHANGED mode
    /\ UNCHANGED <<program, status, inbox, queues, finished, history>>
Lost ==
    /\ pc = "lost"
    /\ IF shutdown
         THEN pc' = "dequeue" /\ mode' = "flush" /\ UNCHANGED <<sock, io, isConnected>>
         ELSE /\ isConnected' = FALSE
              /\ sock' = "dangling"
              /\ io' = [io EXCEPT !.peer = "none"]
              /\ pc' = IF onDemand THEN "accept" ELSE "refuse"
              /\ UNCHANGED mode
    /\ UNCHANGED <<program, status, inbox, queues, finished, history>>

\* "Client is no longer available here".
ExitRefusingMutant ==
    /\ pc = "refuse" /\ shutdown /\ ~ noExit
    /\ Return
    /\ UNCHANGED <<program, mode, status, sock, io, inbox, queues, isConnected,
                   history>>
ExitRefusing ==
    /\ pc = "refuse" /\ shutdown
    /\ Return
    /\ UNCHANGED <<program, mode, status, sock, io, inbox, queues, isConnected,
                   history>>

AcceptToRefuseMutant ==
    /\ pc = "refuse" /\ ~ shutdown
    /\ session < MaxSessions
    /\ session' = session + 1
    /\ Discard
    /\ sock' = "live"
    /\ io' = [io EXCEPT !.peer = "open", !.wire = <<>>]
    /\ inbox' = <<>>
    /\ pc' = "handshake"
    /\ UNCHANGED <<config, mode, status, bulk, cursor, isConnected, finished,
                   control, tracer, freed, kept, due>>
AcceptToRefuse ==
    /\ pc = "refuse" /\ ~ shutdown
    /\ session < MaxSessions
    /\ session' = session + 1
    /\ Discard
    /\ sock' = "live"
    /\ io' = [io EXCEPT !.peer = "open", !.wire = <<>>]
    /\ inbox' = <<>>
    /\ pc' = "refuseHandshake"
    /\ UNCHANGED <<config, mode, status, bulk, cursor, isConnected, finished,
                   control, tracer, freed, kept, due>>

Refuse ==
    /\ pc = "refuseHandshake"
    /\ sock' = "dangling"
    /\ io' = [io EXCEPT !.peer = "none"]
    /\ pc' = "refuse"
    /\ UNCHANGED <<steady, mode, status, inbox, queues>>

\* The Terminate event goes out by itself.
Terminate(fail) ==
    /\ pc = "terminate"
    /\ io' = Send(io, <<Goodbye>>, fail)
    /\ IF io'.ok THEN pc' = "farewell" /\ UNCHANGED finished ELSE Return
    /\ UNCHANGED <<program, mode, status, sock, inbox, queues, isConnected,
                   history>>

\* The last loop: answer queries until the server terminates or goes away.
FarewellWait(fail) ==
    /\ pc = "farewell"
    /\ IF HasData THEN pc' = "farewellQueries" /\ UNCHANGED io
                  ELSE io' = CommitPending(io, fail) /\ UNCHANGED pc
    /\ UNCHANGED <<steady, mode, status, sock, inbox, queues>>

FarewellQueries(fail) ==
    /\ pc = "farewellQueries"
    /\ \/ Answer(fail) /\ UNCHANGED <<pc, mode, finished>>
       \/ NoAnswer /\ io' = CommitPending(io, fail) /\ Return /\ UNCHANGED mode
       \/ ~ HasData /\ pc' = "dequeue" /\ mode' = "farewell" /\ UNCHANGED <<io, inbox, finished>>
    /\ UNCHANGED <<program, status, sock, queues, isConnected, history>>

FarewellCommit(fail) ==
    /\ pc = "farewellCommit"
    /\ io' = CommitPending(io, fail)
    /\ IF io'.ok THEN pc' = "farewell" /\ UNCHANGED finished ELSE Return
    /\ UNCHANGED <<program, mode, status, sock, inbox, queues, isConnected,
                   history>>

-----------------------------------------------------------------------------
\* The server, once welcomed.

Welcomed == pc \notin {"accept", "handshake", "clear", "connect", "refuse", "refuseHandshake", "returned"}

ServerSends(query) ==
    /\ io.peer = "open" /\ Welcomed
    /\ inbox = <<>> \/ (inbox = <<"partial">> /\ query = "query")
    /\ inbox' = <<query>>
    /\ UNCHANGED <<steady, pc, mode, status, sock, io, queues>>

ServerCloses ==
    /\ io.peer = "open"
    /\ io' = [io EXCEPT !.peer = "closed"]
    /\ UNCHANGED <<steady, pc, mode, status, sock, inbox, queues>>

-----------------------------------------------------------------------------
\* The traced program.

Untraced == { i \in Items : traced[i] = -1 }

\* On demand, m_isConnected is read first; the item is queued later.
Trace ==
    /\ tracing = 0 /\ Untraced # {} /\ ~ destroyed
    /\ onDemand => isConnected
    /\ tracing' = CHOOSE i \in Untraced : \A j \in Untraced : i <= j
    /\ traced' = [traced EXCEPT ![tracing'] = IF onDemand THEN session ELSE 0]
    /\ UNCHANGED <<config, pc, mode, status, sock, io, inbox, queues, isConnected,
                   finished, control, session, history>>

Enqueue ==
    /\ tracing # 0
    /\ \/ queue' = Append(queue, tracing) /\ UNCHANGED serial
       \/ serial' = Append(serial, tracing) /\ UNCHANGED queue
    /\ tracing' = 0
    /\ UNCHANGED <<config, pc, mode, status, sock, io, inbox, bulk, swapped,
                   cursor, isConnected, finished, control, traced, session,
                   history>>

NoteDue == due' = IF shutdown THEN due ELSE { i \in Items : traced[i] # -1 /\ i # tracing }

RequestShutdown ==
    /\ ~ shutdown
    /\ shutdown' = TRUE
    /\ NoteDue
    /\ UNCHANGED <<config, pc, mode, status, sock, io, inbox, queues, isConnected,
                   finished, exiting, destroyed, tracer, session, freed, kept,
                   dropped>>

\* The destructor asks too, waits for the thread and frees what is left.
BeginExit ==
    /\ ~ exiting
    /\ exiting' = TRUE /\ shutdown' = TRUE
    /\ NoteDue
    /\ UNCHANGED <<config, pc, mode, status, sock, io, inbox, queues, isConnected,
                   finished, destroyed, tracer, session, freed, kept, dropped>>

Destroy ==
    /\ exiting /\ ~ destroyed /\ pc = "returned"
    /\ destroyed' = TRUE
    /\ sock' = CASE sock = "dangling" -> "destroyedTwice" [] OTHER -> "null"
    /\ UNCHANGED <<config, pc, mode, status, io, inbox, queues, isConnected,
                   finished, shutdown, exiting, tracer, session, history>>

-----------------------------------------------------------------------------
Worker ==
    \/ ExitBeforeAccept \/ AcceptNone \/ Accept \/ Reject \/ Greet \/ ClearQueues
    \/ DequeueNone \/ DequeueBulk \/ SerialNone \/ SerialSwap \/ IdleExit
    \/ Lost \/ ExitRefusing \/ AcceptToRefuse \/ Refuse
    \/ \E fail \in BOOLEAN :
         \/ Connect(fail) \/ Feed(fail) \/ FeedSerial(fail) \/ IdleFlush(fail)
         \/ Queries(fail) \/ Terminate(fail) \/ FarewellWait(fail)
         \/ FarewellQueries(fail) \/ FarewellCommit(fail)
         \/ \E keepAlive \in BOOLEAN : Idle(keepAlive, fail)

Server == ServerCloses \/ \E query \in {"query", "terminate", "partial"} : ServerSends(query)

Program == Trace \/ Enqueue \/ RequestShutdown \/ BeginExit \/ Destroy

\* The process ends when the destructor has.
Next == Worker \/ Server \/ Program

Spec == Init /\ [][Next]_vars

\* The operating system schedules the worker; nobody else owes it anything.
FairSpec == Spec /\ WF_vars(Worker)

-----------------------------------------------------------------------------
OnWire(kind, i) == { k \in DOMAIN io.wire : io.wire[k] = <<kind, i>> }

(* Whatever path led there, the worker sends, reads and polls only on a    *)
(* socket it has not destroyed, and a worker that said Terminate leaves a  *)
(* live one to the destructor (TracyProfiler.cpp:943-962, 1047, 1098-1115  *)
(* leave m_sock dangling until the next Accept).                           *)
SocketUsable ==
    /\ pc \notin {"accept", "refuse", "returned"} => sock = "live"
    /\ sock = "destroyedTwice" => Goodbye \notin ToSet(io.wire)

(* A payload is freed twice only when its item was in m_serialDequeue as a *)
(* connection was lost there, and never one of the concurrent queue        *)
(* (TracyProfiler.cpp:1349 returns without the clear of line 1352).        *)
FreedOnceUnlessKept == \A i \in Items : freed[i] <= 1 \/ i \in kept

(* The server gets every item of its own session at most once, even of     *)
(* those processed twice, and after the item's payload, though the result  *)
(* of the call that sends the payload is ignored                           *)
(* (TracyProfiler.cpp:1265-1288, 1341-1349, 1406).                         *)
SentOnceAfterPayload ==
    \A i \in Items :
        /\ Cardinality(OnWire("item", i)) <= 1
        /\ (onDemand => traced[i] = session) =>
             \A k \in OnWire("item", i) : \E j \in OnWire("text", i) : j < k

(* "finish sending data from a dying process" (NEWS:115): a server that is *)
(* told Terminate has been sent every item that had been queued in its     *)
(* session when the shutdown was requested, except those cleared as it     *)
(* connected.                                                              *)
FlushedBeforeTerminate ==
    Goodbye \in ToSet(io.wire) =>
        \A i \in due \ dropped : (onDemand => traced[i] = session) => OnWire("item", i) # {}

(* "Client not in on-demand mode will refuse connections after the first"  *)
(* (NEWS:131-132): once it was lost, no later connection gets any data.    *)
OnlyFirstSessionServed ==
    [][~ onDemand /\ pc \in {"refuse", "refuseHandshake"} =>
          pc' \in {"refuse", "refuseHandshake", "returned"} /\ io'.wire \in {io.wire, <<>>}]_vars

\* What the worker may wait for without end: a connection, when told not to
\* exit without one; an open one whose server says nothing, or only part of a
\* query.
AwaitsServer ==
    \/ noExit /\ pc = "accept"
    \/ io.peer = "open" /\ (pc = "farewell" \/ inbox = <<"partial">>)

(* Once shutdown is requested and the server no longer sends one query     *)
(* after the other, the worker returns or waits for the server: nothing in *)
(* the program itself, and no closed connection, keeps it.                 *)
ShutdownEnds ==
    <>[](inbox \in {<<>>, <<"partial">>}) => (shutdown ~> finished \/ AwaitsServer)

(* "tracing will not begin until a connection to server is established"    *)
(* (NEWS:22-23): on demand, a server gets only items traced since it       *)
(* connected.                                                              *)
NothingBeforeConnection ==
    onDemand => \A i \in Items : OnWire("item", i) # {} => traced[i] = session
=============================================================================
