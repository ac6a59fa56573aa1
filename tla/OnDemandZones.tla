---------------------------- MODULE OnDemandZones ----------------------------
(***************************************************************************)
(* What one thread of an on-demand build traces outside of locks: scoped   *)
(* zones (tracy/client/TracyScoped.hpp), Lua zones (tracy/TracyLua.hpp),   *)
(* frames, and plots and messages (tracy/client/TracyProfiler.hpp).  Each  *)
(* loads m_isConnected and queues its item afterwards, and a scoped zone   *)
(* keeps what it has loaded until it ends, whatever sessions come between. *)
(* Threads share none of this but m_frameCount, so one of them is enough.  *)
(***************************************************************************)
EXTENDS Session, Integers, SequencesExt

CONSTANTS MaxZones, MaxFrames  \* bounds: zones open at a time of a kind, frames

VARIABLES
    at,         \* where the thread is
    open,       \* m_active of the scoped zones open, innermost last
    counter, active,  \* s_luaZoneState
    depth,      \* begins less ends queued since the clearing, and owed then
    lonely,     \* history: a text has been queued outside of every zone
    frameCount, \* m_frameCount
    marks,      \* frames queued since the clearing
    frames      \* what the payload told the server

zones == <<open, counter, active, depth, lonely>>
counted == <<frameCount, marks, frames>>
vars == <<session, at, zones, counted>>

Init ==
    /\ InitSession
    /\ at = "out" /\ open = <<>> /\ counter = 0 /\ active = FALSE
    /\ depth = 0 /\ lonely = FALSE
    /\ frameCount = 0 /\ marks = 0 /\ frames = 0

Step(from, to) == at = from /\ at' = to
If(condition, n) == IF condition THEN n ELSE 0

-----------------------------------------------------------------------------
\* The worker's side.

\* The ends still to come of zones whose begin has been queued.
Owed ==
    Cardinality({ i \in DOMAIN open : open[i] }) - If(at \in {"begin", "begin stack"}, 1)
      + If(active, counter - If(at = "lua begin", 1)) + If(at = "lua end", 1)

Clear(t) ==
    /\ ClearQueue(t)
    /\ depth' = Owed /\ marks' = 0
    /\ UNCHANGED <<at, open, counter, active, lonely, frameCount, frames>>

Payload ==
    /\ Welcome
    /\ frames' = frameCount
    /\ UNCHANGED <<at, zones, frameCount, marks>>

Worker ==
    \/ (Accept \/ Connect \/ Disconnect) /\ UNCHANGED <<at, zones, counted>>
    \/ Payload
    \/ \E t \in Threads : Clear(t)

-----------------------------------------------------------------------------
\* Scoped zones.

ZoneBegin ==
    /\ Len(open) < MaxZones
    /\ \E callstack \in BOOLEAN :
         Step("out", IF ~ isConnected THEN "out" ELSE IF callstack THEN "begin stack" ELSE "begin")
    /\ open' = Append(open, isConnected)
    /\ UNCHANGED <<counter, active, depth, lonely>>

QueueBegin ==
    /\ Step("begin", "out") \/ Step("begin stack", "stack")
    /\ depth' = depth + 1
    /\ UNCHANGED <<open, counter, active, lonely>>

QueueCallstack == Step("stack", "out") /\ UNCHANGED zones

\* Without a look at the connection: what has begun ends.
ZoneEnd ==
    /\ open # <<>> /\ Step("out", "out")
    /\ open' = Front(open)
    /\ depth' = depth - If(Last(open), 1)
    /\ UNCHANGED <<counter, active, lonely>>

\* Text and Name, of any zone that is open.
ZoneText ==
    /\ Step("out", "out")
    /\ \E i \in DOMAIN open : open[i]
    /\ lonely' = (lonely \/ depth = 0)
    /\ UNCHANGED <<open, counter, active, depth>>

-----------------------------------------------------------------------------
\* Lua zones: the thread is traced from an outermost zone on.

TracedMutant == TRUE
Traced == counter = 0 \/ active
LuaZoneBegin ==
    /\ counter < MaxZones
    /\ Step("out", IF Traced /\ isConnected THEN "lua begin" ELSE "out")
    /\ active' = (Traced /\ isConnected)
    /\ counter' = counter + 1
    /\ UNCHANGED <<open, depth, lonely>>

LuaQueueBegin ==
    /\ Step("lua begin", "out")
    /\ depth' = depth + 1
    /\ UNCHANGED <<open, counter, active, lonely>>

LuaZoneEnd ==
    /\ counter > 0
    /\ Step("out", IF active /\ isConnected THEN "lua end" ELSE "out")
    /\ active' = (active /\ isConnected)
    /\ counter' = counter - 1
    /\ UNCHANGED <<open, depth, lonely>>

LuaQueueEnd ==
    /\ Step("lua end", "out")
    /\ depth' = depth - 1
    /\ UNCHANGED <<open, counter, active, lonely>>

\* Inside a Lua zone, where it belongs.
LuaZoneText ==
    /\ counter > 0
    /\ Step("out", IF active /\ isConnected THEN "lua text" ELSE "out")
    /\ active' = (active /\ isConnected)
    /\ UNCHANGED <<open, counter, depth, lonely>>

LuaQueueText ==
    /\ Step("lua text", "out")
    /\ lonely' = (lonely \/ depth = 0)
    /\ UNCHANGED <<open, counter, active, depth>>

-----------------------------------------------------------------------------
\* Frames, and the events that change nothing else.

FrameMarkMutant ==
    \/ Step("out", IF isConnected THEN "frame" ELSE "count") /\ frameCount < MaxFrames
         /\ UNCHANGED <<frameCount, marks>>
    \/ Step("count", "out") /\ frameCount' = frameCount + 1 /\ UNCHANGED marks
    \/ Step("frame", "out") /\ frameCount' = frameCount + 1 /\ marks' = marks + 1
FrameMark ==
    \/ Step("out", "frame load") /\ frameCount < MaxFrames
         /\ frameCount' = frameCount + 1 /\ UNCHANGED marks
    \/ Step("frame load", IF isConnected THEN "frame" ELSE "out") /\ UNCHANGED <<frameCount, marks>>
    \/ Step("frame", "out") /\ marks' = marks + 1 /\ UNCHANGED frameCount

PlotOrMessage ==
    \/ Step("out", IF isConnected THEN "event" ELSE "out")
    \/ Step("event", "out")

Thread ==
    \/ /\ \/ ZoneBegin \/ QueueBegin \/ QueueCallstack \/ ZoneEnd \/ ZoneText
          \/ LuaZoneBegin \/ LuaQueueBegin \/ LuaZoneEnd \/ LuaQueueEnd
          \/ LuaZoneText \/ LuaQueueText
       /\ UNCHANGED <<session, counted>>
    \/ FrameMark /\ UNCHANGED <<session, zones, frames>>
    \/ PlotOrMessage /\ UNCHANGED <<session, zones, counted>>

Next == Worker \/ Thread

Spec == Init /\ [][Next]_vars

-----------------------------------------------------------------------------
(* The server of a session sees as many ends as there were begins, those   *)
(* that are owed from before the session included, and a text only within  *)
(* a zone, however zones and sessions overlap (TracyScoped.hpp:20-107,     *)
(* TracyLua.hpp:128-324).                                                  *)
ZonesBalanced == depth >= 0 /\ ~ lonely

(* No frame is missing from what the server of a session can count: the    *)
(* frames of the payload and those marked since make up m_frameCount, but  *)
(* for one that is being marked (TracyProfiler.hpp:135-149,                *)
(* TracyProfiler.cpp:968-982).                                             *)
FramesNotMissed ==
    worker = "serve" =>
        frames + marks + If(at \in {"frame load", "frame"}, 1) >= frameCount
=============================================================================
