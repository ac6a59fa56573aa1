-------------------------- MODULE MCInstrumentation --------------------------
(* What an on-demand build traces across connections: a lock used by two   *)
(* threads, the zones and frames of one, and the queries of an OpenGL and  *)
(* of a Vulkan context, each against the worker's sessions.  Only one of   *)
(* the four is used in a behaviour; the others stay as they begin, so what *)
(* they have in common they share.  Nine queries go twice round a ring of  *)
(* four, and two sessions make one start in what another left.             *)
EXTENDS OnDemandLocks, SequencesExt

CONSTANTS Tracer, MaxZones, MaxFrames, QueryCount, MaxScopes, MaxQueries

ASSUME QueriesAssumption == QueryCount \in Nat \ {0}

VARIABLES part, place,
          open, counter, depth, lonely, frameCount, marks, frames,
          head, tail, query, issued, finished, next, start, end,
          oldCnt, pool, commands, wrong

Zone == INSTANCE OnDemandZones WITH Threads <- {Tracer}, at <- place
Gl == INSTANCE GlContext WITH Threads <- {Tracer}, at <- place
Vk == INSTANCE VkContext WITH Threads <- {Tracer}

traced == <<open, counter, depth, lonely, frameCount, marks, frames>>
ringed == <<head, tail, issued, next>>
glOnly == <<query, finished, start, end>>
vkOnly == <<oldCnt, pool, commands, wrong>>
locked == <<announcing, lockCount, holders, exclusive, thread, at, balance, settled, contended>>
all == <<part, vars, place, traced, ringed, glOnly, vkOnly>>

MCInit ==
    /\ part \in {"lock", "zone", "gl", "vk"}
    /\ Init /\ Zone!Init /\ Gl!Init /\ Vk!Init

Others == <<counter, depth, lonely, frameCount, marks, frames>>

LockStep == part = "lock" /\ Next /\ UNCHANGED <<part, place, traced, ringed, glOnly, vkOnly>>
ZoneStep == part = "zone" /\ Zone!Next /\ UNCHANGED <<part, locked, ringed, glOnly, vkOnly>>
GlStep == part = "gl" /\ Gl!Next /\ UNCHANGED <<part, locked, active, Others, vkOnly>>
VkStep == part = "vk" /\ Vk!Next /\ UNCHANGED <<part, locked, active, place, Others, glOnly>>

MCNext == LockStep \/ ZoneStep \/ GlStep \/ VkStep
MCSpec == MCInit /\ [][MCNext]_all

(* A zone's end and its text are traced only with its begin                *)
(* (TracyScoped.hpp:18-123, TracyLua.hpp:128-324).                         *)
ZonesBalanced == Zone!ZonesBalanced

(* The server of a session can account for every frame                     *)
(* (TracyProfiler.hpp:135-149, TracyProfiler.cpp:968-982).                 *)
FramesNotMissed == Zone!FramesNotMissed

(* A context sends the times of its queries once and in order: with OpenGL *)
(* of finished ones only, with Vulkan each its own, but for places that    *)
(* the GPU has yet to reset (TracyOpenGL.hpp:99-160, TracyVulkan.hpp:135-  *)
(* 195).                                                                   *)
TimesInOrder == (part = "gl" => Gl!GlTimesInOrder) /\ Vk!VkTimesInOrder
=============================================================================
