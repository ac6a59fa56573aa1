------------------------------ MODULE FrameLoop ------------------------------
(***************************************************************************)
(* The frame loop of main (src/main.cpp) with cullChunk and drawChunkOpaque *)
(* (src/chunk.cpp): the two toggles, the OpenGL state that the compute pass *)
(* and the draw pass share, and which culling result each draw uses.       *)
(*                                                                         *)
(* A frame's camera is identified with the number of the frame.  args[c]   *)
(* is the camera of the dispatch whose result (draw arguments and culled   *)
(* indices of chunk c) a draw reads, 0 while both buffers are undefined.   *)
(* The code issues no glMemoryBarrier, so a dispatch's result lands at any *)
(* moment up to the swap of its frame; that it lands by then is the one    *)
(* assumption made about the driver.  What one dispatch computes is the    *)
(* subject of CullShader.                                                  *)
(***************************************************************************)
EXTENDS Integers

CONSTANTS
    ChunkCount,  \* main creates 16
    MaxFrames    \* bound on the frames explored

ASSUME FrameAssumption == ChunkCount \in Nat \ {0} /\ MaxFrames \in Nat

Chunks == 1..ChunkCount
NoResult == 0
Frames == 1..MaxFrames

VARIABLES
    phase,       \* where main's loop is
    at,          \* the chunk the current pass is at
    frame,       \* frames begun; also the current camera
    filtering,   \* s_triangleFilteringEnabled
    frozen,      \* s_freezeCulling
    program,     \* the program glUseProgram selected
    matrix,      \* the view-projection matrix each program holds
    vao,         \* the chunk whose vertex array is bound
    element,     \* the element buffer of each chunk's vertex array
    indirect,    \* the chunk whose draw arguments are bound, 0 for none yet
    args,        \* the landed culling result of each chunk
    inFlight,    \* the dispatch of this frame that has not landed, or 0
    drawn,       \* history: what each draw of this frame used
    lastCull,    \* history: the last frame that culled, or 0
    priorCull    \* history: the one before it, or 0

gl == <<program, matrix, vao, element, indirect>>
history == <<lastCull, priorCull>>
loopVars == <<phase, at, frame, filtering, frozen, gl, args, inFlight, drawn, history>>

NotDrawn == [program |-> "none", matrix |-> 0, element |-> "none",
             source |-> 0, args |-> 0]

DrawRecords == [program : {"none", "cull", "draw"}, matrix : 0..MaxFrames,
                element : {"none", "full", "culled", "transparent"},
                source : 0..ChunkCount, args : 0..MaxFrames]

LoopTypeOK ==
    /\ phase \in {"poll", "cull", "clear", "draw", "present", "exit"}
    /\ at \in 1..(ChunkCount + 1)
    /\ frame \in 0..MaxFrames
    /\ filtering \in BOOLEAN
    /\ frozen \in BOOLEAN
    /\ program \in {"none", "cull", "draw"}
    /\ matrix \in [{"cull", "draw"} -> 0..MaxFrames]
    /\ vao \in 0..ChunkCount
    /\ element \in [Chunks -> {"full", "culled", "transparent"}]
    /\ indirect \in 0..ChunkCount
    /\ args \in [Chunks -> 0..MaxFrames]
    /\ inFlight \in [Chunks -> 0..MaxFrames]
    /\ drawn \in [Chunks -> DrawRecords]
    /\ lastCull \in 0..MaxFrames
    /\ priorCull \in 0..MaxFrames

\* initVisualChunk leaves each vertex array with the last element buffer it
\* bound there and the draw arguments undefined.
InitLoop ==
    /\ phase = "poll"
    /\ at = 1
    /\ frame = 0
    /\ filtering = TRUE
    /\ frozen = FALSE
    /\ program = "none"
    /\ matrix = [p \in {"cull", "draw"} |-> 0]
    /\ vao = ChunkCount
    /\ element = [c \in Chunks |-> "transparent"]
    /\ indirect = 0
    /\ args = [c \in Chunks |-> NoResult]
    /\ inFlight = [c \in Chunks |-> 0]
    /\ drawn = [c \in Chunks |-> NotDrawn]
    /\ lastCull = 0
    /\ priorCull = 0

\* cullChunk's test of the two flags.
CullsMutant(isFiltering, isFrozen) == isFiltering
Culls(isFiltering, isFrozen) == isFiltering /\ ~ isFrozen

\* The next frame: the keys toggle the flags, the joysticks move the camera.
BeginFrame(keyA, keyB) ==
    /\ phase = "poll"
    /\ frame < MaxFrames
    /\ frame' = frame + 1
    /\ filtering' = (filtering # keyA)
    /\ frozen' = (frozen # keyB)
    /\ phase' = "cull"
    /\ at' = 1
    /\ drawn' = [c \in Chunks |-> NotDrawn]
    /\ IF Culls(filtering', frozen')
         THEN lastCull' = frame' /\ priorCull' = lastCull
         ELSE UNCHANGED history
    /\ UNCHANGED <<gl, args, inFlight>>

\* KEY_PLUS, or appletMainLoop returned false: the same poll's A and B are lost.
Quit ==
    /\ phase = "poll"
    /\ phase' = "exit"
    /\ UNCHANGED <<at, frame, filtering, frozen, gl, args, inFlight, drawn, history>>

\* The loop over the chunks goes on, or the next phase begins.
AdvanceMutant(last) == IF at > ChunkCount THEN phase' = last /\ at' = 1
                                          ELSE phase' = phase /\ at' = at + 1
Advance(last) == IF at = ChunkCount THEN phase' = last /\ at' = 1
                                    ELSE phase' = phase /\ at' = at + 1

\* cullChunk on the chunk the loop is at.
CullMutant ==
    /\ phase = "cull"
    /\ IF Culls(filtering, frozen)
         THEN /\ program' = "cull"
              /\ inFlight' = [inFlight EXCEPT ![at] = matrix["cull"]]
              /\ matrix' = [matrix EXCEPT !["cull"] = frame]
         ELSE UNCHANGED <<program, matrix, inFlight>>
    /\ Advance("clear")
    /\ UNCHANGED <<frame, filtering, frozen, vao, element, indirect, args, drawn, history>>
Cull ==
    /\ phase = "cull"
    /\ IF Culls(filtering, frozen)
         THEN /\ program' = "cull"
              /\ matrix' = [matrix EXCEPT !["cull"] = frame]
              /\ inFlight' = [inFlight EXCEPT ![at] = matrix'["cull"]]
         ELSE UNCHANGED <<program, matrix, inFlight>>
    /\ Advance("clear")
    /\ UNCHANGED <<frame, filtering, frozen, vao, element, indirect, args, drawn, history>>

\* A dispatch's writes become visible.
Land(c) ==
    /\ inFlight[c] # 0
    /\ args' = [args EXCEPT ![c] = inFlight[c]]
    /\ inFlight' = [inFlight EXCEPT ![c] = 0]
    /\ UNCHANGED <<phase, at, frame, filtering, frozen, gl, drawn, history>>

\* glClear, then the draw program and its matrix.
ClearMutant ==
    /\ phase = "clear"
    /\ matrix' = [matrix EXCEPT !["draw"] = frame]
    /\ phase' = "draw"
    /\ UNCHANGED <<at, frame, filtering, frozen, program, vao, element, indirect,
                   args, inFlight, drawn, history>>
Clear ==
    /\ phase = "clear"
    /\ program' = "draw"
    /\ matrix' = [matrix EXCEPT !["draw"] = frame]
    /\ phase' = "draw"
    /\ UNCHANGED <<at, frame, filtering, frozen, vao, element, indirect,
                   args, inFlight, drawn, history>>

\* drawChunkOpaque on the chunk the loop is at: bind, then draw with whatever
\* is bound.
Draw ==
    /\ phase = "draw"
    /\ vao' = at
    /\ element' = [element EXCEPT ![vao'] = IF filtering THEN "culled" ELSE "full"]
    /\ indirect' = IF filtering THEN at ELSE indirect
    /\ drawn' = [drawn EXCEPT ![at] =
         [program |-> program,
          matrix  |-> IF program = "none" THEN 0 ELSE matrix[program],
          element |-> element'[vao'],
          source  |-> IF filtering THEN indirect' ELSE 0,
          args    |-> IF filtering THEN args[indirect'] ELSE 0]]
    /\ Advance("present")
    /\ UNCHANGED <<frame, filtering, frozen, program, matrix, args, inFlight, history>>

\* Render and Present: by the swap every dispatch of the frame has landed.
Present ==
    /\ phase = "present"
    /\ args' = [c \in Chunks |-> IF inFlight[c] # 0 THEN inFlight[c] ELSE args[c]]
    /\ inFlight' = [c \in Chunks |-> 0]
    /\ phase' = "poll"
    /\ UNCHANGED <<at, frame, filtering, frozen, gl, drawn, history>>

LoopNext == \/ \E keyA, keyB \in BOOLEAN : BeginFrame(keyA, keyB)
        \/ Quit
        \/ Cull
        \/ \E c \in Chunks : Land(c)
        \/ Clear
        \/ Draw
        \/ Present

LoopSpec == InitLoop /\ [][LoopNext]_loopVars

-----------------------------------------------------------------------------
Drawn(c) == drawn[c] # NotDrawn

(* Every draw runs the draw program with this frame's camera, though the   *)
(* culling pass of the same frame switched programs (chunk.cpp:245), and   *)
(* pairs its chunk's own index buffer with its own arguments; the toggles  *)
(* never leave one behind (chunk.cpp:267-278).                             *)
DrawsPaired ==
    \A c \in Chunks : Drawn(c) =>
        /\ drawn[c].program = "draw"
        /\ drawn[c].matrix = frame
        /\ drawn[c].element = IF filtering THEN "culled" ELSE "full"
        /\ filtering => drawn[c].source = c

(* A frame that culls draws each chunk with its own result or, when that   *)
(* has not landed, with the result of the last culling frame before it:    *)
(* without a barrier a draw is at most one culling late (chunk.cpp:261).   *)
CullingAtMostOneLate ==
    \A c \in Chunks : Drawn(c) /\ Culls(filtering, frozen) =>
        drawn[c].args \in {lastCull, priorCull} /\ lastCull = frame

(* A frozen frame draws all chunks with the culling result of one and the  *)
(* same frame, the last that culled, whatever was toggled since; they are  *)
(* undefined exactly when no frame culled yet (chunk.cpp:243, 273).        *)
FrozenTogether ==
    filtering /\ frozen => \A c \in Chunks : Drawn(c) => drawn[c].args = lastCull

(* Between two frames every chunk holds the result of the last frame that  *)
(* culled: no toggle leaves some chunks culled and others not.             *)
AllChunksSameCull ==
    phase = "poll" => \A c \in Chunks : args[c] = lastCull /\ inFlight[c] = 0

(* Culling results only move forward: no chunk goes back to the result of  *)
(* an earlier camera or becomes undefined again.                           *)
CullForward == [][\A c \in Chunks : args'[c] >= args[c]]_loopVars
=============================================================================
