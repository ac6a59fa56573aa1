----------------------------- MODULE GameProofs -----------------------------
(***************************************************************************)
(* Theorems about FrameLoop, for every number of chunks and frames: which  *)
(* program, camera, buffers and culling result each draw uses.  And about  *)
(* Game: how the loop and main's two ends fit together, and that whatever  *)
(* fails, main releases what it acquired once and in time.                 *)
(*                                                                         *)
(* And about the mesh of a chunk of any size at any place that int32_t     *)
(* holds: the vertices of each quad, which quads there are, and which the  *)
(* culling keeps.                                                          *)
(*                                                                         *)
(* And about CullShader, for every size of chunk, group and word: what the *)
(* race between the reset of the count and the other invocations'          *)
(* atomicAdds can never damage.                                            *)
(***************************************************************************)
EXTENDS MCGame, FiniteSetTheorems, TLAPS

-----------------------------------------------------------------------------
\* The frame loop.

InFrame == phase \in {"cull", "clear", "draw", "present"}

\* The culling pass has passed this chunk in the current frame.
Passed(c) == phase \in {"clear", "draw", "present"} \/ (phase = "cull" /\ c < at)

\* What a chunk holds before its dispatch, while it is in flight and after.
CullState(c) ==
    IF InFrame /\ Culls(filtering, frozen)
      THEN IF Passed(c)
             THEN \/ inFlight[c] = frame /\ args[c] = priorCull
                  \/ inFlight[c] = 0 /\ args[c] = lastCull
             ELSE inFlight[c] = 0 /\ args[c] = priorCull
      ELSE inFlight[c] = 0 /\ args[c] = lastCull

Control ==
    /\ phase \in {"cull", "clear", "draw"} => at \in Chunks
    /\ InFrame => frame > 0
    /\ InFrame /\ Culls(filtering, frozen) => lastCull = frame
    /\ priorCull <= lastCull
    /\ lastCull <= frame
    /\ phase \in {"draw", "present"} => program = "draw" /\ matrix["draw"] = frame
    /\ phase \in {"cull", "clear"} => \A c \in Chunks : ~ Drawn(c)

DrawnState(c) ==
    Drawn(c) => /\ drawn[c].program = "draw"
                /\ drawn[c].matrix = frame
                /\ drawn[c].element = IF filtering THEN "culled" ELSE "full"
                /\ filtering => drawn[c].source = c
                /\ filtering /\ ~ frozen => drawn[c].args \in {lastCull, priorCull}
                /\ filtering /\ ~ frozen => lastCull = frame
                /\ filtering /\ frozen => drawn[c].args = lastCull

IInv ==
    /\ LoopTypeOK
    /\ Control
    /\ \A c \in Chunks : CullState(c)
    /\ \A c \in Chunks : DrawnState(c)

LEMMA NotDrawnType == NotDrawn \in DrawRecords
BY FrameAssumption DEF NotDrawn, DrawRecords

LEMMA InvInit == InitLoop => IInv
<1> SUFFICES ASSUME InitLoop
             PROVE  IInv
  OBVIOUS
<1> USE FrameAssumption
<1>1. LoopTypeOK
  <2>1. drawn \in [Chunks -> DrawRecords]
    BY NotDrawnType DEF InitLoop
  <2>2. matrix \in [{"cull", "draw"} -> 0..MaxFrames]
    BY DEF InitLoop
  <2>3. args \in [Chunks -> 0..MaxFrames] /\ inFlight \in [Chunks -> 0..MaxFrames]
    BY DEF InitLoop, NoResult
  <2>4. element \in [Chunks -> {"full", "culled", "transparent"}]
    BY DEF InitLoop
  <2>5. /\ frame \in 0..MaxFrames /\ lastCull \in 0..MaxFrames /\ priorCull \in 0..MaxFrames
        /\ at \in 1..(ChunkCount + 1) /\ vao \in 0..ChunkCount /\ indirect \in 0..ChunkCount
    BY DEF InitLoop
  <2> QED
    BY <2>1, <2>2, <2>3, <2>4, <2>5 DEF InitLoop, LoopTypeOK
<1>2. Control
  BY DEF InitLoop, Control, InFrame, Drawn
<1>3. \A c \in Chunks : CullState(c)
  BY DEF InitLoop, CullState, InFrame, NoResult
<1>4. \A c \in Chunks : DrawnState(c)
  BY DEF InitLoop, DrawnState, Drawn
<1> QED
  BY <1>1, <1>2, <1>3, <1>4 DEF IInv

LEMMA BeginFrameStep ==
    ASSUME NEW keyA \in BOOLEAN, NEW keyB \in BOOLEAN, IInv, BeginFrame(keyA, keyB)
    PROVE  IInv'
<1> USE FrameAssumption
<1>1. LoopTypeOK'
  <2>1. drawn' \in [Chunks -> DrawRecords]
    BY NotDrawnType DEF BeginFrame
  <2>2. frame' \in 0..MaxFrames /\ lastCull' \in 0..MaxFrames /\ priorCull' \in 0..MaxFrames
    BY DEF IInv, LoopTypeOK, BeginFrame, history
  <2>3. at' \in 1..(ChunkCount + 1) /\ filtering' \in BOOLEAN /\ frozen' \in BOOLEAN
    BY DEF IInv, LoopTypeOK, BeginFrame
  <2> QED
    BY <2>1, <2>2, <2>3 DEF IInv, LoopTypeOK, BeginFrame, gl
<1>2. /\ phase' = "cull" /\ at' = 1 /\ frame' = frame + 1 /\ frame \in Nat
      /\ \A c \in Chunks : drawn'[c] = NotDrawn
      /\ 1 \in Chunks
  BY DEF IInv, LoopTypeOK, BeginFrame, Chunks
<1>3. Control'
  BY <1>2 DEF IInv, LoopTypeOK, Control, BeginFrame, InFrame, history, Drawn
<1>4. \A c \in Chunks : CullState(c)'
  BY <1>2 DEF IInv, LoopTypeOK, CullState, BeginFrame, InFrame, Passed, history, Chunks
<1>5. \A c \in Chunks : DrawnState(c)'
  BY <1>2 DEF DrawnState, Drawn
<1> QED
  BY <1>1, <1>3, <1>4, <1>5 DEF IInv

LEMMA QuitStep == IInv /\ Quit => IInv'
<1> SUFFICES ASSUME IInv, Quit
             PROVE  IInv'
  OBVIOUS
<1>1. LoopTypeOK'
  BY DEF IInv, LoopTypeOK, Quit, gl, history
<1>2. Control'
  BY DEF IInv, Control, Quit, gl, history, InFrame, Drawn
<1>3. \A c \in Chunks : CullState(c)' /\ DrawnState(c)'
  BY DEF IInv, CullState, DrawnState, Quit, gl, history, InFrame, Drawn
<1> QED
  BY <1>1, <1>2, <1>3 DEF IInv

LEMMA CullStep == IInv /\ Cull => IInv'
<1> SUFFICES ASSUME IInv, Cull
             PROVE  IInv'
  OBVIOUS
<1> USE FrameAssumption
<1>1. /\ phase = "cull" /\ at \in Chunks /\ InFrame
      /\ IF at = ChunkCount THEN phase' = "clear" /\ at' = 1
                            ELSE phase' = "cull" /\ at' = at + 1
  BY DEF IInv, Control, Cull, Advance, InFrame
<1>2. LoopTypeOK'
  <2>1. at' \in 1..(ChunkCount + 1)
    BY <1>1 DEF Chunks
  <2>2. matrix' \in [{"cull", "draw"} -> 0..MaxFrames]
    BY DEF IInv, LoopTypeOK, Cull
  <2>3. inFlight' \in [Chunks -> 0..MaxFrames]
    BY DEF IInv, LoopTypeOK, Cull
  <2> QED
    BY <1>1, <2>1, <2>2, <2>3 DEF IInv, LoopTypeOK, Cull, history
<1>3. Control'
  BY <1>1 DEF IInv, LoopTypeOK, Control, Cull, history, InFrame, Drawn, Chunks
<1>4. ASSUME NEW c \in Chunks
      PROVE  CullState(c)'
  <2>1. /\ InFrame'
        /\ Passed(c)' <=> Passed(c) \/ c = at
        /\ ~ Passed(at)
    BY <1>1 DEF InFrame, Passed, Chunks
  <2>2. CASE Culls(filtering, frozen)
    <3>1. /\ inFlight' = [inFlight EXCEPT ![at] = frame]
          /\ UNCHANGED <<frame, filtering, frozen, args, lastCull, priorCull>>
      BY <1>1, <2>2 DEF IInv, LoopTypeOK, Cull, history
    <3> QED
      BY <1>1, <2>1, <2>2, <3>1 DEF IInv, LoopTypeOK, CullState, Culls
  <2>3. CASE ~ Culls(filtering, frozen)
    BY <1>1, <2>1, <2>3 DEF IInv, CullState, Cull, Culls, history
  <2> QED
    BY <2>2, <2>3
<1>5. \A c \in Chunks : DrawnState(c)'
  BY DEF IInv, DrawnState, Cull, Drawn, history
<1> QED
  BY <1>2, <1>3, <1>4, <1>5 DEF IInv

LEMMA LandStep == ASSUME NEW c \in Chunks, IInv, Land(c) PROVE IInv'
<1>1. LoopTypeOK'
  <2>1. args' \in [Chunks -> 0..MaxFrames]
    BY DEF IInv, LoopTypeOK, Land
  <2>2. inFlight' \in [Chunks -> 0..MaxFrames]
    BY FrameAssumption DEF IInv, LoopTypeOK, Land
  <2> QED
    BY <2>1, <2>2 DEF IInv, LoopTypeOK, Land, gl, history
<1>2. Control'
  BY DEF IInv, Control, Land, gl, history, InFrame, Drawn
<1>3. ASSUME NEW d \in Chunks
      PROVE  CullState(d)'
  BY DEF IInv, LoopTypeOK, Control, CullState, Land, gl, history, InFrame, Passed
<1>4. \A d \in Chunks : DrawnState(d)'
  BY DEF IInv, DrawnState, Land, Drawn, history
<1> QED
  BY <1>1, <1>2, <1>3, <1>4 DEF IInv

LEMMA ClearStep == IInv /\ Clear => IInv'
<1> SUFFICES ASSUME IInv, Clear
             PROVE  IInv'
  OBVIOUS
<1>1. LoopTypeOK'
  BY DEF IInv, LoopTypeOK, Clear, history
<1>2. Control'
  <2>1. matrix'["draw"] = frame'
    BY DEF IInv, LoopTypeOK, Clear
  <2>2. phase' = "draw" /\ at' \in Chunks
    BY DEF IInv, Control, Clear
  <2> QED
    BY <2>1, <2>2 DEF IInv, Control, Clear, history, InFrame
<1>3. \A c \in Chunks : CullState(c)' /\ DrawnState(c)'
  BY DEF IInv, CullState, DrawnState, Clear, history, InFrame, Passed, Drawn
<1> QED
  BY <1>1, <1>2, <1>3 DEF IInv

LEMMA DrawStep == IInv /\ Draw => IInv'
<1> SUFFICES ASSUME IInv, Draw
             PROVE  IInv'
  OBVIOUS
<1> USE FrameAssumption
<1> DEFINE rec == [program |-> program,
                   matrix  |-> IF program = "none" THEN 0 ELSE matrix[program],
                   element |-> element'[vao'],
                   source  |-> IF filtering THEN indirect' ELSE 0,
                   args    |-> IF filtering THEN args[indirect'] ELSE 0]
<1>1. /\ phase = "draw" /\ at \in Chunks /\ InFrame
      /\ program = "draw" /\ matrix["draw"] = frame
      /\ IF at = ChunkCount THEN phase' = "present" /\ at' = 1
                            ELSE phase' = "draw" /\ at' = at + 1
      /\ UNCHANGED <<frame, filtering, frozen, program, matrix, args, inFlight,
                     lastCull, priorCull>>
  BY DEF IInv, Control, Draw, Advance, InFrame, history
<1>2. /\ element' \in [Chunks -> {"full", "culled", "transparent"}]
      /\ element'[at] = IF filtering THEN "culled" ELSE "full"
      /\ vao' = at
      /\ filtering => indirect' = at
      /\ indirect' \in 0..ChunkCount
  BY <1>1 DEF IInv, LoopTypeOK, Draw, Chunks
<1>3. /\ rec.program = "draw"
      /\ rec.matrix = frame
      /\ rec.element = IF filtering THEN "culled" ELSE "full"
      /\ filtering => rec.source = at /\ rec.args = args[at]
      /\ rec \in DrawRecords
  <2>1. /\ rec.program = "draw"
        /\ rec.matrix = frame
        /\ rec.element = IF filtering THEN "culled" ELSE "full"
        /\ filtering => rec.source = at /\ rec.args = args[at]
    BY <1>1, <1>2
  <2>2. /\ rec.matrix \in 0..MaxFrames
        /\ rec.element \in {"none", "full", "culled", "transparent"}
        /\ rec.source \in 0..ChunkCount
        /\ rec.args \in 0..MaxFrames
    BY <1>1, <1>2, <2>1 DEF IInv, LoopTypeOK, Chunks
  <2>3. rec \in DrawRecords
    BY <2>1, <2>2 DEF DrawRecords
  <2> QED
    BY <2>1, <2>3
<1>4. drawn' = [drawn EXCEPT ![at] = rec]
  BY DEF Draw
<1> HIDE DEF rec
<1>5. LoopTypeOK'
  <2>1. drawn' \in [Chunks -> DrawRecords]
    BY <1>3, <1>4 DEF IInv, LoopTypeOK
  <2>2. at' \in 1..(ChunkCount + 1) /\ vao' \in 0..ChunkCount
    BY <1>1, <1>2 DEF Chunks
  <2> QED
    BY <1>1, <1>2, <2>1, <2>2 DEF IInv, LoopTypeOK
<1>6. Control'
  BY <1>1 DEF IInv, Control, InFrame, Chunks
<1>7. \A c \in Chunks : CullState(c)'
  BY <1>1 DEF IInv, CullState, InFrame, Passed
<1>8. ASSUME NEW c \in Chunks
      PROVE  DrawnState(c)'
  <2>1. CASE c = at
    <3>1. drawn'[at] = rec
      BY <1>1, <1>4 DEF IInv, LoopTypeOK
    <3>2. filtering /\ ~ frozen => args[at] \in {lastCull, priorCull} /\ lastCull = frame
      BY <1>1 DEF IInv, Control, CullState, Culls
    <3>3. filtering /\ frozen => args[at] = lastCull
      BY <1>1 DEF IInv, CullState, Culls
    <3> QED
      BY <1>1, <1>3, <2>1, <3>1, <3>2, <3>3 DEF DrawnState
  <2>2. CASE c # at
    <3>1. drawn'[c] = drawn[c]
      BY <1>4, <2>2 DEF IInv, LoopTypeOK
    <3> QED
      BY <1>1, <3>1 DEF IInv, DrawnState, Drawn
  <2> QED
    BY <2>1, <2>2
<1> QED
  BY <1>5, <1>6, <1>7, <1>8 DEF IInv

LEMMA PresentStep == IInv /\ Present => IInv'
<1> SUFFICES ASSUME IInv, Present
             PROVE  IInv'
  OBVIOUS
<1>1. LoopTypeOK'
  <2>1. args' \in [Chunks -> 0..MaxFrames]
    BY DEF IInv, LoopTypeOK, Present
  <2>2. inFlight' \in [Chunks -> 0..MaxFrames]
    BY FrameAssumption DEF Present
  <2> QED
    BY <2>1, <2>2 DEF IInv, LoopTypeOK, Present, gl, history
<1>2. Control'
  BY DEF IInv, Control, Present, gl, history, InFrame
<1>3. ASSUME NEW c \in Chunks
      PROVE  CullState(c)'
  BY DEF IInv, LoopTypeOK, Control, CullState, Present, history, InFrame, Passed
<1>4. \A c \in Chunks : DrawnState(c)'
  BY DEF IInv, DrawnState, Present, Drawn, history
<1> QED
  BY <1>1, <1>2, <1>3, <1>4 DEF IInv

LEMMA StutterStep == IInv /\ UNCHANGED loopVars => IInv'
<1> SUFFICES ASSUME IInv, UNCHANGED loopVars
             PROVE  IInv'
  OBVIOUS
<1>1. LoopTypeOK' /\ Control'
  BY DEF IInv, LoopTypeOK, Control, loopVars, gl, history, InFrame, Drawn
<1>2. \A c \in Chunks : CullState(c)' /\ DrawnState(c)'
  BY DEF IInv, CullState, DrawnState, loopVars, gl, history, InFrame, Passed, Drawn
<1> QED
  BY <1>1, <1>2 DEF IInv

LEMMA Invariance == LoopSpec => []IInv
<1>1. IInv /\ [LoopNext]_loopVars => IInv'
  BY BeginFrameStep, QuitStep, CullStep, LandStep, ClearStep, DrawStep, PresentStep, StutterStep
     DEF LoopNext
<1> QED
  BY <1>1, InvInit, PTL DEF LoopSpec

-----------------------------------------------------------------------------
(* The types hold in every reachable state.                                *)
THEOREM TypeCorrect == LoopSpec => []LoopTypeOK
<1>1. IInv => LoopTypeOK
  BY DEF IInv
<1> QED
  BY <1>1, Invariance, PTL

(* Every draw runs the draw program with this frame's camera on its own    *)
(* chunk's buffers, whatever the culling pass and the toggles left bound.  *)
THEOREM DrawsArePaired == LoopSpec => []DrawsPaired
<1>1. IInv => DrawsPaired
  BY DEF IInv, DrawnState, DrawsPaired, Drawn
<1> QED
  BY <1>1, Invariance, PTL

(* Without the barrier a draw is at most one culling late.                 *)
THEOREM AtMostOneLate == LoopSpec => []CullingAtMostOneLate
<1>1. IInv => CullingAtMostOneLate
  BY DEF IInv, DrawnState, CullingAtMostOneLate, Drawn, Culls
<1> QED
  BY <1>1, Invariance, PTL

(* A frozen frame draws every chunk with the same culling result.          *)
THEOREM FrozenStayTogether == LoopSpec => []FrozenTogether
<1>1. IInv => FrozenTogether
  BY DEF IInv, DrawnState, FrozenTogether, Drawn
<1> QED
  BY <1>1, Invariance, PTL

(* Between frames all chunks hold the result of the last culling frame.    *)
THEOREM SameCullBetweenFrames == LoopSpec => []AllChunksSameCull
<1>1. IInv => AllChunksSameCull
  BY DEF IInv, CullState, AllChunksSameCull, InFrame
<1> QED
  BY <1>1, Invariance, PTL

(* No step takes a chunk back to an earlier culling result.                *)
THEOREM CullsGoForward == LoopSpec => CullForward
<1>1. IInv /\ [LoopNext]_loopVars => [\A c \in Chunks : args'[c] >= args[c]]_loopVars
  <2> SUFFICES ASSUME IInv, LoopNext, NEW d \in Chunks
               PROVE  args'[d] >= args[d]
    OBVIOUS
  <2>1. args[d] \in Nat
    BY FrameAssumption DEF IInv, LoopTypeOK
  <2>2. args' = args => args'[d] >= args[d]
    BY <2>1
  <2>3. inFlight[d] # 0 => inFlight[d] >= args[d]
    BY DEF IInv, LoopTypeOK, Control, CullState
  <2>4. ASSUME NEW c \in Chunks, Land(c)
        PROVE  args'[d] >= args[d]
    BY <2>1, <2>3, <2>4 DEF IInv, LoopTypeOK, Land
  <2>5. Present => args'[d] >= args[d]
    BY <2>1, <2>3 DEF Present
  <2>6. BeginFrame(TRUE, TRUE) \/ BeginFrame(TRUE, FALSE) \/ BeginFrame(FALSE, TRUE)
           \/ BeginFrame(FALSE, FALSE) \/ Quit \/ Cull \/ Clear \/ Draw => args' = args
    BY DEF BeginFrame, Quit, Cull, Clear, Draw
  <2> QED
    BY <2>2, <2>4, <2>5, <2>6 DEF LoopNext
<1> QED
  BY <1>1, Invariance, PTL DEF LoopSpec, CullForward

-----------------------------------------------------------------------------
\* main as a whole.  Each of its places says which EGL objects, shaders and
\* programs there are.

Ended(how) == place = "end" /\ outcome = how

Objects ==
    /\ place \in {"nxlink", "romfs", "display", "fail0", "deinitNxLink", "romfsExit"}
         \/ Ended("failure") \/ Ended("success") => live = {}
    /\ place \in {"surface", "fail1"} => live = {"display"}
    /\ place \in {"context", "fail2"} => live = {"display", "surface"}
    /\ place \in {"makeCurrent", "cullProgram", "compute", "cullLink", "drawProgram", "vertex",
                  "fragment", "drawLink", "loop", "deletePrograms", "deinitEgl"}
         \/ Ended("exit1") \/ Ended("abort") => live = App!EglObjects

Programs ==
    /\ place \in {"nxlink", "romfs", "display", "surface", "context", "makeCurrent", "fail2",
                  "fail1", "fail0", "cullProgram", "compute"} \/ Ended("failure") =>
         shaders = {} /\ programs = {}
    /\ place \in {"drawProgram", "vertex"} => shaders = {}
    /\ place \in {"loop", "deletePrograms"} => shaders = {} /\ programs = {"cull", "draw"}
    /\ place \in {"deinitEgl", "deinitNxLink", "romfsExit"} \/ Ended("success") =>
         shaders = {} /\ programs = {}
    /\ place \in {"cullLink", "drawProgram", "vertex", "fragment", "drawLink"} =>
         programs \subseteq {"cull"}
    /\ place = "drawLink" => programs = {"cull"} /\ shaders = {"vertex", "fragment"}
    /\ place \in {"drawProgram", "vertex", "fragment"} => programs = {"cull"}
    /\ place = "cullLink" => shaders = {"compute"}
    /\ place = "fragment" => shaders = {"vertex"}

Given ==
    /\ sockets = (IF nxlink THEN 1 ELSE 0)
    /\ place = "romfsExit" \/ Ended("success") => sockets = 0
    /\ Ended("success") => ~ mounted
    /\ place = "nxlink" => ~ nxlink

Phases ==
    /\ place \in App!Steps
    /\ outcome \in {"running", "success", "failure", "exit1", "abort"}
    /\ place # "end" <=> outcome = "running"

Clean == misuse = FALSE /\ handle = live /\ Objects

LEMMA Unions ==
    /\ {} \cup {"display"} = {"display"}
    /\ {"display"} \cup {"surface"} = {"display", "surface"}
    /\ {"display", "surface"} \cup {"context"} = App!EglObjects
    /\ {"display", "surface"} \ {"surface"} = {"display"}
    /\ {"display"} \ {"display"} = {}
    /\ \A S : S \ S = {} /\ S \subseteq S /\ {} \cup S = S
    /\ "display" \in App!EglObjects /\ "context" \in App!EglObjects
    /\ {"surface"} \subseteq {"display", "surface"}
    /\ {"vertex"} \cup {"fragment"} = {"vertex", "fragment"}
    /\ {"cull"} \cup {"draw"} = {"cull", "draw"}
BY DEF App!EglObjects

LEMMA PhasesStep == Phases /\ [App!Next]_ends => Phases'
<1> SUFFICES ASSUME Phases, [App!Next]_ends PROVE Phases'
  OBVIOUS
<1> USE DEF Phases, App!Steps, App!Goto, App!Ends
<1>1. CASE App!InitNxLink \/ App!RomfsInit \/ App!MakeCurrent \/ App!Fail2 \/ App!Fail1
  BY <1>1 DEF App!InitNxLink, App!RomfsInit, App!MakeCurrent, App!Fail2, App!Fail1
<1>2. CASE App!InitEgl
  BY <1>2 DEF App!InitEgl, App!Create, App!NoConfig
<1>3. CASE App!LoadPrograms
  BY <1>3 DEF App!LoadPrograms, App!ReadFiles, App!Compile, App!Link
<1>4. CASE App!LeaveLoop \/ App!DeletePrograms \/ App!DeinitEgl \/ App!DeinitNxLink
  BY <1>4 DEF App!LeaveLoop, App!DeletePrograms, App!DeinitEgl, App!DeinitNxLink
<1>5. CASE App!Fail0 \/ App!RomfsExit
  BY <1>5 DEF App!Fail0, App!RomfsExit
<1>6. CASE UNCHANGED ends
  BY <1>6 DEF ends
<1> QED
  BY <1>1, <1>2, <1>3, <1>4, <1>5, <1>6 DEF App!Next

LEMMA CleanStep == Phases /\ Clean /\ [App!Next]_ends => Clean'
<1> SUFFICES ASSUME Phases, Clean, [App!Next]_ends PROVE Clean'
  OBVIOUS
<1> USE DEF Phases, Clean, Objects, Ended, App!Goto, App!Ends
<1>1. CASE App!InitNxLink \/ App!RomfsInit \/ App!MakeCurrent
  BY <1>1 DEF App!InitNxLink, App!RomfsInit, App!MakeCurrent
<1>2. CASE App!InitEgl
  <2>1. CASE App!Create("display", "surface", "fail0")
    BY <2>1, Unions DEF App!Create, App!Acquire
  <2>2. CASE App!NoConfig \/ App!Create("surface", "context", "fail1")
    BY <2>2, Unions DEF App!NoConfig, App!Create, App!Acquire
  <2>3. CASE App!Create("context", "makeCurrent", "fail2")
    BY <2>3, Unions DEF App!Create, App!Acquire
  <2> QED
    BY <1>2, <2>1, <2>2, <2>3 DEF App!InitEgl
<1>3. CASE App!Fail2
  BY <1>3, Unions DEF App!Fail2, App!Release
<1>4. CASE App!Fail1
  BY <1>4, Unions DEF App!Fail1, App!Release
<1>5. CASE App!Fail0 \/ App!DeinitNxLink \/ App!RomfsExit
  BY <1>5 DEF App!Fail0, App!DeinitNxLink, App!RomfsExit
<1>6. CASE App!LoadPrograms
  BY <1>6, Unions DEF App!LoadPrograms, App!ReadFiles, App!Compile, App!Link, App!UsesGL
<1>7. CASE App!LeaveLoop \/ App!DeletePrograms
  BY <1>7, Unions DEF App!LeaveLoop, App!DeletePrograms, App!UsesGL
<1>8. CASE App!DeinitEgl
  BY <1>8, Unions DEF App!DeinitEgl, App!Release
<1>9. CASE UNCHANGED ends
  BY <1>9 DEF ends
<1> QED
  BY <1>1, <1>2, <1>3, <1>4, <1>5, <1>6, <1>7, <1>8, <1>9 DEF App!Next

LEMMA ProgramsStep == Phases /\ Programs /\ [App!Next]_ends => Programs'
<1> SUFFICES ASSUME Phases, Programs, [App!Next]_ends PROVE Programs'
  OBVIOUS
<1> USE DEF Phases, Programs, Ended, App!Goto, App!Ends
<1>1. CASE App!InitNxLink \/ App!RomfsInit \/ App!MakeCurrent
  BY <1>1 DEF App!InitNxLink, App!RomfsInit, App!MakeCurrent
<1>2. CASE App!InitEgl
  BY <1>2 DEF App!InitEgl, App!Create, App!NoConfig
<1>3. CASE App!Fail2 \/ App!Fail1 \/ App!Fail0
  BY <1>3 DEF App!Fail2, App!Fail1, App!Fail0
<1>4. CASE App!LoadPrograms
  <2>1. CASE App!ReadFiles("cullProgram", "compute") \/ App!ReadFiles("drawProgram", "vertex")
    BY <2>1 DEF App!ReadFiles
  <2>2. CASE \/ App!Compile("compute", "cullLink", "compute")
             \/ App!Compile("vertex", "fragment", "vertex")
             \/ App!Compile("fragment", "drawLink", "fragment")
    BY <2>2, Unions DEF App!Compile
  <2>3. CASE \/ App!Link("cullLink", "drawProgram", "cull", {"compute"})
             \/ App!Link("drawLink", "loop", "draw", {"vertex", "fragment"})
    BY <2>3, Unions DEF App!Link
  <2> QED
    BY <1>4, <2>1, <2>2, <2>3 DEF App!LoadPrograms
<1>5. CASE App!LeaveLoop \/ App!DeletePrograms
  BY <1>5 DEF App!LeaveLoop, App!DeletePrograms
<1>6. CASE App!DeinitEgl \/ App!DeinitNxLink \/ App!RomfsExit
  BY <1>6 DEF App!DeinitEgl, App!DeinitNxLink, App!RomfsExit
<1>7. CASE UNCHANGED ends
  BY <1>7 DEF ends
<1> QED
  BY <1>1, <1>2, <1>3, <1>4, <1>5, <1>6, <1>7 DEF App!Next

LEMMA GivenStep == Phases /\ Given /\ [App!Next]_ends => Given'
<1> SUFFICES ASSUME Phases, Given, [App!Next]_ends PROVE Given'
  OBVIOUS
<1> USE DEF Phases, Given, Ended, App!Goto, App!Ends
<1>1. CASE App!InitNxLink
  BY <1>1 DEF App!InitNxLink
<1>2. CASE App!RomfsInit \/ App!MakeCurrent \/ App!Fail2 \/ App!Fail1 \/ App!Fail0
  BY <1>2 DEF App!RomfsInit, App!MakeCurrent, App!Fail2, App!Fail1, App!Fail0
<1>3. CASE App!InitEgl \/ App!LoadPrograms
  BY <1>3 DEF App!InitEgl, App!Create, App!NoConfig, App!LoadPrograms, App!ReadFiles,
     App!Compile, App!Link
<1>4. CASE App!LeaveLoop \/ App!DeletePrograms \/ App!DeinitEgl
  BY <1>4 DEF App!LeaveLoop, App!DeletePrograms, App!DeinitEgl
<1>5. CASE App!DeinitNxLink
  BY <1>5 DEF App!DeinitNxLink
<1>6. CASE App!RomfsExit
  BY <1>6 DEF App!RomfsExit
<1>7. CASE UNCHANGED ends
  BY <1>7 DEF ends
<1> QED
  BY <1>1, <1>2, <1>3, <1>4, <1>5, <1>6, <1>7 DEF App!Next

AppInv == Phases /\ Clean /\ Programs /\ Given

LEMMA AppInvInit == App!Init => AppInv
BY DEF App!Init, AppInv, Phases, Clean, App!Steps, Objects, Programs, Given, Ended

LEMMA AppInvNext == AppInv /\ [App!Next]_ends => AppInv'
BY PhasesStep, CleanStep, ProgramsStep, GivenStep DEF AppInv

\* main's loop runs at its place between the two ends, and has left no dispatch
\* under way when it is at rest.
GameInv == IInv /\ AppInv /\ (place # "loop" => phase \in {"poll", "exit"})

LEMMA GameInvInit == InitGame => GameInv
BY InvInit, AppInvInit DEF InitGame, GameInv, App!Init, InitLoop

LEMMA StepsApart ==
    NextGame => [LoopNext]_loopVars /\ [App!Next]_ends
BY DEF NextGame, Outside, InLoop

LEMMA GameInvNext == GameInv /\ [NextGame]_<<loopVars, ends>> => GameInv'
<1> SUFFICES ASSUME GameInv, [NextGame]_<<loopVars, ends>> PROVE GameInv'
  OBVIOUS
<1>1. [LoopNext]_loopVars /\ [App!Next]_ends
  BY StepsApart
<1>2. IInv'
  BY <1>1, BeginFrameStep, QuitStep, CullStep, LandStep, ClearStep, DrawStep, PresentStep,
     StutterStep DEF GameInv, LoopNext
<1>3. AppInv'
  BY <1>1, AppInvNext DEF GameInv
<1>4. place' # "loop" => phase' \in {"poll", "exit"}
  BY DEF GameInv, NextGame, Outside, InLoop, loopVars, ends
<1> QED
  BY <1>2, <1>3, <1>4 DEF GameInv

LEMMA GameInvariance == Game => []GameInv
BY GameInvInit, GameInvNext, PTL DEF Game

(* The whole of main is a run of the frame loop and a run of its two ends, *)
(* so that what holds of either holds of main.                             *)
THEOREM GameIsLoopAndEnds == Game => LoopSpec /\ App!Spec
<1>1. InitGame => InitLoop /\ App!Init
  BY DEF InitGame
<1>2. [NextGame]_<<loopVars, ends>> => [LoopNext]_loopVars /\ [App!Next]_(App!vars)
  BY StepsApart DEF ends, App!vars
<1> QED
  BY <1>1, <1>2, PTL DEF Game, LoopSpec, App!Spec

(* Whatever fails on the way to the loop or out of it, no EGL object is    *)
(* destroyed twice, no OpenGL function is called without a context, and    *)
(* both programs live while the loop has a draw or a dispatch under way.   *)
THEOREM ReleasedOnce == Game => []ReleasedOnceUsedLive
<1>1. GameInv => ReleasedOnceUsedLive
  <2> SUFFICES ASSUME GameInv PROVE ReleasedOnceUsedLive
    OBVIOUS
  <2>1. App!ReleasedOnceUsedLive
    BY DEF GameInv, AppInv, Clean, App!ReleasedOnceUsedLive
  <2>2. App!EglAllOrNothing
    BY Unions DEF GameInv, AppInv, Phases, Clean, App!Steps, Objects, Programs, Ended,
           App!EglAllOrNothing, App!EglObjects
  <2>3. phase \in {"poll", "exit"} => \A c \in Chunks : inFlight[c] = 0
    BY DEF GameInv, IInv, CullState, InFrame
  <2>4. place = "loop" => live = App!EglObjects /\ programs = {"cull", "draw"}
    BY DEF GameInv, AppInv, Clean, Objects, Programs
  <2> QED
    BY <2>1, <2>2, <2>3, <2>4 DEF GameInv, ReleasedOnceUsedLive
<1> QED
  BY <1>1, GameInvariance, PTL

(* A normal return of main gives everything back, with or without nxlink.  *)
THEOREM SuccessGivesAllBack == Game => []App!SuccessReleasesAll
<1>1. GameInv => App!SuccessReleasesAll
  <2> SUFFICES ASSUME GameInv PROVE App!SuccessReleasesAll
    OBVIOUS
  <2>1. Given /\ Clean /\ Programs /\ Phases
    BY DEF GameInv, AppInv
  <2>2. ASSUME outcome = "success"
        PROVE  sockets = 0 /\ live = {} /\ programs = {} /\ ~ mounted
    <3>1. Ended("success")
      BY <2>1, <2>2 DEF Phases, App!Steps, Ended
    <3> QED
      BY <2>1, <3>1 DEF Given, Clean, Objects, Programs
  <2>3. sockets = (IF nxlink THEN 1 ELSE 0)
    BY <2>1 DEF Given
  <2> QED
    BY <2>2, <2>3 DEF App!SuccessReleasesAll
<1> QED
  BY <1>1, GameInvariance, PTL

-----------------------------------------------------------------------------
\* The mesh.

LEMMA Divided ==
    ASSUME NEW n \in Int, NEW m \in Nat, m >= 1
    PROVE  \E q \in Int, r \in 0..(m - 1) : q = n \div m /\ r = n % m /\ n = m * q + r
<1>1. PICK q \in Int : q = n \div m
  OBVIOUS
<1>2. PICK r \in 0..(m - 1) : r = n % m
  OBVIOUS
<1>3. n = m * q + r
  BY <1>1, <1>2
<1> QED BY <1>1, <1>2, <1>3

LEMMA MeshTypes ==
    /\ Width \in Nat /\ Width >= 1 /\ Height \in Nat /\ Height >= 1 /\ Depth \in Nat /\ Depth >= 1
    /\ IntMod \in Nat /\ IntMod >= 1 /\ SizeMod \in Nat /\ SizeMod >= 1
    /\ IndexMod \in Nat /\ IndexMod >= 4
    /\ IntMod \div 2 \in Nat /\ IntMod = IntMod \div 2 + IntMod \div 2
<1>1. /\ Width \in Nat /\ Width >= 1 /\ Height \in Nat /\ Height >= 1 /\ Depth \in Nat /\ Depth >= 1
      /\ IntMod \in Nat /\ IntMod >= 1 /\ SizeMod \in Nat /\ SizeMod >= 1
      /\ IndexMod \in Nat /\ IndexMod >= 1 /\ IndexMod % 4 = 0 /\ IntMod % 2 = 0
  BY MeshAssumption
<1> QED BY <1>1

\* A residue is unique.
LEMMA Residue ==
    ASSUME NEW m \in Nat, m >= 1, NEW q \in Int, NEW r \in 0..(m - 1)
    PROVE  (r + m * q) % m = r
<1>1. (m * q + r) % m = r
  OBVIOUS
<1>2. m * q + r = r + m * q
  OBVIOUS
<1> QED BY <1>1, <1>2

\* The conversions to size_t lose nothing that int32_t has.
LEMMA SizeKeeps ==
    ASSUME NEW x \in Int
    PROVE  \E j \in Int : Mesh!ToSize(x) = x + IntMod * j
<1>1. PICK k \in Int : SizeMod = IntMod * k
  <2>1. PICK k \in Int, r \in 0..(IntMod - 1) : k = SizeMod \div IntMod /\ r = SizeMod % IntMod /\ SizeMod = IntMod * k + r
    <3>1. SizeMod \in Int
      BY MeshTypes
    <3> QED BY <3>1, MeshTypes, Divided, Zenon
  <2>2. SizeMod % IntMod = 0
    BY MeshAssumption
  <2>3. PICK m \in Nat, n \in Nat : m = IntMod /\ n = SizeMod
    BY MeshTypes
  <2>4. n = m * k + r /\ r = 0
    BY <2>1, <2>2, <2>3
  <2>5. n = m * k
    BY <2>4
  <2> QED BY <2>3, <2>5
<1>2. PICK d \in Int : Mesh!ToSize(x) = x - SizeMod * d
  <2>1. PICK d \in Int, r \in 0..(SizeMod - 1) : d = x \div SizeMod /\ r = x % SizeMod /\ x = SizeMod * d + r
    BY MeshTypes, Divided, Zenon
  <2>2. PICK n \in Nat : n = SizeMod
    BY MeshTypes
  <2>3. r = x - n * d
    BY <2>1, <2>2
  <2> QED BY <2>1, <2>2, <2>3 DEF Mesh!ToSize
<1>4. SizeMod * d = IntMod * (k * d)
  BY <1>1, MeshTypes
<1>5. k * d \in Int /\ IntMod * (- (k * d)) = - (IntMod * (k * d))
  BY MeshTypes
<1>6. WITNESS -(k * d) \in Int
<1> QED BY <1>2, <1>4, <1>5, MeshTypes

LEMMA IntIs ==
    ASSUME NEW x \in Int, NEW j \in Int, -(IntMod \div 2) <= x, x < IntMod \div 2
    PROVE  Mesh!ToInt(x + IntMod * j) = x
<1>1. PICK h \in Nat, m \in Nat : h = IntMod \div 2 /\ m = IntMod /\ m = h + h /\ m >= 1
  BY MeshTypes
<1>2. CASE x >= 0
  <2>1. (x + IntMod * j) % IntMod = x
    BY <1>1, <1>2, Residue
  <2> QED BY <2>1, <1>1, <1>2 DEF Mesh!ToInt
<1>3. CASE x < 0
  <2>1. x + IntMod * j = (x + IntMod) + IntMod * (j - 1)
    BY MeshTypes
  <2>2. PICK r \in 0..(m - 1) : r = x + IntMod
    BY <1>1, <1>3
  <2>3. PICK i \in Int : i = j - 1
    OBVIOUS
  <2>4. (r + m * i) % m = r
    BY <1>1, Residue
  <2> QED BY <2>1, <2>2, <2>3, <2>4, <1>1, <1>3 DEF Mesh!ToInt
<1> QED BY <1>2, <1>3

LEMMA OffsetIs ==
    ASSUME NEW c \in Int, NEW e \in Nat, NEW n \in 0..(e - 1),
           -(IntMod \div 2) <= c * e, c * e + e <= IntMod \div 2
    PROVE  Mesh!Offset(Mesh!Origin(c, e), n) = c * e + n
<1>1. PICK p \in Int : p = c * e
  OBVIOUS
<1>2. IntMod \div 2 \in Int /\ IntMod \in Int
  BY MeshTypes
<1>3. PICK i \in Int : Mesh!ToSize(c) = c + IntMod * i
  BY SizeKeeps
<1>4. (c + IntMod * i) * e = p + IntMod * (i * e) /\ i * e \in Int
  BY <1>1, <1>2
<1>5. PICK y \in Int : y = (c + IntMod * i) * e /\ y = p + IntMod * (i * e)
  BY <1>4, <1>2
<1>6. PICK k \in Int : Mesh!ToSize(y) = y + IntMod * k
  BY SizeKeeps
<1>7. PICK s \in Int : s = i * e + k
  BY <1>4
<1>8. y + IntMod * k = p + IntMod * s
  BY <1>5, <1>7, <1>4, <1>2
<1>9. Mesh!Origin(c, e) = p
  <2>1. -(IntMod \div 2) <= p /\ p < IntMod \div 2
    BY <1>1, <1>2
  <2>2. Mesh!ToInt(p + IntMod * s) = p
    BY IntIs, <2>1
  <2> QED BY <1>3, <1>5, <1>6, <1>8, <2>2 DEF Mesh!Origin
<1>10. PICK t \in Int : Mesh!ToSize(p) = p + IntMod * t
  BY SizeKeeps
<1>11. PICK z \in Int : z = p + IntMod * t + n
  BY <1>2
<1>12. PICK w \in Int : Mesh!ToSize(z) = z + IntMod * w
  BY SizeKeeps
<1>13. z + IntMod * w = (p + n) + IntMod * (t + w)
  BY <1>11, <1>2
<1>14. PICK a \in Int, u \in Int : a = p + n /\ u = t + w
  OBVIOUS
<1>15. Mesh!ToInt(a + IntMod * u) = a
  <2>1. -(IntMod \div 2) <= a /\ a < IntMod \div 2
    BY <1>1, <1>2, <1>14
  <2> QED BY IntIs, <2>1
<1> QED BY <1>9, <1>10, <1>11, <1>12, <1>13, <1>14, <1>15, <1>1 DEF Mesh!Offset

LEMMA VoxelPlaced ==
    ASSUME NEW v \in Mesh!Voxels, chunk \in ChunkCoords \X {0} \X ChunkCoords
    PROVE  /\ Mesh!VoxelPos(chunk, v) = Mesh!WorldPos(v)
           /\ Mesh!WorldPos(v) \in Int \X Int \X Int
<1>1. Width \in Nat /\ Width >= 1 /\ Height \in Nat /\ Height >= 1 /\ Depth \in Nat /\ Depth >= 1
  BY MeshTypes
<1>2. Width * Height * Depth \in Nat
  BY <1>1
<1>3. v \in Nat /\ v < Width * Height * Depth
  BY <1>2 DEF Mesh!Voxels, Mesh!VoxelCount
<1>4. PICK a \in Int, x \in 0..(Width - 1) : a = v \div Width /\ x = v % Width /\ v = Width * a + x
  BY <1>1, <1>3, Divided
<1>5. PICK b \in Int, y \in 0..(Height - 1) : b = a \div Height /\ y = a % Height /\ a = Height * b + y
  BY <1>1, Divided
<1>6. b \in 0..(Depth - 1)
  <2>1. a >= 0
    <3> SUFFICES ASSUME a <= -1 PROVE FALSE
      OBVIOUS
    <3>1. Width * a <= Width * (-1)
      BY <1>1
    <3> QED BY <3>1, <1>1, <1>3, <1>4
  <2>2. b >= 0
    <3> SUFFICES ASSUME b <= -1 PROVE FALSE
      OBVIOUS
    <3>1. Height * b <= Height * (-1)
      BY <1>1
    <3> QED BY <3>1, <1>1, <1>5, <2>1
  <2>3. b < Depth
    <3> SUFFICES ASSUME b >= Depth PROVE FALSE
      BY <1>1
    <3>1. Height * b >= Height * Depth
      BY <1>1
    <3>2. a >= Height * Depth /\ Height * Depth \in Int
      BY <3>1, <1>1, <1>5
    <3>3. Width * a >= Width * (Height * Depth)
      BY <3>2, <1>1
    <3>4. Width * (Height * Depth) = Width * Height * Depth
      BY <1>1
    <3> QED BY <3>3, <3>4, <1>1, <1>3, <1>4
  <2> QED BY <2>2, <2>3, <1>1
<1>7. /\ chunk[1] \in Int /\ chunk[2] = 0 /\ chunk[3] \in Int
      /\ -(IntMod \div 2) <= chunk[1] * Width /\ chunk[1] * Width + Width <= IntMod \div 2
      /\ -(IntMod \div 2) <= chunk[3] * Depth /\ chunk[3] * Depth + Depth <= IntMod \div 2
  <2>1. chunk[1] \in ChunkCoords /\ chunk[2] = 0 /\ chunk[3] \in ChunkCoords
    OBVIOUS
  <2> QED BY <2>1, MeshAssumption
<1>8. -(IntMod \div 2) <= 0 * Height /\ 0 * Height + Height <= IntMod \div 2
  <2>1. Height <= IntMod \div 2
    BY MeshAssumption
  <2> QED BY <2>1, MeshTypes
<1>9. Mesh!Offset(Mesh!Origin(chunk[1], Width), x) = chunk[1] * Width + x
  BY OffsetIs, <1>1, <1>7
<1>10. Mesh!Offset(Mesh!Origin(chunk[2], Height), y) = chunk[2] * Height + y
  BY OffsetIs, <1>1, <1>7, <1>8
<1>11. Mesh!Offset(Mesh!Origin(chunk[3], Depth), b) = chunk[3] * Depth + b
  BY OffsetIs, <1>1, <1>6, <1>7
<1>12. chunk[1] * Width + x \in Int /\ chunk[2] * Height + y \in Int /\ chunk[3] * Depth + b \in Int
  BY <1>1, <1>6, <1>7
<1> QED BY <1>4, <1>5, <1>9, <1>10, <1>11, <1>12 DEF Mesh!VoxelPos, Mesh!WorldPos

MeshPlaces ==
    /\ chunk \in ChunkCoords \X {0} \X ChunkCoords
    /\ blocks \subseteq Mesh!Voxels
    /\ voxelIt \in 0..Mesh!VoxelCount
    /\ face \in 1..6

Points == Int \X Int \X Int

\* The six faces' corners move a point by at most one.
CornerOf(q, k) == Mesh!Plus(Mesh!WorldPos(owner[q][1]), Mesh!Corners[owner[q][2]][k])

MeshPushed ==
    /\ positions \in Seq(Points)
    /\ bases \in Seq(Int)
    /\ owner \in Seq(Mesh!Voxels \X (1..6))
    /\ Len(owner) = Len(bases)
    /\ Len(positions) = 4 * Len(bases)

BasesWrap == \A q \in 1..Len(bases) : bases[q] = (4 * (q - 1)) % IndexMod

CornersPushed == \A q \in 1..Len(bases), k \in 1..4 : positions[4 * (q - 1) + k] = CornerOf(q, k)

MeshInv == MeshPlaces /\ MeshPushed /\ BasesWrap /\ CornersPushed

LEMMA MeshInit == Mesh!Init => MeshInv
<1> SUFFICES ASSUME Mesh!Init PROVE MeshInv
  OBVIOUS
<1>1. 0 \in 0..Mesh!VoxelCount
  <2>1. Width * Height * Depth \in Nat
    BY MeshTypes
  <2> QED BY <2>1 DEF Mesh!VoxelCount
<1>2. MeshPlaces
  BY <1>1 DEF Mesh!Init, MeshPlaces
<1>3. MeshPushed
  BY DEF Mesh!Init, MeshPushed
<1>4. BasesWrap /\ CornersPushed
  BY DEF Mesh!Init, BasesWrap, CornersPushed
<1> QED BY <1>2, <1>3, <1>4 DEF MeshInv

LEMMA CornerPoints ==
    ASSUME NEW f \in 1..6, NEW k \in 1..4
    PROVE  Mesh!Corners[f][k] \in (0..1) \X (0..1) \X (0..1)
BY DEF Mesh!Corners

LEMMA FaceOf ==
    ASSUME NEW p \in Points, NEW f \in 1..6
    PROVE  /\ Mesh!FaceVertices(p, f) \in Seq(Points)
           /\ Len(Mesh!FaceVertices(p, f)) = 4
           /\ \A k \in 1..4 : Mesh!FaceVertices(p, f)[k] = Mesh!Plus(p, Mesh!Corners[f][k])
<1>1. \A k \in 1..4 : Mesh!Plus(p, Mesh!Corners[f][k]) \in Points
  <2> TAKE k \in 1..4
  <2>1. PICK c \in (0..1) \X (0..1) \X (0..1) : c = Mesh!Corners[f][k]
    BY CornerPoints
  <2>2. Mesh!Plus(p, c) \in Points
    BY DEF Mesh!Plus, Points
  <2> QED BY <2>1, <2>2
<1> QED BY <1>1 DEF Mesh!FaceVertices

LEMMA MeshPlacesStep == ASSUME MeshPlaces, [Mesh!Next]_(Mesh!vars) PROVE MeshPlaces'
<1>1. PICK count0 \in Nat : count0 = Mesh!VoxelCount
  <2>1. Width * Height * Depth \in Nat
    BY MeshTypes
  <2> QED BY <2>1 DEF Mesh!VoxelCount
<1>2. Mesh!Voxels = 0..(count0 - 1)
  BY <1>1 DEF Mesh!Voxels
<1>3. CASE Mesh!SkipVoxel
  BY <1>1, <1>3 DEF MeshPlaces, Mesh!SkipVoxel
<1>4. CASE Mesh!PushFace
  BY <1>1, <1>2, <1>4 DEF MeshPlaces, Mesh!PushFace
<1>5. CASE UNCHANGED Mesh!vars
  BY <1>5 DEF MeshPlaces, Mesh!vars
<1> QED BY <1>3, <1>4, <1>5 DEF Mesh!Next

LEMMA Joined ==
    ASSUME NEW S, NEW s \in Seq(S), NEW t \in Seq(S)
    PROVE  /\ s \o t \in Seq(S) /\ Len(s \o t) = Len(s) + Len(t)
           /\ \A i \in 1..Len(s) : (s \o t)[i] = s[i]
           /\ \A i \in 1..Len(t) : (s \o t)[Len(s) + i] = t[i]
OBVIOUS

LEMMA MeshPushStep ==
    ASSUME MeshInv, Mesh!PushFace
    PROVE  MeshPushed' /\ BasesWrap' /\ CornersPushed'
<1> USE DEF MeshInv
<1>1. PICK p \in Points : p = Mesh!WorldPos(voxelIt) /\ p = Mesh!VoxelPos(chunk, voxelIt)
  BY VoxelPlaced DEF MeshPlaces, Mesh!PushFace, Points
<1>2. PICK fv \in Seq(Points) : /\ fv = Mesh!FaceVertices(p, face) /\ Len(fv) = 4
                                /\ \A k \in 1..4 : fv[k] = Mesh!Plus(p, Mesh!Corners[face][k])
  BY FaceOf DEF MeshPlaces
<1>3. PICK n \in Nat : n = Len(bases)
  BY DEF MeshPushed
<1>4. PICK b \in Int : b = (4 * n) % IndexMod
  BY MeshTypes
<1>5. /\ positions' = positions \o fv
      /\ bases' = Append(bases, b)
      /\ owner' = Append(owner, <<voxelIt, face>>)
      /\ UNCHANGED <<chunk, blocks>>
  BY <1>1, <1>2, <1>3, <1>4 DEF Mesh!PushFace, Mesh!BaseVertex, MeshPushed
<1>6. <<voxelIt, face>> \in Mesh!Voxels \X (1..6)
  BY DEF Mesh!PushFace, MeshPlaces
<1>7. /\ positions' \in Seq(Points) /\ Len(positions') = 4 * (n + 1)
      /\ \A i \in 1..(4 * n) : positions'[i] = positions[i]
      /\ \A k \in 1..4 : positions'[4 * n + k] = fv[k]
  <2>1. positions \in Seq(Points) /\ Len(positions) = 4 * n /\ 4 * n + 4 = 4 * (n + 1)
    BY <1>3 DEF MeshPushed
  <2>2. /\ positions \o fv \in Seq(Points) /\ Len(positions \o fv) = Len(positions) + Len(fv)
        /\ \A i \in 1..Len(positions) : (positions \o fv)[i] = positions[i]
        /\ \A i \in 1..Len(fv) : (positions \o fv)[Len(positions) + i] = fv[i]
    <3>1. PICK old \in Seq(Points) : old = positions
      BY <2>1
    <3>2. /\ old \o fv \in Seq(Points) /\ Len(old \o fv) = Len(old) + Len(fv)
          /\ \A i \in 1..Len(old) : (old \o fv)[i] = old[i]
          /\ \A i \in 1..Len(fv) : (old \o fv)[Len(old) + i] = fv[i]
      BY Joined
    <3> QED BY <3>1, <3>2
  <2>3. PICK w \in Nat : w = 4 * n
    OBVIOUS
  <2> QED BY <2>1, <2>2, <2>3, <1>2, <1>5
<1>8. /\ bases' \in Seq(Int) /\ Len(bases') = n + 1 /\ bases'[n + 1] = b
      /\ \A q \in 1..n : bases'[q] = bases[q]
  BY <1>3, <1>5 DEF MeshPushed
<1>9. /\ owner' \in Seq(Mesh!Voxels \X (1..6)) /\ Len(owner') = n + 1
      /\ owner'[n + 1] = <<voxelIt, face>>
      /\ \A q \in 1..n : owner'[q] = owner[q]
  BY <1>3, <1>5, <1>6 DEF MeshPushed
<1>10. MeshPushed'
  BY <1>7, <1>8, <1>9 DEF MeshPushed
<1>11. BasesWrap'
  <2> SUFFICES ASSUME NEW q \in 1..(n + 1) PROVE bases'[q] = (4 * (q - 1)) % IndexMod
    BY <1>8 DEF BasesWrap
  <2>1. CASE q = n + 1
    BY <2>1, <1>4, <1>8
  <2>2. CASE q \in 1..n
    BY <2>2, <1>3, <1>8 DEF BasesWrap
  <2> QED BY <2>1, <2>2
<1>12. CornersPushed'
  <2> SUFFICES ASSUME NEW q \in 1..(n + 1), NEW k \in 1..4
               PROVE  positions'[4 * (q - 1) + k] = CornerOf(q, k)'
    BY <1>8 DEF CornersPushed
  <2>1. CASE q = n + 1
    <3>1. positions'[4 * (q - 1) + k] = Mesh!Plus(p, Mesh!Corners[face][k])
      <4>1. 4 * (q - 1) + k = 4 * n + k
        BY <2>1
      <4> QED BY <4>1, <1>2, <1>7
    <3>2. owner'[q] = <<voxelIt, face>>
      BY <2>1, <1>9
    <3> QED BY <3>1, <3>2, <1>1, <1>5 DEF CornerOf, Mesh!Plus, Mesh!WorldPos
  <2>2. CASE q \in 1..n
    <3>1. 4 * (q - 1) + k \in 1..(4 * n)
      BY <2>2
    <3>2. positions'[4 * (q - 1) + k] = CornerOf(q, k)
      BY <2>2, <3>1, <1>3, <1>7 DEF CornersPushed
    <3>3. owner'[q] = owner[q]
      BY <2>2, <1>9
    <3> QED BY <3>2, <3>3, <1>5 DEF CornerOf, Mesh!Plus, Mesh!WorldPos
  <2> QED BY <2>1, <2>2
<1> QED BY <1>10, <1>11, <1>12

LEMMA MeshNext == ASSUME MeshInv, [Mesh!Next]_(Mesh!vars) PROVE MeshInv'
<1>1. MeshPlaces'
  BY MeshPlacesStep DEF MeshInv
<1>2. CASE Mesh!PushFace
  BY <1>1, <1>2, MeshPushStep DEF MeshInv
<1>3. CASE Mesh!SkipVoxel \/ UNCHANGED Mesh!vars
  <2>1. UNCHANGED <<chunk, blocks, positions, bases, owner>>
    BY <1>3 DEF Mesh!SkipVoxel, Mesh!vars
  <2>2. MeshPushed'
    BY <2>1 DEF MeshInv, MeshPushed
  <2>3. BasesWrap'
    BY <2>1 DEF MeshInv, BasesWrap
  <2>4. CornersPushed'
    BY <2>1 DEF MeshInv, CornersPushed, CornerOf, Mesh!Plus, Mesh!WorldPos
  <2> QED BY <1>1, <2>2, <2>3, <2>4 DEF MeshInv
<1> QED BY <1>2, <1>3 DEF Mesh!Next

LEMMA MeshInvariance == MCSpec => []MeshInv
<1>1. MCInit => MeshInv
  BY MeshInit DEF MCInit
<1>2. ASSUME MeshInv, [MCNext]_all PROVE MeshInv'
  <2>1. [Mesh!Next]_(Mesh!vars)
    BY <1>2 DEF MCNext, all, mesh, Mesh!vars
  <2> QED BY <2>1, <1>2, MeshNext
<1> QED BY <1>1, <1>2, PTL DEF MCSpec

\* A base vertex after wrapping is the one of the quad own in its place.
LEMMA WrappedQuad ==
    ASSUME NEW n \in Nat
    PROVE  \E d \in 0..n : d = n % (IndexMod \div 4) /\ (4 * n) % IndexMod = 4 * d
<1>1. PICK m \in Nat : m = IndexMod \div 4 /\ m >= 1 /\ IndexMod = 4 * m
  <2>1. IndexMod % 4 = 0
    BY MeshAssumption
  <2> QED BY <2>1, MeshTypes
<1>2. PICK q \in Int, d \in 0..(m - 1) : q = n \div m /\ d = n % m /\ n = m * q + d
  <2>1. n \in Int
    OBVIOUS
  <2> QED BY <1>1, <2>1, Divided, Zenon
<1>3. 4 * n = 4 * d + 4 * (m * q) /\ 4 * (m * q) = (4 * m) * q
  <2>1. PICK e \in Int : e = m * q
    OBVIOUS
  <2>2. 4 * n = 4 * d + 4 * e
    BY <1>2, <2>1
  <2> QED BY <2>1, <2>2
<1>4. PICK w \in Nat : w = 4 * m
  BY <1>1
<1>5. PICK r \in 0..(w - 1) : r = 4 * d
  BY <1>2, <1>4, <1>1
<1>6. (r + w * q) % w = r
  <2>1. w >= 1
    BY <1>1, <1>4
  <2> QED BY <2>1, Residue
<1>7. q >= 0
  <2> SUFFICES ASSUME q <= -1 PROVE FALSE
    OBVIOUS
  <2>1. m * q <= m * (-1)
    BY <1>1
  <2> QED BY <2>1, <1>1, <1>2
<1>8. m * q >= 0
  BY <1>7, <1>1
<1>9. d \in 0..n
  BY <1>8, <1>1, <1>2
<1> QED BY <1>9, <1>1, <1>2, <1>3, <1>4, <1>5, <1>6

LEMMA QuadsOwn == MeshInv => Mesh!QuadsOwnTheirVertices
<1> SUFFICES ASSUME MeshInv, NEW q \in 1..Len(bases)
             PROVE  LET own == owner[((q - 1) % (IndexMod \div 4)) + 1]
                    IN  /\ bases[q] + 4 <= Len(positions)
                        /\ SubSeq(positions, bases[q] + 1, bases[q] + 4) =
                             Mesh!FaceVertices(Mesh!WorldPos(own[1]), own[2])
  BY DEF Mesh!QuadsOwnTheirVertices
<1>1. PICK n \in Nat : n = Len(bases) /\ q <= n
  BY DEF MeshInv, MeshPushed
<1>2. PICK m \in Nat : m = q - 1
  OBVIOUS
<1>3. PICK d \in 0..m : d = m % (IndexMod \div 4) /\ (4 * m) % IndexMod = 4 * d
  BY WrappedQuad
<1>4. bases[q] = 4 * d
  BY <1>2, <1>3 DEF MeshInv, BasesWrap
<1>5. d + 1 \in 1..n /\ Len(positions) = 4 * n
  BY <1>1, <1>2 DEF MeshInv, MeshPushed
<1>6. \A k \in 1..4 : positions[4 * d + k] = CornerOf(d + 1, k)
  <2>1. 4 * ((d + 1) - 1) = 4 * d
    OBVIOUS
  <2> QED BY <2>1, <1>1, <1>5 DEF MeshInv, CornersPushed
<1>7. positions \in Seq(Points)
  BY DEF MeshInv, MeshPushed
<1>8. SubSeq(positions, 4 * d + 1, 4 * d + 4) = [k \in 1..4 |-> positions[4 * d + k]]
  BY <1>5, <1>7
<1>9. SubSeq(positions, 4 * d + 1, 4 * d + 4)
        = Mesh!FaceVertices(Mesh!WorldPos(owner[d + 1][1]), owner[d + 1][2])
  BY <1>6, <1>8 DEF CornerOf, Mesh!FaceVertices
<1>10. ((q - 1) % (IndexMod \div 4)) + 1 = d + 1
  BY <1>2, <1>3
<1>11. 4 * d + 4 <= Len(positions)
  BY <1>5
<1> QED BY <1>4, <1>9, <1>10, <1>11

LEMMA SurvivorsLeft == MeshInv => Mesh!SurvivorsByPlane
<1> SUFFICES ASSUME MeshInv, Mesh!Indexable, NEW q \in 1..Len(bases)
             PROVE  Mesh!Survives(q) <=> LET x == Mesh!WorldPos(owner[q][1])[1]
                                         IN  x < 0 \/ (x = 0 /\ owner[q][2] = 5)
  BY DEF Mesh!SurvivorsByPlane
<1>1. PICK n \in Nat : n = Len(bases) /\ q <= n /\ 4 * n <= IndexMod
  BY DEF MeshInv, MeshPushed, Mesh!Indexable
<1>2. bases[q] = 4 * (q - 1)
  <2>1. (4 * (q - 1)) % IndexMod = 4 * (q - 1)
    BY <1>1, MeshTypes
  <2> QED BY <2>1 DEF MeshInv, BasesWrap
<1>3. positions[4 * (q - 1) + 2] = CornerOf(q, 2)
  BY DEF MeshInv, CornersPushed
<1>4. PICK v \in Mesh!Voxels, f \in 1..6 : v = owner[q][1] /\ f = owner[q][2]
  <2>1. q \in 1..Len(owner) /\ owner \in Seq(Mesh!Voxels \X (1..6))
    BY DEF MeshInv, MeshPushed
  <2>2. owner[q] \in Mesh!Voxels \X (1..6)
    BY <2>1
  <2> QED BY <2>2
<1>5. PICK p \in Points : p = Mesh!WorldPos(v)
  BY VoxelPlaced DEF MeshInv, MeshPlaces, Points
<1>6. Mesh!Corners[f][2][1] = IF f = 5 THEN 0 ELSE 1
  BY DEF Mesh!Corners
<1>7. CornerOf(q, 2)[1] = p[1] + (IF f = 5 THEN 0 ELSE 1)
  BY <1>4, <1>5, <1>6 DEF CornerOf, Mesh!Plus
<1>8. Mesh!Survives(q) <=> ~ (p[1] + (IF f = 5 THEN 0 ELSE 1) > 0)
  BY <1>2, <1>3, <1>7 DEF Mesh!Survives, Mesh!ShaderVertex
<1> QED BY <1>4, <1>5, <1>8 DEF Points

(* The corners of its own voxel's face, for chunks of any size that        *)
(* int32_t holds and any width of the indices (chunk.cpp:84-178).          *)
THEOREM QuadsOwned == MCSpec => []QuadsOwnTheirVertices
<1>1. MeshInv => QuadsOwnTheirVertices
  BY QuadsOwn DEF QuadsOwnTheirVertices
<1> QED BY <1>1, MeshInvariance, PTL

(* The shader's test keeps what lies to the left of the plane, whatever    *)
(* the chunk's voxels are (cull.cs:35-90).                                 *)
THEOREM SurvivorsAreLeft == MCSpec => []SurvivorsByPlane
<1>1. MeshInv => SurvivorsByPlane
  BY SurvivorsLeft DEF SurvivorsByPlane
<1> QED BY <1>1, MeshInvariance, PTL

-----------------------------------------------------------------------------
\* Which voxels and faces the mesh has: those before the loop's place.

BeforeAt(v, f, it, side) == v < it \/ (v = it /\ f < side)
Before(v, f) == BeforeAt(v, f, voxelIt, face)

PushedBefore == \A q \in 1..Len(owner) : owner[q][1] \in blocks /\ Before(owner[q][1], owner[q][2])
BeforePushed == \A v \in blocks, f \in 1..6 : Before(v, f) => \E q \in 1..Len(owner) : owner[q] = <<v, f>>
PushedOnce == \A p, q \in 1..Len(owner) : owner[p] = owner[q] => p = q

QuadsInv == /\ face # 1 => voxelIt \in blocks
            /\ PushedBefore /\ BeforePushed /\ PushedOnce

LEMMA QuadsInit == ASSUME Mesh!Init PROVE QuadsInv
<1>1. blocks \subseteq Int
  BY MeshTypes DEF Mesh!Init, Mesh!Voxels, Mesh!VoxelCount
<1>2. Len(owner) = 0 /\ voxelIt = 0 /\ face = 1
  BY DEF Mesh!Init
<1>3. blocks \subseteq Nat
  <2>1. PICK n \in Nat : n = Mesh!VoxelCount
    BY MeshTypes DEF Mesh!VoxelCount
  <2> QED BY <2>1 DEF Mesh!Init, Mesh!Voxels
<1> QED BY <1>2, <1>3 DEF QuadsInv, PushedBefore, BeforePushed, PushedOnce, Before, BeforeAt

LEMMA BlocksAre == ASSUME MeshPlaces PROVE blocks \subseteq Nat /\ voxelIt \in Nat /\ face \in 1..6
  BY MeshTypes DEF MeshPlaces, Mesh!Voxels, Mesh!VoxelCount

LEMMA OnesOwner ==
    ASSUME NEW q \in 1..Len(owner), MeshPushed, MeshPlaces
    PROVE  owner[q] = <<owner[q][1], owner[q][2]>> /\ owner[q][2] \in 1..6
<1>1. owner[q] \in Mesh!Voxels \X (1..6)
  BY DEF MeshPushed
<1> QED BY <1>1

LEMMA QuadsNext == ASSUME MeshInv, QuadsInv, [Mesh!Next]_(Mesh!vars) PROVE QuadsInv'
<1>1. blocks \subseteq Nat /\ voxelIt \in Nat /\ face \in 1..6
  BY BlocksAre DEF MeshInv
<1>2. CASE Mesh!SkipVoxel
  <2>1. /\ voxelIt \notin blocks /\ face = 1
        /\ voxelIt' = voxelIt + 1 /\ UNCHANGED <<blocks, face, owner>>
    BY <1>2 DEF QuadsInv, Mesh!SkipVoxel
  <2>2. \A v \in blocks, f \in 1..6 : BeforeAt(v, f, voxelIt', face') <=> Before(v, f)
    BY <2>1, <1>1 DEF Before, BeforeAt
  <2>3. \A q \in 1..Len(owner) : owner[q][2] \in 1..6
    BY OnesOwner DEF MeshInv
  <2>4. PushedBefore'
    BY <2>1, <2>2, <2>3, <1>1 DEF PushedBefore, QuadsInv, Before, BeforeAt
  <2>5. BeforePushed'
    BY <2>1, <2>2 DEF BeforePushed, QuadsInv, Before, BeforeAt
  <2> QED BY <2>1, <2>4, <2>5 DEF PushedOnce, QuadsInv
<1>3. CASE Mesh!PushFace
  <2>1. PICK n \in Nat : n = Len(owner)
    BY DEF MeshInv, MeshPushed
  <2>2. /\ Len(owner') = n + 1 /\ owner'[n + 1] = <<voxelIt, face>>
        /\ \A q \in 1..n : owner'[q] = owner[q]
    BY <1>3, <2>1 DEF Mesh!PushFace, MeshInv, MeshPushed
  <2>3. /\ voxelIt \in blocks /\ blocks' = blocks
        /\ IF face = 6 THEN face' = 1 /\ voxelIt' = voxelIt + 1
                       ELSE face' = face + 1 /\ voxelIt' = voxelIt
    BY <1>3 DEF Mesh!PushFace
  <2>4. \A v \in blocks, f \in 1..6 : BeforeAt(v, f, voxelIt', face') <=> Before(v, f) \/ (v = voxelIt /\ f = face)
    BY <2>3, <1>1 DEF Before, BeforeAt
  <2>5. \A q \in 1..n : owner[q] = <<owner[q][1], owner[q][2]>> /\ owner[q][2] \in 1..6
    BY <2>1, OnesOwner DEF MeshInv
  <2>6. PushedBefore'
    <3> SUFFICES ASSUME NEW q \in 1..(n + 1)
                 PROVE  owner'[q][1] \in blocks' /\ BeforeAt(owner'[q][1], owner'[q][2], voxelIt', face')
      BY <2>2 DEF PushedBefore, Before, BeforeAt
    <3>1. CASE q = n + 1
      <4>1. owner'[q][1] = voxelIt /\ owner'[q][2] = face
        BY <3>1, <2>2
      <4> QED BY <4>1, <2>3, <2>4, <1>1
    <3>2. CASE q \in 1..n
      <4>1. owner[q][1] \in blocks /\ Before(owner[q][1], owner[q][2])
        BY <3>2, <2>1 DEF QuadsInv, PushedBefore
      <4> QED BY <3>2, <4>1, <2>2, <2>3, <2>4, <2>5
    <3> QED BY <3>1, <3>2
  <2>7. BeforePushed'
    <3> SUFFICES ASSUME NEW v \in blocks, NEW f \in 1..6, BeforeAt(v, f, voxelIt', face')
                 PROVE  \E q \in 1..(n + 1) : owner'[q] = <<v, f>>
      BY <2>2, <2>3 DEF BeforePushed, Before, BeforeAt
    <3>1. CASE v = voxelIt /\ f = face
      BY <3>1, <2>2
    <3>2. CASE Before(v, f)
      <4>1. PICK q \in 1..n : owner[q] = <<v, f>>
        BY <3>2, <2>1 DEF QuadsInv, BeforePushed
      <4> QED BY <4>1, <2>2
    <3> QED BY <3>1, <3>2, <2>4
  <2>8. \A q \in 1..n : owner[q] # <<voxelIt, face>>
    BY <2>1, <1>1 DEF QuadsInv, PushedBefore, Before, BeforeAt
  <2>9. PushedOnce'
    <3> SUFFICES ASSUME NEW p \in 1..(n + 1), NEW q \in 1..(n + 1), owner'[p] = owner'[q]
                 PROVE  p = q
      BY <2>2 DEF PushedOnce
    <3>1. CASE p \in 1..n /\ q \in 1..n
      BY <3>1, <2>1, <2>2 DEF QuadsInv, PushedOnce
    <3>2. CASE p = n + 1 /\ q \in 1..n
      BY <3>2, <2>2, <2>8
    <3>3. CASE p \in 1..n /\ q = n + 1
      BY <3>3, <2>2, <2>8
    <3> QED BY <3>1, <3>2, <3>3
  <2>10. (face # 1 => voxelIt \in blocks)'
    BY <2>3
  <2> QED BY <2>6, <2>7, <2>9, <2>10 DEF QuadsInv
<1>4. CASE UNCHANGED Mesh!vars
  BY <1>4 DEF Mesh!vars, QuadsInv, PushedBefore, BeforePushed, PushedOnce, Before, BeforeAt
<1> QED BY <1>2, <1>3, <1>4 DEF Mesh!Next

LEMMA QuadsExact == MeshInv /\ QuadsInv => Mesh!QuadCountExact
<1> SUFFICES ASSUME MeshInv, QuadsInv, Mesh!Done
             PROVE  /\ { owner[q] : q \in 1..Len(owner) } = blocks \X (1..6)
                    /\ Mesh!MeshQuadCount = Len(owner)
                    /\ PushedOnce
  BY DEF Mesh!QuadCountExact, Mesh!Faces, PushedOnce
<1>1. \A v \in blocks : v < voxelIt
  <2>1. PICK n \in Nat : n = Mesh!VoxelCount
    BY MeshTypes DEF Mesh!VoxelCount
  <2> QED BY <2>1 DEF MeshInv, MeshPlaces, Mesh!Voxels, Mesh!Done
<1>2. \A x \in blocks \X (1..6) : \E q \in 1..Len(owner) : owner[q] = x
  <2> TAKE x \in blocks \X (1..6)
  <2>1. x = <<x[1], x[2]>> /\ x[1] \in blocks /\ x[2] \in 1..6
    OBVIOUS
  <2>2. Before(x[1], x[2])
    BY <1>1, <2>1 DEF Before, BeforeAt
  <2>3. \E q \in 1..Len(owner) : owner[q] = <<x[1], x[2]>>
    BY <2>1, <2>2 DEF QuadsInv, BeforePushed
  <2> QED BY <2>1, <2>3
<1>3. \A q \in 1..Len(owner) : owner[q] \in blocks \X (1..6)
  <2> TAKE q \in 1..Len(owner)
  <2>1. owner[q] = <<owner[q][1], owner[q][2]>> /\ owner[q][2] \in 1..6
    BY OnesOwner DEF MeshInv
  <2>2. owner[q][1] \in blocks
    BY DEF QuadsInv, PushedBefore
  <2> QED BY <2>1, <2>2
<1>4. Mesh!MeshQuadCount = Len(owner)
  BY DEF Mesh!MeshQuadCount, Mesh!OpaqueIndexCount, MeshInv, MeshPushed
<1> QED BY <1>2, <1>3, <1>4 DEF QuadsInv

(* Once the loop has ended, the mesh has the six faces of each solid voxel *)
(* and of no other, none twice, and cullChunk's divisions give their       *)
(* number (chunk.cpp:54-250).                                              *)
THEOREM QuadsCounted == MCSpec => []Mesh!QuadCountExact
<1>1. MCInit => QuadsInv
  BY QuadsInit DEF MCInit
<1>2. ASSUME MeshInv, QuadsInv, [MCNext]_all PROVE QuadsInv'
  <2>1. [Mesh!Next]_(Mesh!vars)
    BY <1>2 DEF MCNext, all, mesh, Mesh!vars
  <2> QED BY <2>1, <1>2, QuadsNext
<1> QED BY <1>1, <1>2, MeshInvariance, QuadsExact, PTL DEF MCSpec

-----------------------------------------------------------------------------
\* The culling shader: arithmetic and cardinalities.

LEMMA DivMod ==
    ASSUME NEW n \in Nat, NEW d \in Nat \ {0}
    PROVE  /\ n \div d \in Nat
           /\ n % d \in 0..(d - 1)
           /\ n = d * (n \div d) + (n % d)
OBVIOUS

\* A quotient and a remainder determine each other.
LEMMA RemainderUnique ==
    ASSUME NEW d \in Nat \ {0}, NEW q \in Nat, NEW r \in 0..(d - 1)
    PROVE  (d * q + r) % d = r
<1> DEFINE n == d * q + r
           p == n \div d
           s == n % d
<1>1. n \in Nat /\ d * q \in Nat
  OBVIOUS
<1>2. p \in Nat /\ s \in 0..(d - 1) /\ n = d * p + s
  BY <1>1, DivMod
<1> HIDE DEF p, s
<1>3. d * (p - q) = r - s
  BY <1>1, <1>2
<1>4. ~ p > q
  <2>1. p > q => p - q >= 1
    BY <1>2
  <2>2. p - q >= 1 => d * (p - q) >= d
    BY <1>2
  <2> QED
    BY <1>2, <1>3, <2>1, <2>2
<1>5. ~ q > p
  <2>1. q > p => q - p >= 1
    BY <1>2
  <2>2. q - p >= 1 => d * (q - p) >= d
    BY <1>2
  <2>3. d * (q - p) = s - r
    BY <1>1, <1>2
  <2> QED
    BY <1>2, <2>1, <2>2, <2>3
<1>6. p = q
  BY <1>2, <1>4, <1>5
<1> QED
  BY <1>2, <1>3, <1>6 DEF s

\* Adding in two wrapping steps is adding once and wrapping.
LEMMA AddWraps ==
    ASSUME NEW a \in Nat, NEW b \in Nat, NEW m \in Nat \ {0}
    PROVE  ((a % m) + b) % m = (a + b) % m
<1> DEFINE c == (a % m) + b
           q == a \div m
           p == c \div m
           r == c % m
<1>1. q \in Nat /\ a % m \in 0..(m - 1) /\ a = m * q + (a % m)
  BY DivMod
<1>2. c \in Nat
  BY <1>1
<1>3. p \in Nat /\ r \in 0..(m - 1) /\ c = m * p + r
  BY <1>2, DivMod
<1> HIDE DEF q, p, r
<1>4. a + b = m * q + m * p + r
  BY <1>1, <1>3
<1>5. q + p \in Nat /\ m * (q + p) = m * q + m * p
  BY <1>1, <1>3
<1>6. (m * (q + p) + r) % m = r
  BY <1>3, <1>5, RemainderUnique
<1> QED
  BY <1>4, <1>5, <1>6 DEF r

\* cullChunk rounds the number of groups up: every quad has an invocation.
LEMMA QuadsLaunched ==
    /\ ThreadGroupCount * GroupSize \in Nat
    /\ Quads \subseteq Invocations
    /\ QuadCount > 0 <=> 0 \in Invocations
<1> DEFINE n == QuadCount + GroupSize - 1
           t == n \div GroupSize
<1>1. n \in Nat /\ GroupSize \in Nat \ {0} /\ QuadCount \in Nat
  BY CountsAssumption
<1>2. t \in Nat /\ n % GroupSize \in 0..(GroupSize - 1) /\ n = GroupSize * t + (n % GroupSize)
  BY <1>1, DivMod
<1> QED
  BY <1>1, <1>2 DEF Quads, Invocations, ThreadGroupCount

LEMMA QuadSets ==
    ASSUME NEW S, S \subseteq Quads
    PROVE  /\ IsFiniteSet(S)
           /\ Cardinality(S) \in Nat
           /\ Cardinality(S) <= QuadCount
<1>1. IsFiniteSet(Quads) /\ Cardinality(Quads) = QuadCount
  BY CountsAssumption, FS_Interval DEF Quads
<1> QED
  BY <1>1, FS_Subset, FS_CardinalityType

LEMMA Added ==
    ASSUME NEW S, S \subseteq Quads, NEW q \in Quads, q \notin S
    PROVE  Cardinality(S \cup {q}) = Cardinality(S) + 1
BY QuadSets, FS_AddElement

-----------------------------------------------------------------------------
\* Type correctness.

LEMMA NoWrap ==
    ASSUME NEW n \in 0..(WordMod - 1)
    PROVE  n % WordMod = n
<1>1. WordMod \in Nat \ {0} /\ WordMod * 0 + n = n
  BY WordAssumption
<1> QED
  BY <1>1, RemainderUnique

LEMMA ReserveType ==
    ASSUME NEW n \in Nat
    PROVE  Reserve(n) \in 0..(WordMod - 1)
<1>1. WordMod \in Nat \ {0}
  BY CountsAssumption, WordAssumption
<1> QED
  BY <1>1, DivMod DEF Reserve

\* An invocation that copies has a quad and words left to copy.
Progress ==
    \A i \in Invocations :
        /\ pc[i] = "reset" => i = 0
        /\ pc[i] \in {"reset", "cull"} => stored[i] = 0
        /\ pc[i] = "store" => i \in visible /\ stored[i] \in 0..2

TypeInv == TypeOK /\ Progress

LEMMA TypeInit == Init => TypeInv
<1> SUFFICES ASSUME Init
             PROVE  TypeInv
  OBVIOUS
<1>1. TypeOK
  BY CountsAssumption, WordAssumption DEF TypeOK, Init
<1>2. Progress
  BY DEF Progress, Init
<1> QED
  BY <1>1, <1>2 DEF TypeInv

LEMMA TypeStep == TypeInv /\ [Next]_vars => TypeInv'
<1> SUFFICES ASSUME TypeInv, [Next]_vars
             PROVE  TypeInv'
  OBVIOUS
<1> USE DEF TypeInv
<1>1. CASE Dispatch
  <2>1. TypeOK'
    BY <1>1, CountsAssumption DEF TypeOK, Dispatch
  <2>2. Progress'
    BY <1>1 DEF TypeOK, Progress, Dispatch
  <2> QED
    BY <2>1, <2>2
<1>2. ASSUME NEW i \in Invocations, Reset(i)
      PROVE  TypeInv'
  <2>1. TypeOK'
    BY <1>2, CountsAssumption, WordAssumption DEF TypeOK, Reset
  <2>2. Progress'
    BY <1>2 DEF TypeOK, Progress, Reset
  <2> QED
    BY <2>1, <2>2
<1>3. ASSUME NEW i \in Invocations, Skip(i)
      PROVE  TypeInv'
  <2>1. TypeOK'
    BY <1>3 DEF TypeOK, Skip
  <2>2. Progress'
    BY <1>3 DEF TypeOK, Progress, Skip
  <2> QED
    BY <2>1, <2>2
<1>4. ASSUME NEW i \in Invocations, Claim(i)
      PROVE  TypeInv'
  <2>1. count' \in 0..(WordMod - 1)
    BY <1>4, ReserveType DEF TypeOK, Claim
  <2>2. early' \subseteq Quads /\ late' \subseteq Quads
    BY <1>4 DEF TypeOK, Claim
  <2>3. /\ pc' \in [Invocations -> {"reset", "cull", "store", "done"}]
        /\ claim' \in [Invocations -> 0..(WordMod - 1)]
    BY <1>4 DEF TypeOK, Claim
  <2>4. TypeOK'
    BY <1>4, <2>1, <2>2, <2>3 DEF TypeOK, Claim
  <2>5. Progress'
    BY <1>4 DEF TypeOK, Progress, Claim
  <2> QED
    BY <2>4, <2>5
<1>5. ASSUME NEW i \in Invocations, Store(i)
      PROVE  TypeInv'
  <2>1. i \in Quads /\ stored[i] \in 0..2
    BY <1>5 DEF TypeOK, Progress, Store
  <2>2. out' \in [OutWords -> (Quads \X (0..2)) \cup {Undefined}]
    BY <1>5, <2>1 DEF TypeOK, Store
  <2>3. /\ pc' \in [Invocations -> {"reset", "cull", "store", "done"}]
        /\ stored' \in [Invocations -> 0..3]
    BY <1>5, <2>1 DEF TypeOK, Store
  <2>4. TypeOK'
    BY <1>5, <2>2, <2>3 DEF TypeOK, Store
  <2>5. Progress'
    BY <1>5, <2>1 DEF TypeOK, Progress, Store
  <2> QED
    BY <2>4, <2>5
<1>6. CASE UNCHANGED vars
  BY <1>6 DEF TypeOK, Progress, vars
<1> QED
  BY <1>1, <1>2, <1>3, <1>4, <1>5, <1>6 DEF Next, Step

(* The types hold in every reachable state; in particular no invocation    *)
(* copies a fourth word and no copied word comes from outside the mesh.    *)
THEOREM CullTypesCorrect == Spec => []TypeOK
<1>1. TypeInv => TypeOK
  BY DEF TypeInv
<1> QED
  BY <1>1, TypeInit, TypeStep, PTL DEF Spec

-----------------------------------------------------------------------------
\* The inductive invariant.

\* The histories: who has claimed, and on which side of the reset.
Histories ==
    /\ early \cap late = {}
    /\ early \cup late \subseteq visible
    /\ \A q \in early \cup late : pc[q] \in {"store", "done"}
    /\ \A i \in Invocations : pc[i] = "store" => i \in early \cup late
    /\ \A q \in early \cup late : pc[q] = "done" => stored[q] = 3
    /\ dispatches > 0 => \A q \in visible : pc[q] = "done" => q \in early \cup late
    /\ dispatches = 0 => Idle /\ early = {} /\ late = {}
    /\ QuadCount > 0 => 0 \notin early

CullInv ==
    /\ TypeInv
    /\ Histories
    /\ CountAccounting
    /\ LateClaimsDense
    /\ LateWordsIntact

\* With no late claim there is nothing to say of late claims.
LEMMA NoneLate ==
    ASSUME late = {}
    PROVE  LateClaimsDense /\ LateWordsIntact
<1>1. Cardinality(late) = 0
  BY FS_EmptySet
<1> QED
  BY <1>1 DEF LateClaimsDense, LateWordsIntact

LEMMA CullInvInit == Init => CullInv
<1> SUFFICES ASSUME Init
             PROVE  CullInv
  OBVIOUS
<1>1. TypeInv
  BY TypeInit
<1>2. Histories
  BY QuadsLaunched DEF Init, Histories, Idle, Quads
<1>3. CountAccounting
  BY DEF Init, CountAccounting
<1>4. LateClaimsDense /\ LateWordsIntact
  BY NoneLate DEF Init
<1> QED
  BY <1>1, <1>2, <1>3, <1>4 DEF CullInv

LEMMA DispatchStep == CullInv /\ Dispatch => CullInv'
<1> SUFFICES ASSUME CullInv, Dispatch
             PROVE  CullInv'
  OBVIOUS
<1>1. TypeInv'
  BY TypeStep DEF CullInv, Next
<1>2. early' = {} /\ late' = {} /\ Cardinality({}) = 0
  BY FS_EmptySet DEF Dispatch
<1>3. Histories'
  BY <1>2, QuadsLaunched DEF CullInv, TypeInv, TypeOK, Histories, Dispatch
<1>4. CountAccounting'
  <2>1. QuadCount > 0 => pc'[0] = "reset"
    BY QuadsLaunched DEF Dispatch
  <2>2. count' \in 0..(WordMod - 1) /\ start' = count'
    BY <1>1 DEF CullInv, TypeInv, TypeOK, Dispatch
  <2>3. (start' + 6 * 0) % WordMod = count'
    BY <2>2, NoWrap
  <2> QED
    BY <1>2, <2>1, <2>2, <2>3, WordAssumption DEF CountAccounting
<1>5. LateClaimsDense' /\ LateWordsIntact'
  BY <1>2 DEF LateClaimsDense, LateWordsIntact
<1> QED
  BY <1>1, <1>3, <1>4, <1>5 DEF CullInv

LEMMA ResetStep == ASSUME NEW i \in Invocations, CullInv, Reset(i) PROVE CullInv'
<1>1. TypeInv'
  BY TypeStep DEF CullInv, Next, Step
<1>2. late = {} /\ late' = {} /\ i = 0 /\ dispatches > 0 /\ QuadCount > 0
  <2>1. i = 0 /\ QuadCount > 0
    BY QuadsLaunched DEF Reset
  <2>2. dispatches > 0
    BY DEF CullInv, TypeInv, TypeOK, Histories, Idle, Reset
  <2> QED
    BY <2>1, <2>2 DEF CullInv, CountAccounting, Reset
<1>3. Histories'
  BY <1>2 DEF CullInv, TypeInv, TypeOK, Histories, Idle, Reset
<1>4. CountAccounting'
  BY <1>2, FS_EmptySet DEF CullInv, TypeInv, TypeOK, CountAccounting, Reset
<1>5. LateClaimsDense' /\ LateWordsIntact'
  BY <1>2, FS_EmptySet DEF LateClaimsDense, LateWordsIntact
<1> QED
  BY <1>1, <1>3, <1>4, <1>5 DEF CullInv

LEMMA SkipStep == ASSUME NEW i \in Invocations, CullInv, Skip(i) PROVE CullInv'
<1>1. TypeInv'
  BY TypeStep DEF CullInv, Next, Step
<1>2. Histories'
  <2>1. /\ i \notin visible
        /\ dispatches # 0
        /\ i \notin early \cup late
    <3>1. visible \subseteq 0..(QuadCount - 1) /\ QuadCount \in Nat
      BY CountsAssumption DEF CullInv, TypeInv, TypeOK, Quads
    <3>2. i \notin visible
      <4>1. ~ (i < QuadCount /\ i \in visible)
        BY DEF Skip
      <4>2. i \in visible => i \in 0..(QuadCount - 1)
        BY <3>1
      <4>3. i \in 0..(QuadCount - 1) => i < QuadCount
        BY CountsAssumption
      <4> QED
        BY <4>1, <4>2, <4>3
    <3>3. dispatches # 0
      BY DEF CullInv, Histories, Idle, Skip
    <3>4. i \notin early \cup late
      BY DEF CullInv, Histories, Skip
    <3> QED
      BY <3>2, <3>3, <3>4
  <2>2. \A q \in Invocations \ {i} : pc'[q] = pc[q]
    BY DEF CullInv, TypeInv, TypeOK, Skip
  <2>3. pc'[i] = "done" /\ visible \subseteq Invocations
    BY QuadsLaunched DEF CullInv, TypeInv, TypeOK, Skip
  <2> QED
    BY <2>1, <2>2, <2>3 DEF CullInv, Histories, Skip
<1>3. CountAccounting'
  BY QuadsLaunched DEF CullInv, TypeInv, TypeOK, CountAccounting, Skip
<1>4. LateClaimsDense'
  BY DEF CullInv, LateClaimsDense, Skip
<1>5. LateWordsIntact'
  <2>1. UNCHANGED <<out, claim, stored, early, late>>
    BY DEF Skip
  <2> QED
    BY <2>1 DEF CullInv, LateWordsIntact, Triple
<1> QED
  BY <1>1, <1>2, <1>3, <1>4, <1>5 DEF CullInv

\* A claim made before the reset joins the early ones and touches no other.
LEMMA EarlyClaimStep ==
    ASSUME NEW i \in Invocations, CullInv, Claim(i), pc[0] = "reset"
    PROVE  CullInv'
<1>1. TypeInv'
  BY TypeStep DEF CullInv, Next, Step
<1>2. /\ i \in Quads
      /\ QuadCount > 0
      /\ 0 \in Invocations
      /\ i # 0
      /\ dispatches # 0
      /\ i \notin early \cup late
      /\ early' = early \cup {i}
      /\ pc'[0] = "reset"
  <2>1. i \in Quads /\ QuadCount > 0
    BY CountsAssumption DEF CullInv, TypeInv, TypeOK, Quads, Claim
  <2>2. 0 \in Invocations
    BY <2>1, QuadsLaunched
  <2>3. i # 0 /\ early' = early \cup {i} /\ i \notin early \cup late
    BY DEF CullInv, Histories, Claim
  <2>4. dispatches # 0
    BY DEF CullInv, Histories, Idle, Claim
  <2>5. pc'[0] = "reset"
    BY <2>2, <2>3 DEF CullInv, TypeInv, TypeOK, Claim
  <2> QED
    BY <2>1, <2>2, <2>3, <2>4, <2>5
<1>3. late = {} /\ late' = {} /\ dispatches > 0
  BY <1>2 DEF CullInv, TypeInv, TypeOK, CountAccounting, Claim
<1>4. Histories'
  <2>1. pc' = [pc EXCEPT ![i] = "store"] /\ UNCHANGED <<visible, stored, dispatches>>
    BY DEF Claim
  <2>2. visible \subseteq Invocations /\ i \in visible
    BY QuadsLaunched DEF CullInv, TypeInv, TypeOK, Claim
  <2>3. pc \in [Invocations -> {"reset", "cull", "store", "done"}]
    BY DEF CullInv, TypeInv, TypeOK
  <2> QED
    BY <1>2, <1>3, <2>1, <2>2, <2>3 DEF CullInv, Histories
<1>5. CountAccounting'
  <2>1. count' = (count + 6) % WordMod /\ start' = start
    BY DEF Claim, Reserve
  <2>2. count = (start + 6 * Cardinality(early)) % WordMod
    BY <1>2, <1>3 DEF CullInv, CountAccounting
  <2>3. Cardinality(early) \in Nat /\ Cardinality(early') = Cardinality(early) + 1
    BY <1>2, QuadSets, Added DEF CullInv, TypeInv, TypeOK
  <2>4. start \in Nat /\ WordMod \in Nat \ {0}
    BY CountsAssumption, WordAssumption DEF CullInv, TypeInv, TypeOK
  <2>5. count' = ((start + 6 * Cardinality(early)) + 6) % WordMod
    <3> DEFINE a == start + 6 * Cardinality(early)
    <3>1. a \in Nat /\ count = a % WordMod
      BY <2>2, <2>3, <2>4
    <3> HIDE DEF a
    <3>2. ((a % WordMod) + 6) % WordMod = (a + 6) % WordMod
      BY <2>4, <3>1, AddWraps
    <3>3. count' = (a + 6) % WordMod
      BY <2>1, <3>1, <3>2
    <3> QED
      BY <3>3 DEF a
  <2>6. count' = (start' + 6 * Cardinality(early')) % WordMod
    BY <2>1, <2>3, <2>4, <2>5
  <2> QED
    BY <1>2, <1>3, <2>6 DEF CountAccounting
<1>6. LateClaimsDense' /\ LateWordsIntact'
  BY <1>3, FS_EmptySet DEF LateClaimsDense, LateWordsIntact
<1> QED
  BY <1>1, <1>4, <1>5, <1>6 DEF CullInv

\* A claim made after the reset takes the next six indices.
LEMMA LateClaimStep ==
    ASSUME NEW i \in Invocations, CullInv, Claim(i), pc[0] # "reset"
    PROVE  CullInv'
<1> DEFINE n == Cardinality(late)
<1>1. TypeInv'
  BY TypeStep DEF CullInv, Next, Step
<1>2. /\ i \in Quads
      /\ QuadCount > 0
      /\ dispatches > 0
      /\ i \notin early \cup late
      /\ late' = late \cup {i}
      /\ early' = early
  <2>1. i \in Quads /\ QuadCount > 0
    BY CountsAssumption DEF CullInv, TypeInv, TypeOK, Quads, Claim
  <2>2. late' = late \cup {i} /\ early' = early /\ i \notin early \cup late
    BY DEF CullInv, Histories, Claim
  <2>3. dispatches # 0
    BY DEF CullInv, Histories, Idle, Claim
  <2> QED
    BY <2>1, <2>2, <2>3 DEF CullInv, TypeInv, TypeOK
<1>3. n \in Nat /\ Cardinality(late') = n + 1 /\ n + 1 <= QuadCount /\ count = 6 * n
  <2>1. late \subseteq Quads /\ late' \subseteq Quads
    BY <1>1 DEF CullInv, TypeInv, TypeOK
  <2>2. n \in Nat /\ Cardinality(late') = n + 1 /\ n + 1 <= QuadCount
    BY <1>2, <2>1, QuadSets, Added
  <2> QED
    BY <1>2, <2>2 DEF CullInv, CountAccounting
<1> HIDE DEF n
<1>4. Histories'
  <2>1. pc' = [pc EXCEPT ![i] = "store"] /\ UNCHANGED <<visible, stored, dispatches>>
    BY DEF Claim
  <2>2. visible \subseteq Invocations /\ i \in visible
    BY QuadsLaunched DEF CullInv, TypeInv, TypeOK, Claim
  <2>3. pc \in [Invocations -> {"reset", "cull", "store", "done"}]
    BY DEF CullInv, TypeInv, TypeOK
  <2> QED
    BY <1>2, <2>1, <2>2, <2>3 DEF CullInv, Histories
<1>5. CountAccounting'
  <2>1. count' = (6 * n + 6) % WordMod
    BY <1>3 DEF Claim, Reserve
  <2>2. 6 * n + 6 \in 0..(WordMod - 1)
    BY <1>3, CountsAssumption, WordAssumption
  <2>3. count' = 6 * Cardinality(late')
    BY <1>3, <2>1, <2>2, NoWrap
  <2>4. pc'[0] # "reset"
    BY <1>2, QuadsLaunched DEF CullInv, TypeInv, TypeOK, Claim
  <2> QED
    BY <2>3, <2>4 DEF CountAccounting
<1>6. /\ claim'[i] = 6 * n
      /\ \A q \in late : claim'[q] = claim[q]
  <2>1. early \cup late \subseteq Invocations /\ claim' = [claim EXCEPT ![i] = 6 * n]
    BY <1>3, QuadsLaunched DEF CullInv, TypeInv, TypeOK, Claim
  <2> QED
    BY <1>2, <2>1 DEF CullInv, TypeInv, TypeOK
<1>7. LateClaimsDense'
  <2>1. { claim[q] : q \in late } = { 6 * m : m \in 0..(n - 1) }
    BY DEF CullInv, LateClaimsDense, n
  <2>2. { claim'[q] : q \in late' } = { claim[q] : q \in late } \cup { 6 * n }
    BY <1>2, <1>6
  <2>3. { 6 * m : m \in 0..n } = { 6 * m : m \in 0..(n - 1) } \cup { 6 * n }
    BY <1>3
  <2>4. \A q \in late : claim'[q] # 6 * n
    <3> SUFFICES ASSUME NEW q \in late, claim'[q] = 6 * n
                 PROVE  FALSE
      OBVIOUS
    <3>1. PICK m \in 0..(n - 1) : claim[q] = 6 * m
      BY <2>1
    <3> QED
      BY <1>3, <1>6, <3>1
  <2>5. \A q, r \in late' : claim'[q] = claim'[r] => q = r
    BY <1>2, <1>6, <2>4 DEF CullInv, LateClaimsDense
  <2>6. Cardinality(late') - 1 = n
    BY <1>3
  <2>7. { claim'[q] : q \in late' } = { 6 * m : m \in 0..(Cardinality(late') - 1) }
    BY <2>1, <2>2, <2>3, <2>6
  <2> QED
    BY <2>5, <2>7 DEF LateClaimsDense
<1>8. LateWordsIntact'
  <2> SUFFICES ASSUME NEW q \in late', NEW k \in 0..(stored[q] - 1)
               PROVE  (\/ out[WordAt(claim[q], k)] = <<q, k>>
                       \/ \E e \in early : WordAt(claim[q], k) \in Triple(e))'
    BY DEF LateWordsIntact, Claim
  <2>1. q \in late
    <3>1. stored[i] = 0
      BY DEF CullInv, TypeInv, Progress, Claim
    <3> QED
      BY <1>2, <3>1
  <2>2. claim'[q] = claim[q] /\ out' = out
    BY <1>6, <2>1 DEF Claim
  <2>3. \A e \in early : Triple(e)' = Triple(e)
    <3>1. \A e \in early : claim'[e] = claim[e]
      BY <1>2, QuadsLaunched DEF CullInv, TypeInv, TypeOK, Claim
    <3> QED
      BY <3>1 DEF Triple
  <2> QED
    BY <1>2, <2>1, <2>2, <2>3 DEF CullInv, LateWordsIntact
<1> QED
  BY <1>1, <1>4, <1>5, <1>7, <1>8 DEF CullInv

\* The late claims fit in the output and stay apart.
LEMMA DenseFits == CullInv => LateTriplesFit
<1> SUFFICES ASSUME CullInv
             PROVE  LateTriplesFit
  OBVIOUS
<1> DEFINE n == Cardinality(late)
<1>1. n \in Nat /\ n <= QuadCount /\ QuadCount \in Nat
  BY QuadSets, CountsAssumption DEF CullInv, TypeInv, TypeOK
<1>2. { claim[q] : q \in late } = { 6 * m : m \in 0..(n - 1) }
  BY DEF CullInv, LateClaimsDense
<1> HIDE DEF n
<1>3. ASSUME NEW q \in late
      PROVE  \E m \in 0..(n - 1) :
               /\ claim[q] = 6 * m
               /\ \A k \in 0..2 : WordAt(claim[q], k) = 3 * m + k
  <2>1. PICK m \in 0..(n - 1) : claim[q] = 6 * m
    BY <1>2
  <2>2. (6 * m) \div 2 = 3 * m
    BY <1>1
  <2> QED
    BY <1>1, <2>1, <2>2 DEF WordAt
<1>4. ASSUME NEW q \in late
      PROVE  Triple(q) \subseteq OutWords
  <2>1. PICK m \in 0..(n - 1) : \A k \in 0..2 : WordAt(claim[q], k) = 3 * m + k
    BY <1>3
  <2> QED
    BY <1>1, <2>1 DEF Triple, OutWords
<1>5. ASSUME NEW q \in late, NEW r \in late \ {q}
      PROVE  Triple(q) \cap Triple(r) = {}
  <2>1. PICK m \in 0..(n - 1) : /\ claim[q] = 6 * m
                                /\ \A k \in 0..2 : WordAt(claim[q], k) = 3 * m + k
    BY <1>3
  <2>2. PICK p \in 0..(n - 1) : /\ claim[r] = 6 * p
                                /\ \A k \in 0..2 : WordAt(claim[r], k) = 3 * p + k
    BY <1>3
  <2>3. m # p
    BY <2>1, <2>2 DEF CullInv, LateClaimsDense
  <2>4. \A j, k \in 0..2 : 3 * m + j # 3 * p + k
    BY <1>1, <2>3
  <2> QED
    BY <2>1, <2>2, <2>4 DEF Triple
<1> QED
  BY <1>4, <1>5 DEF LateTriplesFit

LEMMA StoreStep == ASSUME NEW i \in Invocations, CullInv, Store(i) PROVE CullInv'
<1>1. TypeInv'
  BY TypeStep DEF CullInv, Next, Step
<1>2. /\ i \in early \cup late
      /\ stored[i] \in 0..2
      /\ dispatches # 0
  BY DEF CullInv, TypeInv, Progress, Histories, Idle, Store
<1>3. /\ pc' = [pc EXCEPT ![i] = IF stored[i] = 2 THEN "done" ELSE "store"]
      /\ stored' = [stored EXCEPT ![i] = stored[i] + 1]
      /\ UNCHANGED <<visible, count, claim, dispatches, start, early, late>>
  BY DEF Store
<1>4. /\ visible \subseteq Invocations
      /\ early \cup late \subseteq Invocations
      /\ pc \in [Invocations -> {"reset", "cull", "store", "done"}]
      /\ stored \in [Invocations -> 0..3]
  BY QuadsLaunched DEF CullInv, TypeInv, TypeOK
<1>5. Histories'
  BY <1>2, <1>3, <1>4 DEF CullInv, Histories
<1>6. CountAccounting'
  <2>1. QuadCount > 0 => (pc'[0] = "reset" <=> pc[0] = "reset")
    BY <1>3, <1>4, QuadsLaunched DEF Store
  <2> QED
    BY <1>3, <2>1 DEF CullInv, CountAccounting
<1>7. LateClaimsDense'
  BY <1>3 DEF CullInv, LateClaimsDense
<1>8. LateWordsIntact'
  <2> SUFFICES ASSUME NEW q \in late, NEW k \in 0..(stored'[q] - 1)
               PROVE  \/ out'[WordAt(claim[q], k)] = <<q, k>>
                      \/ \E e \in early : WordAt(claim[q], k) \in Triple(e)
    BY <1>3 DEF LateWordsIntact, Triple
  <2> DEFINE w == WordAt(claim[q], k)
             x == WordAt(claim[i], stored[i])
  <2>1. k \in 0..2 /\ w \in Triple(q) /\ x \in Triple(i)
    <3>1. stored'[q] \in 0..3
      BY <1>1, <1>4 DEF TypeInv, TypeOK
    <3> QED
      BY <1>2, <3>1 DEF Triple
  <2>2. w \in OutWords
    BY <2>1, DenseFits DEF LateTriplesFit
  <2>3. out'[w] = IF w = x THEN <<i, stored[i]>> ELSE out[w]
    BY <2>2 DEF Store
  <2>4. CASE q = i
    <3>1. stored'[i] = stored[i] + 1
      BY <1>3, <1>4
    <3>2. CASE k = stored[i]
      BY <2>3, <2>4, <3>2
    <3>3. CASE k # stored[i]
      <4>1. k \in 0..(stored[i] - 1)
        BY <1>2, <2>4, <3>1, <3>3
      <4>2. w # x
        <5>1. claim[i] \in Nat
          BY <1>4 DEF CullInv, TypeInv, TypeOK
        <5> QED
          BY <1>2, <2>1, <2>4, <3>3, <5>1 DEF WordAt
      <4> QED
        BY <2>3, <2>4, <4>1, <4>2 DEF CullInv, LateWordsIntact
    <3> QED
      BY <3>2, <3>3
  <2>5. CASE q # i /\ i \in late
    <3>1. w # x
      BY <2>1, <2>5, DenseFits DEF LateTriplesFit
    <3>2. k \in 0..(stored[q] - 1)
      BY <1>3, <1>4, <2>5
    <3> QED
      BY <2>3, <3>1, <3>2 DEF CullInv, LateWordsIntact
  <2>6. CASE q # i /\ i \in early
    <3>1. k \in 0..(stored[q] - 1)
      BY <1>3, <1>4, <2>6
    <3> QED
      BY <2>1, <2>3, <2>6, <3>1 DEF CullInv, LateWordsIntact
  <2> QED
    BY <1>2, <2>4, <2>5, <2>6
<1> QED
  BY <1>1, <1>5, <1>6, <1>7, <1>8 DEF CullInv

LEMMA CullStutter == CullInv /\ UNCHANGED vars => CullInv'
<1> SUFFICES ASSUME CullInv, UNCHANGED vars
             PROVE  CullInv'
  OBVIOUS
<1>1. TypeInv'
  BY TypeStep DEF CullInv
<1>2. Histories' /\ CountAccounting'
  BY DEF CullInv, Histories, CountAccounting, Idle, vars
<1>3. UNCHANGED <<out, claim, stored, early, late>>
  BY DEF vars
<1>4. LateClaimsDense'
  BY <1>3 DEF CullInv, LateClaimsDense
<1>5. LateWordsIntact'
  BY <1>3 DEF CullInv, LateWordsIntact, Triple
<1> QED
  BY <1>1, <1>2, <1>4, <1>5 DEF CullInv

LEMMA CullInvariance == Spec => []CullInv
<1>1. CullInv /\ [Next]_vars => CullInv'
  BY DispatchStep, ResetStep, SkipStep, EarlyClaimStep, LateClaimStep, StoreStep, CullStutter
     DEF Next, Step
<1> QED
  BY <1>1, CullInvInit, PTL DEF Spec

\* What the draw will find once every invocation has ended.
LEMMA Finished == CullInv => FinishedResult
<1> SUFFICES ASSUME CullInv, Idle, QuadCount > 0, dispatches > 0
             PROVE  /\ count = 6 * (Cardinality(visible) - Cardinality(early))
                    /\ early = {} =>
                         { out[w] : w \in 0..(count \div 2 - 1) } = visible \X (0..2)
  BY DEF FinishedResult
<1> DEFINE n == Cardinality(late)
<1>1. /\ visible \subseteq Invocations
      /\ visible \subseteq Quads
      /\ 0 \in Invocations
      /\ \A q \in visible : pc[q] = "done"
  BY QuadsLaunched DEF CullInv, TypeInv, TypeOK, Idle
<1>2. early \cup late = visible
  BY <1>1 DEF CullInv, Histories
<1>3. n \in Nat /\ count = 6 * n
  <2>1. pc[0] # "reset"
    BY <1>1 DEF Idle
  <2>2. n \in Nat
    BY QuadSets DEF CullInv, TypeInv, TypeOK
  <2> QED
    BY <2>1, <2>2 DEF CullInv, CountAccounting
<1>4. Cardinality(visible) = Cardinality(early) + n
  <2>1. IsFiniteSet(early) /\ IsFiniteSet(late)
    BY QuadSets DEF CullInv, TypeInv, TypeOK
  <2>2. early \cap late = {}
    BY DEF CullInv, Histories
  <2>3. Cardinality(early \cup late) =
          Cardinality(early) + Cardinality(late) - Cardinality(early \cap late)
    BY <2>1, FS_Union
  <2>4. Cardinality(early \cap late) = 0 /\ Cardinality(early) \in Nat
    BY <2>1, <2>2, FS_EmptySet, FS_CardinalityType
  <2>5. Cardinality(visible) = Cardinality(early \cup late)
    BY <1>2
  <2>6. Cardinality(visible) = Cardinality(early) + n - 0
    BY <2>3, <2>4, <2>5
  <2> QED
    BY <1>3, <2>4, <2>6
<1>5. count = 6 * (Cardinality(visible) - Cardinality(early))
  BY <1>1, <1>3, <1>4, QuadSets DEF CullInv, TypeInv, TypeOK
<1>6. ASSUME early = {}
      PROVE  { out[w] : w \in 0..(count \div 2 - 1) } = visible \X (0..2)
  <2>1. late = visible /\ count \div 2 - 1 = 3 * n - 1
    BY <1>2, <1>3, <1>6
  <2>2. ASSUME NEW q \in late, NEW k \in 0..2
        PROVE  out[WordAt(claim[q], k)] = <<q, k>>
    <3>1. stored[q] = 3
      BY <1>1, <1>2 DEF CullInv, Histories
    <3>2. k \in 0..(stored[q] - 1)
      BY <3>1
    <3> QED
      BY <1>6, <3>2 DEF CullInv, LateWordsIntact
  <2>3. { claim[q] : q \in late } = { 6 * m : m \in 0..(n - 1) }
    BY DEF CullInv, LateClaimsDense
  <2> HIDE DEF n
  <2>4. ASSUME NEW q \in visible, NEW k \in 0..2
        PROVE  \E w \in 0..(3 * n - 1) : out[w] = <<q, k>>
    <3>1. PICK m \in 0..(n - 1) : claim[q] = 6 * m
      BY <2>1, <2>3
    <3>2. WordAt(claim[q], k) = 3 * m + k
      BY <1>3, <3>1 DEF WordAt
    <3>3. 3 * m + k \in 0..(3 * n - 1)
      BY <1>3
    <3> QED
      BY <2>1, <2>2, <3>2, <3>3
  <2>5. ASSUME NEW w \in 0..(3 * n - 1)
        PROVE  out[w] \in visible \X (0..2)
    <3> DEFINE m == w \div 3
               k == w % 3
    <3>1. m \in 0..(n - 1) /\ k \in 0..2 /\ w = 3 * m + k
      BY <1>3
    <3> HIDE DEF m, k
    <3>2. PICK q \in late : claim[q] = 6 * m
      BY <2>3, <3>1
    <3>3. WordAt(claim[q], k) = w
      BY <3>1, <3>2 DEF WordAt
    <3>4. out[w] = <<q, k>>
      BY <2>2, <3>1, <3>3
    <3> QED
      BY <2>1, <3>1, <3>4
  <2> QED
    BY <2>1, <2>4, <2>5
<1> QED
  BY <1>5, <1>6

-----------------------------------------------------------------------------
\* The theorems.

(* Whatever the interleaving, the count is the reset's zero plus six for   *)
(* each claim made after it; what was claimed before is forgotten.         *)
THEOREM CountsAccounted == Spec => []CountAccounting
<1>1. CullInv => CountAccounting
  BY DEF CullInv
<1> QED
  BY <1>1, CullInvariance, PTL

(* The late claims partition the indices below the count.                  *)
THEOREM ClaimsDense == Spec => []LateClaimsDense
<1>1. CullInv => LateClaimsDense
  BY DEF CullInv
<1> QED
  BY <1>1, CullInvariance, PTL

(* A late quad never writes outside the buffer nor on another late quad.   *)
THEOREM TriplesFit == Spec => []LateTriplesFit
BY DenseFits, CullInvariance, PTL

(* Only an early claim can damage the words of a late quad.                *)
THEOREM WordsIntact == Spec => []LateWordsIntact
<1>1. CullInv => LateWordsIntact
  BY DEF CullInv
<1> QED
  BY <1>1, CullInvariance, PTL

(* The pass loses six indices for each early claim and, without one,       *)
(* compacts exactly the survivors.                                         *)
THEOREM ResultFinished == Spec => []FinishedResult
BY Finished, CullInvariance, PTL
=============================================================================
