-------------------------------- MODULE Game --------------------------------
(***************************************************************************)
(* main (src/main.cpp) as a whole: what it acquires, the frame loop while  *)
(* everything is there, and what it gives back once the loop is left.      *)
(* AppLifecycle models the two ends, FrameLoop the loop between them.      *)
(***************************************************************************)
EXTENDS FrameLoop

VARIABLES place, sockets, nxlink, mounted, handle, live, current, shaders,
          programs, outcome, misuse

App == INSTANCE AppLifecycle WITH pc <- place

ends == <<place, sockets, nxlink, mounted, handle, live, current, shaders,
          programs, outcome, misuse>>

InitGame == InitLoop /\ App!Init

\* Everything before the loop and after it.
Outside ==
    /\ place = "loop" => phase = "exit"
    /\ App!Next
    /\ UNCHANGED loopVars

\* One step of the loop.
InLoop ==
    /\ place = "loop"
    /\ LoopNext
    /\ UNCHANGED ends

NextGame == Outside \/ InLoop

Game == InitGame /\ [][NextGame]_<<loopVars, ends>>

-----------------------------------------------------------------------------
TypesOK == LoopTypeOK /\ App!TypeOK

(* No EGL object is destroyed twice or through a null field, no OpenGL     *)
(* function is called before the context exists or after it is destroyed,  *)
(* wherever initEgl stops there are all three EGL objects or none, and the *)
(* fields say which; and whenever the loop has a dispatch or a draw under  *)
(* way both programs it switches between are still there (main.cpp:33-170  *)
(* with the three labels of initEgl, renderer.cpp:304-311).                *)
ReleasedOnceUsedLive ==
    /\ App!ReleasedOnceUsedLive
    /\ App!EglAllOrNothing
    /\ phase \notin {"poll", "exit"} \/ (\E c \in Chunks : inFlight[c] # 0) =>
         live = App!EglObjects /\ programs = {"cull", "draw"}
=============================================================================
