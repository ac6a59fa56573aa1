---------------------------- MODULE AppLifecycle ----------------------------
(***************************************************************************)
(* What main (src/main.cpp) acquires and releases, in the order of the     *)
(* code, with every failure of a call that the code looks at or ignores:   *)
(* the socket service and nxlink (src/nxlink.cpp), romfs, the three EGL    *)
(* objects (initEgl and deinitEgl in src/renderer/renderer.cpp) and the    *)
(* two shader programs.  What happens inside the frame loop is FrameLoop.  *)
(***************************************************************************)
EXTENDS Integers, FiniteSets

VARIABLES
    pc,        \* the next step of main
    sockets,   \* references held on the socket service
    nxlink,    \* s_nxlinkSock >= 0
    mounted,   \* romfs is mounted
    handle,    \* the non-null fields among _display, _surface, _context
    live,      \* the EGL objects that exist
    current,   \* eglMakeCurrent has succeeded
    shaders,   \* the shader objects that exist
    programs,  \* the shader programs that exist
    outcome,   \* how main has ended
    misuse     \* history: a release of what is not live, or GL without a context

vars == <<pc, sockets, nxlink, mounted, handle, live, current, shaders, programs, outcome, misuse>>

EglObjects == {"display", "surface", "context"}
Steps == {"nxlink", "romfs", "display", "surface", "context", "makeCurrent",
          "fail2", "fail1", "fail0", "cullProgram", "compute", "cullLink",
          "drawProgram", "vertex", "fragment", "drawLink", "loop",
          "deletePrograms", "deinitEgl", "deinitNxLink", "romfsExit", "end"}

TypeOK ==
    /\ pc \in Steps
    /\ sockets \in 0..1
    /\ nxlink \in BOOLEAN
    /\ mounted \in BOOLEAN
    /\ handle \subseteq EglObjects
    /\ live \subseteq EglObjects
    /\ current \in BOOLEAN
    /\ shaders \subseteq {"compute", "vertex", "fragment"}
    /\ programs \subseteq {"cull", "draw"}
    /\ outcome \in {"running", "success", "failure", "exit1", "abort"}
    /\ misuse \in BOOLEAN

Init ==
    /\ pc = "nxlink"
    /\ sockets = 0
    /\ nxlink = FALSE
    /\ mounted = FALSE
    /\ handle = {}
    /\ live = {}
    /\ current = FALSE
    /\ shaders = {}
    /\ programs = {}
    /\ outcome = "running"
    /\ misuse = FALSE

Goto(from, to) == pc = from /\ pc' = to

\* Where no context can be used, a GL call is misuse.
UsesGL == misuse' = (misuse \/ "context" \notin live)

\* The process ends here, whatever it still holds.
Ends(from, how) == Goto(from, "end") /\ outcome' = how

InitNxLinkMutant ==
    /\ Goto("nxlink", "romfs")
    /\ \/ UNCHANGED <<sockets, nxlink>>
       \/ sockets' = sockets + 1 /\ nxlink' \in BOOLEAN
    /\ UNCHANGED <<mounted, handle, live, current, shaders, programs, outcome, misuse>>
\* No socket service; or nxlinkStdio fails and it is given back; or both work.
InitNxLink ==
    /\ Goto("nxlink", "romfs")
    /\ \/ UNCHANGED <<sockets, nxlink>>
       \/ sockets' = sockets + 1 /\ nxlink' = TRUE
    /\ UNCHANGED <<mounted, handle, live, current, shaders, programs, outcome, misuse>>

\* A failure is printed and main goes on.
RomfsInit ==
    /\ Goto("romfs", "display")
    /\ mounted' \in BOOLEAN
    /\ UNCHANGED <<sockets, nxlink, handle, live, current, shaders, programs, outcome, misuse>>

Acquire(object) ==
    /\ handle' = handle \cup {object}
    /\ live' = live \cup {object}

\* initEgl: a call that fails jumps to the label that undoes what was done.
\* The choice of an API and of a configuration fail to the same label.
Create(object, next, label) ==
    /\ pc = object
    /\ \/ pc' = next /\ Acquire(object)
       \/ pc' = label /\ UNCHANGED <<handle, live>>
    /\ UNCHANGED <<sockets, nxlink, mounted, current, shaders, programs, outcome, misuse>>

NoConfig ==
    /\ Goto("surface", "fail1")
    /\ UNCHANGED <<sockets, nxlink, mounted, handle, live, current, shaders, programs, outcome, misuse>>

InitEglMutant == \/ Create("display", "surface", "fail0")
                 \/ NoConfig
                 \/ Create("surface", "context", "fail1")
                 \/ Create("context", "makeCurrent", "fail1")
InitEgl == \/ Create("display", "surface", "fail0")
           \/ NoConfig
           \/ Create("surface", "context", "fail1")
           \/ Create("context", "makeCurrent", "fail2")

\* The result of eglMakeCurrent is ignored.
MakeCurrent ==
    /\ Goto("makeCurrent", "cullProgram")
    /\ current' \in BOOLEAN
    /\ UNCHANGED <<sockets, nxlink, mounted, handle, live, shaders, programs, outcome, misuse>>

\* Destroying an object also clears its field.
Release(objects) ==
    /\ misuse' = (misuse \/ ~ objects \subseteq live)
    /\ live' = live \ objects
    /\ handle' = handle \ objects

Fail2 ==
    /\ Goto("fail2", "fail1")
    /\ Release({"surface"})
    /\ UNCHANGED <<sockets, nxlink, mounted, current, shaders, programs, outcome>>

Fail1Mutant ==
    /\ Goto("fail1", "fail0")
    /\ Release({"surface", "display"})
    /\ UNCHANGED <<sockets, nxlink, mounted, current, shaders, programs, outcome>>
Fail1 ==
    /\ Goto("fail1", "fail0")
    /\ Release({"display"})
    /\ UNCHANGED <<sockets, nxlink, mounted, current, shaders, programs, outcome>>

\* Init returns false and main returns at once.
Fail0 ==
    /\ Ends("fail0", "failure")
    /\ UNCHANGED <<sockets, nxlink, mounted, handle, live, current, shaders, programs, misuse>>

\* loadComputeShaderProgram and loadShaderProgram read their files first: an
\* unreadable one makes a vector of size -1, and the exception ends the process.
ReadFiles(from, to) ==
    /\ \/ ~ mounted /\ Ends(from, "abort")
       \/ mounted /\ Goto(from, to) /\ UNCHANGED outcome
    /\ UNCHANGED <<sockets, nxlink, mounted, handle, live, current, shaders, programs, misuse>>

\* Any text in the log ends the process, be it a warning; without one, the
\* compile status is not looked at.
Compile(from, to, stage) ==
    /\ UsesGL
    /\ shaders' = shaders \cup {stage}
    /\ \/ Ends(from, "exit1")
       \/ Goto(from, to) /\ UNCHANGED outcome
    /\ UNCHANGED <<sockets, nxlink, mounted, handle, live, current, programs>>

\* The link goes the same way; once linked, the shaders are deleted.
Link(from, to, name, stages) ==
    /\ UsesGL
    /\ programs' = programs \cup {name}
    /\ \/ Ends(from, "exit1") /\ UNCHANGED shaders
       \/ Goto(from, to) /\ shaders' = shaders \ stages /\ UNCHANGED outcome
    /\ UNCHANGED <<sockets, nxlink, mounted, handle, live, current>>

LoadPrograms ==
    \/ ReadFiles("cullProgram", "compute")
    \/ Compile("compute", "cullLink", "compute")
    \/ Link("cullLink", "drawProgram", "cull", {"compute"})
    \/ ReadFiles("drawProgram", "vertex")
    \/ Compile("vertex", "fragment", "vertex")
    \/ Compile("fragment", "drawLink", "fragment")
    \/ Link("drawLink", "loop", "draw", {"vertex", "fragment"})

\* The loop is left with KEY_PLUS or when the applet is closed.
LeaveLoop ==
    /\ Goto("loop", "deletePrograms")
    /\ UsesGL
    /\ UNCHANGED <<sockets, nxlink, mounted, handle, live, current, shaders, programs, outcome>>

DeletePrograms ==
    /\ Goto("deletePrograms", "deinitEgl")
    /\ UsesGL
    /\ programs' = {}
    /\ UNCHANGED <<sockets, nxlink, mounted, handle, live, current, shaders, outcome>>

\* deinitEgl looks at the fields, and terminates the display last.
DeinitEgl ==
    /\ Goto("deinitEgl", "deinitNxLink")
    /\ IF "display" \in handle THEN Release(handle) ELSE UNCHANGED <<handle, live, misuse>>
    /\ current' = FALSE
    /\ UNCHANGED <<sockets, nxlink, mounted, shaders, programs, outcome>>

DeinitNxLinkMutant ==
    /\ Goto("deinitNxLink", "romfsExit")
    /\ nxlink' = FALSE /\ sockets' = sockets - 1
    /\ UNCHANGED <<mounted, handle, live, current, shaders, programs, outcome, misuse>>
DeinitNxLink ==
    /\ Goto("deinitNxLink", "romfsExit")
    /\ IF nxlink THEN nxlink' = FALSE /\ sockets' = sockets - 1
                 ELSE UNCHANGED <<nxlink, sockets>>
    /\ UNCHANGED <<mounted, handle, live, current, shaders, programs, outcome, misuse>>

RomfsExit ==
    /\ Ends("romfsExit", "success")
    /\ mounted' = FALSE
    /\ UNCHANGED <<sockets, nxlink, handle, live, current, shaders, programs, misuse>>

Next == \/ InitNxLink \/ RomfsInit \/ InitEgl \/ MakeCurrent \/ Fail2 \/ Fail1 \/ Fail0
        \/ LoadPrograms
        \/ LeaveLoop \/ DeletePrograms \/ DeinitEgl \/ DeinitNxLink \/ RomfsExit

Spec == Init /\ [][Next]_vars

-----------------------------------------------------------------------------
(* No EGL object is destroyed twice or through a null field, and no GL     *)
(* function is called before the context exists or after it is destroyed   *)
(* (the three labels of initEgl against the order of main's shutdown).     *)
ReleasedOnceUsedLive == ~ misuse

(* Wherever initEgl stops, it has undone what it did: from its return on,  *)
(* there are all three EGL objects or none, and the fields say which.      *)
EglAllOrNothing ==
    /\ handle = live
    /\ outcome = "failure" => live = {}
    /\ shaders \cup programs # {} \/ pc = "loop" => live = EglObjects

(* A normal return gives everything back, with or without nxlink.          *)
SuccessReleasesAll ==
    /\ sockets = (IF nxlink THEN 1 ELSE 0)
    /\ outcome = "success" => sockets = 0 /\ live = {} /\ programs = {} /\ ~ mounted
=============================================================================
