----------------------------- MODULE CullShader -----------------------------
(***************************************************************************)
(* One chunk's culling pass: the compute shader romfs/shaders/cull.cs, run *)
(* by the dispatch that cullChunk (src/chunk.cpp) issues every frame.      *)
(*                                                                         *)
(* Each shader invocation tests one quad (six 16-bit indices, packed in    *)
(* three 32-bit words) and, when the quad survives, reserves six indices   *)
(* of the output with an atomicAdd on the indirect draw's count, then      *)
(* copies the three words.  Invocation 0 also resets that count, with no   *)
(* barrier between the reset and the other invocations' atomicAdds: a      *)
(* claim made before the reset is "early", one made after it is "late".    *)
(*                                                                         *)
(* Abstractions.  A word is the pair <<quad, 0..2>> it was copied from.    *)
(* The test of a quad reads only the static mesh (the test on the frustum  *)
(* is overwritten by the one on vertexPos0.x), so the set of survivors is  *)
(* chosen once.  The four other fields of the draw arguments are written   *)
(* by invocation 0 alone and left out.  A store outside the output buffer  *)
(* changes nothing in it.  The dispatches of one chunk do not overlap.     *)
(***************************************************************************)
EXTENDS Integers, FiniteSets

CONSTANTS
    QuadCount,      \* quads of the chunk, g_quadCount
    GroupSize,      \* local_size_x (64 in the code)
    WordMod,        \* the count is a 32-bit unsigned integer: 2^32
    InitialCounts,  \* what the undefined draw arguments may hold at first
    MaxDispatches   \* bound on the frames explored

ASSUME CountsAssumption == /\ QuadCount \in Nat
                           /\ GroupSize \in Nat \ {0}
                           /\ MaxDispatches \in Nat
ASSUME WordAssumption == /\ WordMod \in Nat
                         /\ 6 * QuadCount < WordMod
                         /\ InitialCounts \subseteq 0..(WordMod - 1)

Quads == 0..(QuadCount - 1)

ThreadGroupCountMutant == QuadCount \div GroupSize
ThreadGroupCount == (QuadCount + GroupSize - 1) \div GroupSize

Invocations == 0..(ThreadGroupCount * GroupSize - 1)

\* The output has the size of the input: three words for every quad.
OutWords == 0..(3 * QuadCount - 1)
Undefined == <<-1, -1>>

VARIABLES
    visible,     \* the quads the test keeps
    pc,          \* where each invocation is
    count,       \* g_indirectArgs.count
    claim,       \* outBaseIndex of each invocation
    stored,      \* how many of its words each invocation has copied
    out,         \* g_outIndices
    dispatches,  \* dispatches issued so far
    start,       \* history: the count the current dispatch found
    early,       \* history: quads that claimed before the reset
    late         \* history: quads that claimed after it

vars == <<visible, pc, count, claim, stored, out, dispatches, start, early, late>>

TypeOK ==
    /\ visible \subseteq Quads
    /\ pc \in [Invocations -> {"reset", "cull", "store", "done"}]
    /\ count \in 0..(WordMod - 1)
    /\ claim \in [Invocations -> 0..(WordMod - 1)]
    /\ stored \in [Invocations -> 0..3]
    /\ out \in [OutWords -> (Quads \X (0..2)) \cup {Undefined}]
    /\ dispatches \in 0..MaxDispatches
    /\ start \in 0..(WordMod - 1)
    /\ early \subseteq Quads
    /\ late \subseteq Quads

Idle == \A i \in Invocations : pc[i] = "done"

\* initVisualChunk creates both buffers with undefined contents.
Init ==
    /\ visible \in SUBSET Quads
    /\ pc = [i \in Invocations |-> "done"]
    /\ count \in InitialCounts
    /\ claim = [i \in Invocations |-> 0]
    /\ stored = [i \in Invocations |-> 0]
    /\ out = [w \in OutWords |-> Undefined]
    /\ dispatches = 0
    /\ start = count
    /\ early = {}
    /\ late = {}

\* cullChunk: glDispatchCompute launches every invocation of every group.
Dispatch ==
    /\ Idle
    /\ dispatches < MaxDispatches
    /\ pc' = [i \in Invocations |-> IF i = 0 THEN "reset" ELSE "cull"]
    /\ stored' = [i \in Invocations |-> 0]
    /\ dispatches' = dispatches + 1
    /\ start' = count
    /\ early' = {}
    /\ late' = {}
    /\ UNCHANGED <<visible, count, claim, out>>

\* Invocation 0 writes the draw arguments.
Reset(i) ==
    /\ pc[i] = "reset"
    /\ i = 0
    /\ count' = 0
    /\ pc' = [pc EXCEPT ![i] = "cull"]
    /\ UNCHANGED <<visible, claim, stored, out, dispatches, start, early, late>>

\* The invocation has no quad, or the test culls it.
SkipMutant(i) ==
    /\ pc[i] = "cull"
    /\ i < QuadCount
    /\ i \notin visible
    /\ pc' = [pc EXCEPT ![i] = "done"]
    /\ UNCHANGED <<visible, count, claim, stored, out, dispatches, start, early, late>>
Skip(i) ==
    /\ pc[i] = "cull"
    /\ ~ (i < QuadCount /\ i \in visible)
    /\ pc' = [pc EXCEPT ![i] = "done"]
    /\ UNCHANGED <<visible, count, claim, stored, out, dispatches, start, early, late>>

\* atomicAdd(g_indirectArgs.count, 6) returns the value before the addition.
ReserveMutant(n) == (n + 3) % WordMod
ReserveWideMutant(n) == n + 6
Reserve(n) == (n + 6) % WordMod

Claim(i) ==
    /\ pc[i] = "cull"
    /\ i < QuadCount
    /\ i \in visible
    /\ claim' = [claim EXCEPT ![i] = count]
    /\ count' = Reserve(count)
    /\ pc' = [pc EXCEPT ![i] = "store"]
    /\ IF pc[0] = "reset"
         THEN early' = early \cup {i} /\ UNCHANGED late
         ELSE late' = late \cup {i} /\ UNCHANGED early
    /\ UNCHANGED <<visible, stored, out, dispatches, start>>

\* Word k of the triple claimed at index base; two indices share a word.
WordAt(base, k) == base \div 2 + k

\* One of the three copies at the end of main().
StoreMutant(i) ==
    /\ pc[i] = "store"
    /\ out' = [w \in OutWords |-> IF w = WordAt(claim[i], 2 - stored[i])
                                    THEN <<i, stored[i]>> ELSE out[w]]
    /\ stored' = [stored EXCEPT ![i] = @ + 1]
    /\ pc' = [pc EXCEPT ![i] = IF stored[i] = 2 THEN "done" ELSE "store"]
    /\ UNCHANGED <<visible, count, claim, dispatches, start, early, late>>
Store(i) ==
    /\ pc[i] = "store"
    /\ out' = [w \in OutWords |-> IF w = WordAt(claim[i], stored[i])
                                    THEN <<i, stored[i]>> ELSE out[w]]
    /\ stored' = [stored EXCEPT ![i] = @ + 1]
    /\ pc' = [pc EXCEPT ![i] = IF stored[i] = 2 THEN "done" ELSE "store"]
    /\ UNCHANGED <<visible, count, claim, dispatches, start, early, late>>

Step(i) == Reset(i) \/ Skip(i) \/ Claim(i) \/ Store(i)

Next == Dispatch \/ \E i \in Invocations : Step(i)

Spec == Init /\ [][Next]_vars

\* The GPU runs every launched invocation to its end.
FairSpec == Spec /\ \A i \in Invocations : WF_vars(Step(i))

-----------------------------------------------------------------------------
\* The words an invocation's claim covers.
Triple(i) == { WordAt(claim[i], k) : k \in 0..2 }

(* Before the reset the count is what the dispatch found plus six for each *)
(* early claim; after it, six for each late claim: the early ones are      *)
(* forgotten.  About cull.cs:44-51 racing cull.cs:94.                      *)
CountAccounting ==
    QuadCount > 0 /\ dispatches > 0 =>
        IF pc[0] = "reset"
          THEN late = {} /\ count = (start + 6 * Cardinality(early)) % WordMod
          ELSE count = 6 * Cardinality(late)

(* The late claims are exactly 0, 6, ..., 6(n-1), each held by one quad,   *)
(* whatever the order of the atomicAdds (cull.cs:94).                      *)
LateClaimsDense ==
    /\ { claim[q] : q \in late } = { 6 * n : n \in 0..(Cardinality(late) - 1) }
    /\ \A q, r \in late : claim[q] = claim[r] => q = r

(* A quad that claims after the reset copies its words inside the output   *)
(* buffer and nowhere near another late quad's (cull.cs:94-98 against the  *)
(* buffer's size in chunk.cpp:212).                                        *)
LateTriplesFit ==
    \A q \in late :
        /\ Triple(q) \subseteq OutWords
        /\ \A r \in late \ {q} : Triple(q) \cap Triple(r) = {}

(* A word copied by a late quad stays what it was copied from to the end   *)
(* of the dispatch, unless an early claim covers it too (cull.cs:96-98).   *)
LateWordsIntact ==
    \A q \in late : \A k \in 0..(stored[q] - 1) :
        \/ out[WordAt(claim[q], k)] = <<q, k>>
        \/ \E e \in early : WordAt(claim[q], k) \in Triple(e)

(* When the dispatch has ended, the draw will use six indices for every    *)
(* survivor that was not early; with no early claim it uses each           *)
(* survivor's three words exactly, and nothing else.                       *)
FinishedResult ==
    Idle /\ QuadCount > 0 /\ dispatches > 0 =>
        /\ count = 6 * (Cardinality(visible) - Cardinality(early))
        /\ early = {} => { out[w] : w \in 0..(count \div 2 - 1) } = visible \X (0..2)

(* Every dispatch ends: no invocation waits for another.                   *)
DispatchEnds == ~ Idle ~> Idle
=============================================================================
