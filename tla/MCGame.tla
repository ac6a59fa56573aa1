-------------------------------- MODULE MCGame ---------------------------------
(* The game: its run from the first step of main to the last, and three    *)
(* parts that share nothing with it.  Game with three chunks and five      *)
(* frames: every failure on the way to the loop, every sequence of         *)
(* toggles over the frames, each dispatch landing before or after each     *)
(* draw.  The culling shader on a chunk of three quads and groups of       *)
(* two invocations (so one has no quad), the undefined first count zero,   *)
(* odd, or close enough to WordMod for an early claim to wrap.  ChunkMesh  *)
(* on chunks of 2 x 1 x 2 voxels at the corners main creates (scaled to    *)
(* -1..1), every set of solid voxels, and 40 indexable vertices so that    *)
(* the second solid voxel wraps; int32_t has 64 values, size_t 256.        *)
(* ObjLoader on every file of up to four lines of nine kinds, and on       *)
(* longer well-formed files, since a face needs three lines before it.     *)
EXTENDS CullShader, Game, Sequences

CONSTANTS Width, Height, Depth, IndexMod, IntMod, SizeMod, ChunkCoords, Files

\* The indices of four vertices are adjacent, size_t is as wide as int32_t
\* several times, and int32_t holds the corners of the chunks.
ASSUME MeshAssumption ==
    /\ Width \in Nat \ {0} /\ Height \in Nat \ {0} /\ Depth \in Nat \ {0}
    /\ IndexMod \in Nat \ {0} /\ IndexMod % 4 = 0
    /\ IntMod \in Nat \ {0} /\ SizeMod \in Nat \ {0}
    /\ IntMod % 2 = 0 /\ SizeMod % IntMod = 0
    /\ ChunkCoords \subseteq Int
    /\ Height <= IntMod \div 2
    /\ \A c \in ChunkCoords, extent \in {Width, Depth} :
         -(IntMod \div 2) <= c * extent /\ c * extent + extent <= IntMod \div 2

VARIABLES part,  \* which of the four is run
          chunk, blocks, voxelIt, face, positions, bases, owner,
          file, pos, verts, uvs, norms, vertIndices, uvIndices, normIndices,
          model, result, headers

Mesh == INSTANCE ChunkMesh
Obj == INSTANCE ObjLoader

mesh == <<chunk, blocks, voxelIt, face, positions, bases, owner>>
obj == <<file, pos, verts, uvs, norms, vertIndices, uvIndices, normIndices,
         model, result, headers>>
game == <<loopVars, ends>>
all == <<part, vars, mesh, obj, game>>

MCInitialCounts == {0, 7, 28}
MCChunkCoords == -1..1

Words(n) == [k \in 1..n |-> <<"num">>]
Face(v) == << <<"f">>, <<v, 1, 1>>, <<1, 1, 1>>, <<v, 1, 1>> >>

Vertex == << <<"v">> >> \o Words(3)
Uv == << <<"vt">> >> \o Words(2)
Normal == << <<"vn">> >> \o Words(3)
ShortVertex == << <<"v">> >> \o Words(2)
OtherFace == << <<"f">> >> \o Words(3)
Comment == << <<"#">>, <<"untitled">> >>
KeywordComment == << <<"#">>, <<"v">>, <<"num">> >>

Lines == { Vertex, Uv, Normal, Face(1), Face(2), ShortVertex, OtherFace,
           Comment, KeywordComment }

LongFiles == { <<Vertex, Uv, Normal, Vertex, Face(2), Face(1), Comment, Face(2)>>,
               <<Comment, Vertex, Vertex, Normal, Uv, Face(2), Comment, Vertex, Face(1)>>,
               <<Uv, Normal, Vertex, Face(1), Face(1), Uv, Normal, Vertex, Face(2)>>,
               <<Vertex, Normal, Uv, Vertex, Face(2), KeywordComment>> }

MCFiles == UNION { [1..n -> Lines] : n \in 0..4 } \cup LongFiles

\* A part that is not run stays in one of its initial states.
MCInit ==
    /\ part \in {"game", "cull", "mesh", "obj"}
    /\ Init /\ (part # "cull" => visible = {} /\ count = 0)
    /\ Mesh!Init /\ (part # "mesh" => chunk = <<0, 0, 0>> /\ blocks = {})
    /\ InitGame
    /\ Obj!Init /\ (part # "obj" => file = <<>> /\ result = "noFile")

MCNext ==
    \/ part = "game" /\ NextGame /\ UNCHANGED <<part, vars, mesh, obj>>
    \/ part = "cull" /\ Next /\ UNCHANGED <<part, mesh, obj, game>>
    \/ part = "mesh" /\ Mesh!Next /\ UNCHANGED <<part, vars, obj, game>>
    \/ part = "obj" /\ Obj!Next /\ UNCHANGED <<part, vars, mesh, game>>

MCSpec == MCInit /\ [][MCNext]_all /\ WF_all(MCNext)

(* A quad has the corners of its own voxel's face, until the indices wrap  *)
(* (chunk.cpp:64-178).                                                     *)
QuadsOwnTheirVertices == Mesh!QuadsOwnTheirVertices

(* The shader keeps what lies to the left of the plane (cull.cs:35-90).    *)
SurvivorsByPlane == Mesh!SurvivorsByPlane

(* A well-formed file never makes the loader read outside a vector or give *)
(* up, and the model ends with the file's faces (model.cpp:21-89).         *)
WellFormedLoads == Obj!WellFormedLoads

(* The call returns: every iteration consumes a token (model.cpp:21).      *)
Returns == Obj!Returns
=============================================================================
