------------------------------ MODULE ChunkMesh ------------------------------
(***************************************************************************)
(* initVisualChunk (src/chunk.cpp): from a chunk's voxels to the vertices  *)
(* and the 16-bit indices of its mesh, the buffer sizes derived from them  *)
(* by cullChunk, and the test of romfs/shaders/cull.cs on each quad.       *)
(*                                                                         *)
(* A quad is recorded as its base vertex (the code pushes the six indices  *)
(* base + 0, 1, 2, 2, 1, 3), a vertex as its position.  Texture            *)
(* coordinates are never pushed and normals are a function of the face.    *)
(* size_t and int32_t keep their width: SizeMod and IntMod.                *)
(***************************************************************************)
EXTENDS Integers, Sequences

CONSTANTS
    Width, Height, Depth,  \* 16 each
    IndexMod,              \* the indices are uint16_t: 2^16
    IntMod, SizeMod,       \* int32_t and size_t: 2^32, 2^64
    ChunkCoords            \* the chunk.x (and chunk.z) that main passes

VoxelCount == Width * Height * Depth
Voxels == 0..(VoxelCount - 1)
Faces == 1..6

\* Conversions to size_t and to int32_t.
ToSize(n) == n % SizeMod
ToInt(u) == LET r == u % IntMod IN IF r < IntMod \div 2 THEN r ELSE r - IntMod

\* chunk.x * ChunkWidth is computed in size_t and converted to int32_t, and
\* so is the addition of the voxel's place in the chunk.
Origin(coord, extent) == ToInt(ToSize(ToSize(coord) * extent))
OffsetMutant(origin, n) == ToSize(ToSize(origin) + n)
Offset(origin, n) == ToInt(ToSize(ToSize(origin) + n))

VoxelPos(c, v) ==
    << Offset(Origin(c[1], Width), v % Width),
       Offset(Origin(c[2], Height), (v \div Width) % Height),
       Offset(Origin(c[3], Depth), (v \div Width) \div Height) >>

\* The four corners of each face, in the order they are pushed.
Corners == << << <<0,0,0>>, <<1,0,0>>, <<0,1,0>>, <<1,1,0>> >>,
              << <<0,0,1>>, <<1,0,1>>, <<0,1,1>>, <<1,1,1>> >>,
              << <<0,0,0>>, <<1,0,0>>, <<0,0,1>>, <<1,0,1>> >>,
              << <<0,1,0>>, <<1,1,0>>, <<0,1,1>>, <<1,1,1>> >>,
              << <<0,0,0>>, <<0,1,0>>, <<0,0,1>>, <<0,1,1>> >>,
              << <<1,0,0>>, <<1,1,0>>, <<1,0,1>>, <<1,1,1>> >> >>

Plus(p, q) == << p[1] + q[1], p[2] + q[2], p[3] + q[3] >>

FaceVertices(pos, f) == [k \in 1..4 |-> Plus(pos, Corners[f][k])]

VARIABLES
    chunk,      \* the chunk's coordinates
    blocks,     \* its solid voxels
    voxelIt,    \* the loop's voxel
    face,       \* the face the body is at
    positions,  \* the vertices pushed
    bases,      \* the base vertex of each quad pushed
    owner       \* history: the voxel and face of each quad

vars == <<chunk, blocks, voxelIt, face, positions, bases, owner>>

TypeOK ==
    /\ chunk \in ChunkCoords \X {0} \X ChunkCoords
    /\ blocks \subseteq Voxels
    /\ voxelIt \in 0..VoxelCount
    /\ face \in Faces
    /\ positions \in Seq(Int \X Int \X Int)
    /\ bases \in Seq(0..(IndexMod - 1))
    /\ owner \in Seq(Voxels \X Faces)

Init ==
    /\ chunk \in ChunkCoords \X {0} \X ChunkCoords
    /\ blocks \in SUBSET Voxels
    /\ voxelIt = 0
    /\ face = 1
    /\ positions = <<>>
    /\ bases = <<>>
    /\ owner = <<>>

\* static_cast<uint16_t>(positions.size())
BaseVertexMutant(n) == n
BaseVertex(n) == n % IndexMod

\* An air voxel adds nothing.
SkipVoxelMutant ==
    /\ voxelIt < VoxelCount
    /\ voxelIt \notin blocks
    /\ voxelIt' = voxelIt + 2
    /\ UNCHANGED <<chunk, blocks, face, positions, bases, owner>>
SkipVoxel ==
    /\ voxelIt < VoxelCount
    /\ voxelIt \notin blocks
    /\ voxelIt' = voxelIt + 1
    /\ UNCHANGED <<chunk, blocks, face, positions, bases, owner>>

\* One of the six blocks of a solid voxel: four vertices and a quad.
PushFaceMutant ==
    /\ voxelIt \in blocks
    /\ positions' = positions \o FaceVertices(VoxelPos(chunk, voxelIt), face)
    /\ bases' = Append(bases, BaseVertex(24 * (Len(bases) \div 6)))
    /\ owner' = Append(owner, <<voxelIt, face>>)
    /\ IF face = 6 THEN face' = 1 /\ voxelIt' = voxelIt + 1
                   ELSE face' = face + 1 /\ UNCHANGED voxelIt
    /\ UNCHANGED <<chunk, blocks>>
PushFace ==
    /\ voxelIt \in blocks
    /\ positions' = positions \o FaceVertices(VoxelPos(chunk, voxelIt), face)
    /\ bases' = Append(bases, BaseVertex(Len(positions)))
    /\ owner' = Append(owner, <<voxelIt, face>>)
    /\ IF face = 6 THEN face' = 1 /\ voxelIt' = voxelIt + 1
                   ELSE face' = face + 1 /\ UNCHANGED voxelIt
    /\ UNCHANGED <<chunk, blocks>>

Next == SkipVoxel \/ PushFace

Spec == Init /\ [][Next]_vars

Done == voxelIt = VoxelCount

\* What cullChunk derives from opaqueIndexCount.
OpaqueIndexCount == 6 * Len(bases)
MeshQuadCount == (OpaqueIndexCount \div 3) \div 2

\* vertexPos0 of the shader: indices[0] is the high half of the first word,
\* which is the second index of the quad; the quad is culled when x > 0.
ShaderVertexMutant(base) == base
ShaderVertex(base) == base + 1
Survives(q) == ~ positions[ShaderVertex(bases[q]) + 1][1] > 0

-----------------------------------------------------------------------------
\* Where the world has a voxel of a chunk.
WorldPos(v) == << chunk[1] * Width + (v % Width),
                  chunk[2] * Height + ((v \div Width) % Height),
                  chunk[3] * Depth + ((v \div Width) \div Height) >>

\* The vertices fit in the indices: no base vertex has wrapped.
Indexable == Len(positions) <= IndexMod

(* A quad's four vertices are the corners of its own voxel's face, where   *)
(* the world has it though its chunk may be a negative one, as long        *)
(* as the indices reach; past that it is drawn as the quad IndexMod \div 4 *)
(* or a multiple of it before, and never as a mixture of two or past the   *)
(* vertices (chunk.cpp:84-178).                                            *)
QuadsOwnTheirVertices ==
    \A q \in 1..Len(bases) :
        LET drawn == owner[((q - 1) % (IndexMod \div 4)) + 1]
        IN  /\ bases[q] + 4 <= Len(positions)
            /\ SubSeq(positions, bases[q] + 1, bases[q] + 4) =
                 FaceVertices(WorldPos(drawn[1]), drawn[2])

(* The mesh has six quads for every solid voxel, each pushed once, and     *)
(* cullChunk's two divisions count exactly them (chunk.cpp:247-248).       *)
QuadCountExact ==
    Done => /\ { owner[q] : q \in 1..Len(owner) } = blocks \X Faces
            /\ MeshQuadCount = Len(owner)
            /\ \A p, q \in 1..Len(owner) : owner[p] = owner[q] => p = q

(* What the shader's test keeps of an indexable mesh: every quad left of   *)
(* the plane x = 0, of the voxels on it the one face that lies in it, and  *)
(* nothing to the right (cull.cs:35-39 with 65-69 and 90).                 *)
SurvivorsByPlane ==
    Indexable => \A q \in 1..Len(bases) :
        Survives(q) <=> LET x == WorldPos(owner[q][1])[1]
                        IN  x < 0 \/ (x = 0 /\ owner[q][2] = 5)
=============================================================================
