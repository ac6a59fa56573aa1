------------------------------ MODULE ObjLoader ------------------------------
(***************************************************************************)
(* CModel::LoadFromOBJ (src/renderer/model.cpp): the token loop over an    *)
(* OBJ file and the expansion of the faces' indices into the model.        *)
(*                                                                         *)
(* A file is a sequence of lines, a line a sequence of tokens: a word      *)
(* <<"v">>, <<"#">>..., a number <<"num">>, or a face corner <<v, uv, n>>. *)
(* "%s" reads the next token wherever it stands, "%f" stops before a token *)
(* that is not a number, "%d/%d/%d" before one that is no corner.  A value *)
(* read from the file is identified with the place of its keyword, Garbage *)
(* is a vector that was pushed with uninitialised components.  Reading     *)
(* outside a vector (operator[] does not check) is undefined behaviour:    *)
(* the run is over, with result "trap".                                    *)
(***************************************************************************)
EXTENDS Integers, Sequences, SequencesExt

CONSTANT Files  \* the files explored

VARIABLES
    file,      \* the file's lines
    pos,       \* the next token
    verts, uvs, norms,           \* temp_vertices, temp_uvs, temp_normals
    vertIndices, uvIndices, normIndices,
    model,     \* [vertices, uvs, normals] of the model
    result,    \* what the call has returned
    headers    \* history: the places of the tokens taken as line headers

temps == <<verts, uvs, norms>>
indices == <<vertIndices, uvIndices, normIndices>>
vars == <<file, pos, temps, indices, model, result, headers>>

Tokens == FlattenSeq(file)
AtEnd == pos > Len(Tokens)
Garbage == 0

Empty == [vertices |-> <<>>, uvs |-> <<>>, normals |-> <<>>]

\* fopen may fail, and the call then returns nullptr at once.
Init ==
    /\ file \in Files
    /\ pos = 1
    /\ verts = <<>> /\ uvs = <<>> /\ norms = <<>>
    /\ vertIndices = <<>> /\ uvIndices = <<>> /\ normIndices = <<>>
    /\ model = Empty
    /\ result \in {"reading", "noFile"}
    /\ headers = <<>>

\* How many of the next n tokens match the conversion: fscanf stops at the
\* first that does not.
Matches(first, n, fitting) ==
    LET matched == { k \in 0..n : \A j \in 0..(k - 1) :
                       first + j <= Len(Tokens) /\ Tokens[first + j] \in fitting }
    IN  CHOOSE k \in matched : \A m \in matched : m <= k

Keywords == { <<"v">>, <<"vt">>, <<"vn">>, <<"f">> }
IsNumber(t) == t = <<"num">>
IsCorner(t) == Len(t) = 3
Numbers == { t \in ToSet(Tokens) : IsNumber(t) }
Corners == { t \in ToSet(Tokens) : IsCorner(t) }

\* operator[] on the temporaries, for each index; -1 makes index 0 wrap.
Defined(seq, index) == index \in 1..Len(seq)
Gather(seq, index) == [i \in DOMAIN index |-> seq[index[i]]]

\* The three loops at the end of the body append every face read so far.
ExpandMutant(vs, us, ns, vi, ui, ni) ==
    IF \A i \in DOMAIN vi : Defined(vs, vi[i]) /\ Defined(us, ui[i]) /\ Defined(ns, ni[i])
      THEN /\ model' = [vertices |-> Gather(vs, vi) \o model.vertices,
                        uvs      |-> model.uvs \o Gather(us, ui),
                        normals  |-> model.normals \o Gather(ns, ni)]
           /\ UNCHANGED result
      ELSE result' = "trap" /\ UNCHANGED model
Expand(vs, us, ns, vi, ui, ni) ==
    IF \A i \in DOMAIN vi : Defined(vs, vi[i]) /\ Defined(us, ui[i]) /\ Defined(ns, ni[i])
      THEN /\ model' = [vertices |-> model.vertices \o Gather(vs, vi),
                        uvs      |-> model.uvs \o Gather(us, ui),
                        normals  |-> model.normals \o Gather(ns, ni)]
           /\ UNCHANGED result
      ELSE result' = "trap" /\ UNCHANGED model

Header(word) ==
    /\ result = "reading"
    /\ ~ AtEnd
    /\ Tokens[pos] = word
    /\ headers' = Append(headers, pos)

\* A vector of n floats: pushed whether or not all of them were read.
ReadVector(n) ==
    LET k == Matches(pos + 1, n, Numbers)
    IN  /\ pos' = pos + 1 + k
        /\ UNCHANGED file

Pushed(seq, n) ==
    Append(seq, IF Matches(pos + 1, n, Numbers) = n THEN pos ELSE Garbage)

ReadVertex ==
    /\ Header(<<"v">>)
    /\ ReadVector(3)
    /\ verts' = Pushed(verts, 3)
    /\ Expand(verts', uvs, norms, vertIndices, uvIndices, normIndices)
    /\ UNCHANGED <<uvs, norms, indices>>

ReadUvMutant ==
    /\ Header(<<"vt">>)
    /\ ReadVector(3)
    /\ uvs' = Pushed(uvs, 3)
    /\ Expand(verts, uvs', norms, vertIndices, uvIndices, normIndices)
    /\ UNCHANGED <<verts, norms, indices>>
ReadUv ==
    /\ Header(<<"vt">>)
    /\ ReadVector(2)
    /\ uvs' = Pushed(uvs, 2)
    /\ Expand(verts, uvs', norms, vertIndices, uvIndices, normIndices)
    /\ UNCHANGED <<verts, norms, indices>>

ReadNormal ==
    /\ Header(<<"vn">>)
    /\ ReadVector(3)
    /\ norms' = Pushed(norms, 3)
    /\ Expand(verts, uvs, norms', vertIndices, uvIndices, normIndices)
    /\ UNCHANGED <<verts, uvs, indices>>

\* The k-th component of the three corners after the header.
Corner(k) == [j \in 1..3 |-> Tokens[pos + j][k]]

ReadFace ==
    /\ Header(<<"f">>)
    /\ Matches(pos + 1, 3, Corners) = 3
    /\ pos' = pos + 4
    /\ vertIndices' = vertIndices \o Corner(1)
    /\ uvIndices' = uvIndices \o Corner(2)
    /\ normIndices' = normIndices \o Corner(3)
    /\ Expand(verts, uvs, norms, vertIndices', uvIndices', normIndices')
    /\ UNCHANGED <<file, temps>>

\* Fewer than nine matches: the loader gives up.
RejectFace ==
    /\ Header(<<"f">>)
    /\ Matches(pos + 1, 3, Corners) < 3
    /\ result' = "nullptr"
    /\ UNCHANGED <<file, pos, temps, indices, model>>

\* Any other word is passed over, but the expansion still runs.
SkipWordMutant ==
    /\ result = "reading"
    /\ ~ AtEnd
    /\ Tokens[pos] \notin Keywords
    /\ headers' = Append(headers, pos)
    /\ pos' = pos + 1
    /\ UNCHANGED <<file, temps, indices, model, result>>
SkipWord ==
    /\ result = "reading"
    /\ ~ AtEnd
    /\ Tokens[pos] \notin Keywords
    /\ headers' = Append(headers, pos)
    /\ pos' = pos + 1
    /\ Expand(verts, uvs, norms, vertIndices, uvIndices, normIndices)
    /\ UNCHANGED <<file, temps, indices>>

FinishMutant ==
    /\ result = "reading"
    /\ AtEnd
    /\ UNCHANGED vars
Finish ==
    /\ result = "reading"
    /\ AtEnd
    /\ result' = "model"
    /\ UNCHANGED <<file, pos, temps, indices, model, headers>>

Next == ReadVertex \/ ReadUv \/ ReadNormal \/ ReadFace \/ RejectFace \/ SkipWord \/ Finish

Spec == Init /\ [][Next]_vars
FairSpec == Spec /\ WF_vars(Next)

-----------------------------------------------------------------------------
FaceHeaders == { i \in DOMAIN headers : Tokens[headers[i]] = <<"f">> }

(* The model's three arrays grow together, each in a loop of its own, and *)
(* each token read appends every face read so far once more: they have     *)
(* three entries for each pair of a face and a header not before it        *)
(* (model.cpp:69-88).                                                      *)
CopiesCounted ==
    result \in {"reading", "model"} =>
        \A array \in { model.vertices, model.uvs, model.normals } :
            Len(array) = 3 * Cardinality({ p \in FaceHeaders \X DOMAIN headers : p[1] <= p[2] })

(* A line's keyword and values, the values all there.                      *)
WellFormedLine(line) ==
    \/ line[1] \in { <<"v">>, <<"vn">> } /\ Len(line) = 4 /\ \A k \in 2..4 : IsNumber(line[k])
    \/ line[1] = <<"vt">> /\ Len(line) = 3 /\ \A k \in 2..3 : IsNumber(line[k])
    \/ line[1] = <<"f">> /\ Len(line) = 4 /\ \A k \in 2..4 : IsCorner(line[k])
    \/ \A k \in DOMAIN line : line[k] \notin Keywords /\ ~ IsCorner(line[k])

CountBefore(l, word) == Cardinality({ m \in 1..(l - 1) : file[m][1] = word })

\* Every face follows what it refers to, counted in lines from 1.
WellFormed ==
    /\ \A l \in DOMAIN file : WellFormedLine(file[l])
    /\ \A l \in DOMAIN file : file[l][1] = <<"f">> =>
         \A k \in 2..4 :
            /\ file[l][k][1] \in 1..CountBefore(l, <<"v">>)
            /\ file[l][k][2] \in 1..CountBefore(l, <<"vt">>)
            /\ file[l][k][3] \in 1..CountBefore(l, <<"vn">>)

\* The vertices of a file's faces, each as the place of its keyword.
LineStart(l) == 1 + Len(FlattenSeq(SubSeq(file, 1, l - 1)))
NthLine(word, n) == CHOOSE l \in DOMAIN file : file[l][1] = word /\ CountBefore(l, word) = n - 1
Faces == SelectSeq(file, LAMBDA line : line[1] = <<"f">>)
Expected(word, k) ==
    FlattenSeq([i \in DOMAIN Faces |->
        [j \in 1..3 |-> LineStart(NthLine(word, Faces[i][j + 1][k]))]])

(* A well-formed file never makes the loader read outside a vector or give *)
(* up, and the model ends with the file's faces, in order, each corner     *)
(* with its own vertex, texture coordinate and normal.                     *)
WellFormedLoads ==
    WellFormed =>
        /\ result \in {"reading", "model", "noFile"}
        /\ result = "model" =>
             /\ IsSuffix(Expected(<<"v">>, 1), model.vertices)
             /\ IsSuffix(Expected(<<"vt">>, 2), model.uvs)
             /\ IsSuffix(Expected(<<"vn">>, 3), model.normals)

(* Garbage enters only through a line with too few numbers: no well-formed *)
(* file gives the model a vector with uninitialised components.            *)
GarbageOnlyFromShortLines ==
    (\E l \in DOMAIN file : ~ WellFormedLine(file[l]))
        \/ Garbage \notin ToSet(verts) \cup ToSet(uvs) \cup ToSet(norms)

(* The call returns: every iteration consumes a token.                     *)
Returns == <>(result # "reading")

-----------------------------------------------------------------------------
(* "For each vertex of each triangle" (the comment at model.cpp:68): the   *)
(* model has each corner of each face once.                                *)
EachVertexOnce == result = "model" => Len(model.vertices) = 3 * Cardinality(FaceHeaders)

(* "read the first word of the line" (the comment at model.cpp:24).        *)
HeadersStartLines ==
    \A i \in DOMAIN headers : \E l \in DOMAIN file : headers[i] = LineStart(l)
=============================================================================
