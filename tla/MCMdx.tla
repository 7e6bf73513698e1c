------------------------------- MODULE MCMdx -------------------------------
(***************************************************************************)
(* Models for Mdx, and files as Warcraft III's own tools make them: every  *)
(* size right, sections in between that Mdlx does not know.  Materials     *)
(* that are saved, layers with texture ids and geosets have a run of their *)
(* own: they are not read back.                                            *)
(***************************************************************************)
EXTENDS Mdx

\* Values that tell fields and objects apart.
Object(fields, name) == [f \in {fields[k] : k \in DOMAIN fields} |-> <<name, f>>]
Objects(s, names) == [k \in DOMAIN names |-> Object(FieldsRead[s], names[k])]

ModelWith(version, changes) ==
    changes @@ [EmptyModel EXCEPT !.VERS = version, !.MODL = Object(FieldsRead.MODL, "model")]

Names == << <<>>, <<"a">>, <<"a", "b">> >>
PlainModels ==
    {ModelWith(800, "SEQS" :> Objects("SEQS", Names[i]) @@ "GLBS" :> Objects("GLBS", Names[j])
               @@ "TEXS" :> Objects("TEXS", Names[k]) @@ "SNDS" :> Objects("SNDS", Names[l])
               @@ "PIVT" :> Objects("PIVT", Names[m])) :
        i \in 1..3, j \in 1..2, k \in 1..3, l \in 1..2, m \in 1..3}
ASSUME ModelsArePlain == \A m \in PlainModels : IsPlain(m)

Frames(n, lineType) ==
    [lineType |-> lineType, globalSequenceId |-> <<"global">>,
     frames |-> [k \in 1..n |-> Object(FrameFields(lineType), ToString(k))]]
Layer(version, alphas, name) ==
    ("textureIds" :> NoFrames) @@ ("alphas" :> alphas)
    @@ Object(LayerFields(version), name)
    @@ [f \in {LayerTags(version)[k][2] : k \in DOMAIN LayerTags(version)} |-> <<name, f>>]
Material(version, layers, name) ==
    ("layers" :> layers) @@ Object(MaterialFields(version), name)

Alphas == {NoFrames, Frames(1, 1), Frames(2, 2)}
LayerLists(version) ==
    {<<>>} \union {<<Layer(version, a, "a")>> : a \in Alphas}
    \union {<<Layer(version, a, "a"), Layer(version, b, "b")>> : a, b \in Alphas}
MaterialLists(version) ==
    {<<Material(version, l, "m")>> : l \in LayerLists(version)}
    \union {<<Material(version, <<>>, "m"), Material(version, l, "n")>> : l \in LayerLists(version)}
Animations ==
    {<<"translations" :> Frames(1, 2)>>,
     <<"rotations" :> Frames(2, 0), ("translations" :> Frames(1, 1)) @@ ("scalings" :> Frames(1, 3))>>}

MaterialModels ==
    {ModelWith(800, "MTLS" :> m @@ "TEXS" :> Objects("TEXS", <<"a">>)) : m \in MaterialLists(800)}
AuthoredModels ==
    PlainModels
    \union UNION {{ModelWith(v, "MTLS" :> m @@ "TXAN" :> t @@ "SEQS" :> Objects("SEQS", <<"a">>)
                        @@ "PIVT" :> Objects("PIVT", <<"a">>)) :
                       m \in MaterialLists(v), t \in Animations \union {<<>>}} : v \in {800, 801, 901}}

\* Layers with texture ids, with and without alphas behind them.
TextureIdModels ==
    {ModelWith(800, "PIVT" :> Objects("PIVT", <<"a">>)
               @@ "MTLS" :> <<Material(800, <<[Layer(800, a, "a") EXCEPT !.textureIds = ids]>>, "m")>>) :
        a \in Alphas, ids \in Alphas \ {NoFrames}}

\* Geosets of faces with one or two triangles of three vertices.
GeosetObject(n, name) ==
    LET Values(k) == [i \in 1..k |-> Num(i)]
        lists == "types" :> <<Num(4)>> @@ "counts" :> <<Num(3 * n)>>
                 @@ "triangles" :> Values(3 * n)
                 @@ "vertices" :> Values(2 * n) @@ "normals" :> Values(2 * n)
                 @@ "groupVertices" :> Values(n) @@ "groupCounts" :> <<Num(1)>>
                 @@ "matrices" :> <<Num(0)>>
    IN  lists @@ Object(Bounds, name)
GeosetModels ==
    {ModelWith(800, "GEOS" :> g @@ "PIVT" :> Objects("PIVT", <<"a">>)) :
        g \in {<<GeosetObject(1, "g")>>, <<GeosetObject(2, "g")>>}}

-----------------------------------------------------------------------------
\* The file of an author: a layer, a material and an animation start with their size.
Sized(body) == <<Num(Len(body) + 1)>> \o body

AuthoredMaterial(m, v) ==
    Sized(Put(m, MaterialFields(v)) \o <<Tag("LAYS"), Num(Len(m.layers))>>
          \o FlattenSeq([k \in DOMAIN m.layers |-> PutLayer(m.layers[k], v).units]))
AuthoredAnimation(a) ==
    LET Block(tag, member) ==
          IF member \in DOMAIN a THEN <<Tag(tag)>> \o PutFrames(a[member]) ELSE <<>>
    IN  Sized(Block("KTAT", "translations") \o Block("KTAR", "rotations")
              \o Block("KTAS", "scalings"))
\* Three numbers are between the matrices and the bounds; texture coordinates follow.
AuthoredGeoset(g) ==
    LET Block(list) == <<Tag(list[1]), Num(Len(g[list[2]]))>> \o g[list[2]]
        Between == << <<"materialId">>, <<"selectionGroup">>, <<"selectable">> >>
    IN  Sized(FlattenSeq([k \in DOMAIN GeosetLists |-> Block(GeosetLists[k])])
              \o Between \o Put(g, Bounds)
              \o <<Num(0), Tag("UVAS"), Num(1), Tag("UVBS"), Num(1), <<"coordinates">> >>)
AuthoredObject(s, object, v) ==
    CASE s = "MTLS" -> AuthoredMaterial(object, v)
      [] s = "TXAN" -> AuthoredAnimation(object)
      [] s = "GEOS" -> AuthoredGeoset(object)
      [] OTHER -> Put(object, FieldsRead[s])

Unknown == <<Tag("BONE"), Num(2), <<"bone">>, Num(0)>>
AuthoredSection(m, s) ==
    LET body == FlattenSeq([k \in DOMAIN m[s] |-> AuthoredObject(s, m[s][k], m.VERS)])
    IN  CASE s = "VERS" -> <<Tag("VERS"), Num(1), Num(m.VERS)>>
          [] s = "MODL" -> <<Tag("MODL"), Num(7)>> \o Put(m.MODL, FieldsRead.MODL) \o <<Num(0)>>
          [] s = "PIVT" -> <<Tag(s), Num(Len(body))>> \o body
          [] m[s] = <<>> -> <<>>
          [] OTHER -> <<Tag(s), Num(Len(body))>> \o body
Authored(m) ==
    <<Tag("MDLX")>> \o FlattenSeq([k \in DOMAIN Sections |->
        AuthoredSection(m, Sections[k]) \o IF Sections[k] \in {"MODL", "TXAN"} THEN Unknown ELSE <<>>])

FilesOf(models) == {[model |-> m, file |-> Authored(m)] : m \in models}
MCShipped == FilesOf(AuthoredModels)
MCShippedRest == FilesOf(TextureIdModels \union GeosetModels)

-----------------------------------------------------------------------------
Alphabet ==
    {Tag(t) : t \in {"VERS", "MODL", "GLBS", "MTLS", "TXAN", "LAYS", "KTAT", "BONE"}}
    \union {Num(n) : n \in 0..2}
\* A geoset that names all its lists, with n values in each.
Lists(n) ==
    FlattenSeq([k \in DOMAIN GeosetLists |->
               <<Tag(GeosetLists[k][1]), Num(n)>> \o [j \in 1..n |-> Num(j)]])
Geoset(n, m) ==
    LET body == Sized(Lists(n) \o <<Num(0), Num(0), Num(0)>>)
    IN  <<Tag("MDLX"), Tag("GEOS"), Num(Len(body))>> \o body
        \o [k \in 1..m |-> Num(0)] \o <<Tag("PIVT"), Num(0)>>
CONSTANT MaxStream
MCStreams ==
    {<<>>, <<Num(0)>>} \union {Geoset(n, m) : n \in 0..2, m \in {0, 27, 35}}
    \union UNION {{<<Tag("MDLX")>> \o s : s \in [1..n -> Alphabet]} : n \in 0..MaxStream}
=============================================================================
