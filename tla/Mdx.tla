-------------------------------- MODULE Mdx --------------------------------
(***************************************************************************)
(* The binary model format MDX (src/src/mdlx): Mdlx::read goes over tagged  *)
(* sections until the file ends, Mdlx::write stores every section after a   *)
(* header it fills in when the size of the section is known.               *)
(*                                                                         *)
(* A file is a sequence of units.  A tag, a number and a value of any       *)
(* width that is only stored are one unit each, sizes count units, and a    *)
(* header is a tag and a size.                                             *)
(***************************************************************************)
EXTENDS Integers, Sequences, SequencesExt

CONSTANTS
    Models,    \* the models that are saved
    Shipped,   \* records of a model and a file another program made of it
    Streams,   \* files of any content
    Garbage    \* the number a unit that is none is taken for, more than any
               \* file has units

ASSUME MdxAssumption == Garbage \in Nat

-----------------------------------------------------------------------------
(* Units and models.                                                       *)

Tag(t) == <<"tag", t>>
Num(n) == <<"num", n>>
NumberIn(unit) == IF unit[1] = "num" THEN unit[2] ELSE Garbage

HeaderSize == 2
CurrentVersion == 800

\* The sections in the order of write().
Sections ==
    <<"VERS", "MODL", "SEQS", "GLBS", "MTLS", "TXAN", "GEOS", "TEXS", "SNDS", "PIVT">>
SectionSet == {Sections[k] : k \in DOMAIN Sections}
EmptyModel ==
    [s \in SectionSet |-> IF s = "VERS" THEN CurrentVersion ELSE <<>>]

Bounds == <<"boundsRadius", "minimumExtent", "maximumExtent">>

\* What the objects without optional parts read and write, in this order.
ModelRead == <<"name", "animationFileName">> \o Bounds \o <<"blendTime">>
ModelWrite == <<"name", "animationFileName">> \o Bounds \o <<"blendTime">>
SequenceRead ==
    <<"name", "intervalStart", "intervalEnd", "moveSpeed", "noLooping", "rarity", "syncPoint">>
    \o Bounds
SequenceWrite ==
    <<"name", "intervalStart", "intervalEnd", "moveSpeed", "noLooping", "rarity", "syncPoint">>
    \o Bounds
TextureRead == <<"replaceableId", "texturePath", "wrapping">>
TextureWrite == <<"replaceableId", "texturePath", "wrapping">>
SoundTrackRead == <<"name", "volume", "pitch", "flags">>
SoundTrackWrite == <<"name", "volume", "pitch", "flags">>
FieldsRead ==
    [MODL |-> ModelRead, SEQS |-> SequenceRead, GLBS |-> <<"globalSequence">>,
     TEXS |-> TextureRead, SNDS |-> SoundTrackRead, PIVT |-> <<"pivotPoint">>]
FieldsWritten ==
    [MODL |-> ModelWrite, SEQS |-> SequenceWrite, GLBS |-> <<"globalSequence">>,
     TEXS |-> TextureWrite, SNDS |-> SoundTrackWrite, PIVT |-> <<"pivotPoint">>]

\* From version 801 (Reforged) on a material has a shader and a layer more values.
MaterialFields(version) ==
    <<"priorityPlane", "renderMode">> \o (IF version > 800 THEN <<"shader">> ELSE <<>>)
LayerFields(version) ==
    <<"filterMode", "shading", "textureId", "tvertexAnimationId", "coordinatesId", "alpha">>
    \o (IF version > 800
        THEN <<"emissiveGain", "fresnelColor", "fresnelOpacity", "fresnelTeamColor">> ELSE <<>>)

\* The tagged values at the end of a layer, each with its member: two tags share one.
LayerTags(version) ==
    (IF version > 800 THEN << <<"KMTE", "kmteEmissiveGain">> >> ELSE <<>>)
    \o (IF version > 900
        THEN << <<"KFC3", "kfcaFresnelAlpha">>, <<"KFCA", "kfcaFresnelAlpha">>,
                <<"KFTC", "kftcFresnelTeamColor">> >> ELSE <<>>)

\* Key frames; the ones of a curve have tangents.
FrameFields(lineType) ==
    <<"frame", "values">> \o (IF lineType > 1 THEN <<"inTan", "outTan">> ELSE <<>>)
NoFrames == [lineType |-> 0, globalSequenceId |-> <<"none">>, frames |-> <<>>]

AnimationTags == [KTAT |-> "translations", KTAR |-> "rotations", KTAS |-> "scalings"]

-----------------------------------------------------------------------------
(* write(): the units, and the size it returns, which goes into the header. *)

Put(object, fields) == [k \in DOMAIN fields |-> object[fields[k]]]

Total(sizes) ==
    LET upTo[k \in 0..Len(sizes)] == IF k = 0 THEN 0 ELSE upTo[k - 1] + sizes[k]
    IN  upTo[Len(sizes)]

Written(units) == [units |-> units, size |-> Len(units)]

PutFrames(a) ==
    <<Num(Len(a.frames)), Num(a.lineType), a.globalSequenceId>>
    \o FlattenSeq([k \in DOMAIN a.frames |-> Put(a.frames[k], FrameFields(a.lineType))])

PutTagged(tag, a) == IF a.frames = <<>> THEN <<>> ELSE <<Tag(tag)>> \o PutFrames(a)

\* The unit for the size is skipped first and filled in at the end.
PutLayer(layer, version) ==
    LET tags == LayerTags(version)
        body == Put(layer, LayerFields(version))
                \o PutTagged("KMTF", layer.textureIds) \o PutTagged("KMTA", layer.alphas)
                \o FlattenSeq([k \in DOMAIN tags |-> <<Tag(tags[k][1]), layer[tags[k][2]]>>])
    IN  Written(<<Num(Len(body) + 1)>> \o body)

\* It is not skipped here: the size replaces the first value.
PutMaterial(material, version) ==
    LET layers == material.layers
        body == Put(material, MaterialFields(version)) \o <<Tag("LAYS"), Num(Len(layers))>>
                \o FlattenSeq([k \in DOMAIN layers |-> PutLayer(layers[k], version).units])
    IN  [units |-> <<Num(Len(body) + 1)>> \o Tail(body), size |-> Len(body) + 1]

\* Nor here, and the write position ends one unit further; a tag is written with the
\* zero that ends the literal.
PutTextureAnimation(animation) ==
    LET Block(tag, member) ==
          IF member \in DOMAIN animation
          THEN <<Tag(tag), Num(0)>> \o PutFrames(animation[member]) ELSE <<>>
        body == Block("KTAT", "translations") \o Block("KTAR", "rotations")
                \o Block("KTAS", "scalings")
    IN  Written(IF body = <<>> THEN <<Num(1)>>
                ELSE <<Num(Len(body) + 1)>> \o Tail(body) \o <<Num(0)>>)

\* No counts, and the size is written as a number of twice the width, over the
\* first tag.
PutGeoset(geoset) ==
    LET body == <<Tag("VRTX")>> \o geoset.vertices \o <<Tag("NRMS")>> \o geoset.normals
                \o Put(geoset, Bounds)
    IN  [units |-> <<Num(Len(body) - 1), Num(0)>> \o Tail(body), size |-> Len(body) + 2]

PutObject(s, object, version) ==
    CASE s = "MTLS" -> PutMaterial(object, version)
      [] s = "TXAN" -> PutTextureAnimation(object)
      [] s = "GEOS" -> PutGeoset(object)
      [] OTHER -> Written(Put(object, FieldsWritten[s]))

\* A mutant for SavedReadsBack: the size counts the header, as that of a layer does.
SectionInclusive(tag, parts) ==
    <<Tag(tag), Num(HeaderSize + Total([k \in DOMAIN parts |-> parts[k].size]))>>
    \o FlattenSeq([k \in DOMAIN parts |-> parts[k].units])

Section(tag, parts) ==
    <<Tag(tag), Num(Total([k \in DOMAIN parts |-> parts[k].size]))>>
    \o FlattenSeq([k \in DOMAIN parts |-> parts[k].units])

PutSection(m, s) ==
    CASE s = "VERS" -> <<Tag("VERS"), Num(1), Num(m.VERS)>>
      [] s = "MODL" -> Section("MODL", <<PutObject("MODL", m.MODL, m.VERS)>>)
      [] OTHER -> Section(s, [k \in DOMAIN m[s] |-> PutObject(s, m[s][k], m.VERS)])

\* Mdlx::write
File(m) == <<Tag("MDLX")>> \o FlattenSeq([k \in DOMAIN Sections |-> PutSection(m, Sections[k])])
-----------------------------------------------------------------------------
VARIABLES
    model,     \* what the file was made of
    file,
    by,        \* who made it: "none" (nobody yet), "saved", "shipped", "other"
    cut,       \* its end was lost
    pos,       \* where the reader is
    got,       \* the model it fills
    outcome    \* "none", "reading", "ok", "thrown", "crashed"

vars == <<model, file, by, cut, pos, got, outcome>>

-----------------------------------------------------------------------------
(* read(): a reader has what it throws, its place, the size it returns and   *)
(* the object.                                                               *)

Reader(p, object) == [out |-> "ok", pos |-> p, size |-> 0, object |-> object]

Threw(r) == [r EXCEPT !.out = "thrown"]

With(r, object) == [r EXCEPT !.object = object]

\* An object with other members, and with one.
Over(new, object) ==
    [f \in DOMAIN new \union DOMAIN object |-> IF f \in DOMAIN new THEN new[f] ELSE object[f]]
Set(object, member, value) ==
    [f \in DOMAIN object \union {member} |-> IF f = member THEN value ELSE object[f]]

\* n units further.
Further(r, n, object) ==
    [out |-> "ok", pos |-> r.pos + n, size |-> r.size + n, object |-> object]

\* Behind a part that was read with its own reader.
Behind(r, part, object) ==
    [out |-> "ok", pos |-> part.pos, size |-> r.size + part.size, object |-> object]

\* What follows a reader; an exception ends it.  (The reader is bound as the member of
\* a set and chosen, so that it is evaluated once.)
Then(reader, F(_)) ==
    CHOOSE next \in {IF r.out = "ok" THEN F(r) ELSE r : r \in {reader}} : TRUE

\* The object whose fields are the units from p on.
Place(f, fields) == CHOOSE k \in DOMAIN fields : fields[k] = f
ObjectAt(p, fields) == [f \in Range(fields) |-> file[p - 1 + Place(f, fields)]]

\* A mutant for CutLosesLastSections: what is behind the end is a zero.
ReadFieldsPastEnd(r, fields) ==
    LET Value(k) == IF k > Len(file) THEN Num(0) ELSE file[k]
        object == [f \in Range(fields) |-> Value(r.pos - 1 + Place(f, fields))]
    IN  Further(r, Len(fields), Over(object, r.object))

\* Value after value; one that is not there throws.
ReadFields(r, fields) ==
    IF r.pos + Len(fields) > Len(file) + 1 THEN Threw(r)
    ELSE Further(r, Len(fields), Over(ObjectAt(r.pos, fields), r.object))

ReadUnit(r, f) == ReadFields(r, <<f>>)

ReadTag(r, tag) ==
    Then(ReadUnit(r, "tag"),
         LAMBDA next : IF next.object.tag = Tag(tag) THEN next ELSE Threw(next))

\* A loop that reads takes a unit in every round or throws: from p on it has no more
\* rounds than this.
Rounds(p) == IF p > Len(file) THEN 1 ELSE Len(file) + 2 - p

ReadFrameList(r, n, fields) ==
    LET width == Len(fields)
    IN  IF r.pos + n * width > Len(file) + 1 THEN Threw(r)
        ELSE Further(r, n * width,
                     [k \in 1..n |-> ObjectAt(r.pos + (k - 1) * width, fields)])

ReadFrames(r, member) ==
    LET Frames(head, list) == [lineType |-> NumberIn(head.lineType),
                               globalSequenceId |-> head.globalSequenceId, frames |-> list]
        List(head) ==
          Then(ReadFrameList(head, NumberIn(head.object.count),
                             FrameFields(NumberIn(head.object.lineType))),
               LAMBDA all : With(all, Set(r.object, member, Frames(head.object, all.object))))
    IN  Then(ReadFields(With(r, <<>>), <<"count", "lineType", "globalSequenceId">>), List)

\* skipMdxInclusiveEmptyBytes, skipMdxHeaderEmptyBytes
Skip(r, size) == IF size > r.size THEN [r EXCEPT !.pos = @ + (size - r.size)] ELSE r

Without(object, fields) == [f \in DOMAIN object \ fields |-> object[f]]

\* The end of an object that starts with its size.
SkipInclusive(r) ==
    With(Skip(r, NumberIn(r.object.inclusiveSize)),
         Without(r.object, {"inclusiveSize", "tag", "count"}))

\* A mutant for ShippedIsRead: the tag is not given back when no animation starts there.
ReadLayerAnimationsAhead(r) ==
    LET Animations(first) ==
          IF first.object.tag \in {Tag("KMTF"), Tag("KMTA")} THEN ReadFrames(first, "alphas")
          ELSE first
    IN  Then(ReadUnit(r, "tag"), Animations)

\* The two animations of a layer are optional.  After texture ids the tag that
\* follows is read whatever it is, and counted only if it is that of the alphas,
\* then together with the one before.
ReadLayerAnimations(r) ==
    LET Alphas(second) ==
          IF second.object.tag = Tag("KMTA")
          THEN ReadFrames([second EXCEPT !.size = @ + 1], "alphas")
          ELSE [second EXCEPT !.size = @ - 1]
        Animations(first) ==
          CASE first.object.tag = Tag("KMTF") ->
                  Then(ReadFrames(first, "textureIds"),
                       LAMBDA ids : Then(ReadUnit(ids, "tag"), Alphas))
            [] first.object.tag = Tag("KMTA") -> ReadFrames(first, "alphas")
            [] OTHER -> r
    IN  Then(ReadUnit(r, "tag"), Animations)

ReadTagged(r, tag, member) == Then(ReadTag(r, tag), LAMBDA next : ReadUnit(next, member))

ReadLayerTags(r, tags) ==
    LET after[k \in 0..Len(tags)] ==
          IF k = 0 THEN r
          ELSE Then(after[k - 1], LAMBDA last : ReadTagged(last, tags[k][1], tags[k][2]))
    IN  after[Len(tags)]

ReadLayer(p, version) ==
    Then(ReadFields(Reader(p, [textureIds |-> NoFrames, alphas |-> NoFrames]),
                    <<"inclusiveSize">> \o LayerFields(version)),
         LAMBDA fixed :
            Then(ReadLayerAnimations(fixed),
                 LAMBDA r : Then(ReadLayerTags(r, LayerTags(version)), SkipInclusive)))

NextLayer(r, version) ==
    Then(ReadLayer(r.pos, version),
         LAMBDA layer : Behind(r, layer, [r.object EXCEPT !.layers = Append(@, layer.object)]))

ReadLayers(r, n, version) ==
    LET rounds == Min({n, Rounds(r.pos)})
        after[k \in 0..rounds] ==
          IF k = 0 THEN With(r, Set(r.object, "layers", <<>>))
          ELSE Then(after[k - 1], LAMBDA last : NextLayer(last, version))
    IN  after[rounds]

ReadMaterial(p, version) ==
    LET fixed == ReadFields(Reader(p, <<>>), <<"inclusiveSize">> \o MaterialFields(version))
        Layers(count) == ReadLayers(count, NumberIn(count.object.count), version)
    IN  Then(Then(Then(Then(fixed, LAMBDA r : ReadTag(r, "LAYS")),
                       LAMBDA r : ReadUnit(r, "count")),
                  Layers),
             SkipInclusive)

\* What is left is signed and compared with a size: only 0 ends the loop.
NextBlock(r) ==
    LET Block(next) ==
          IF \E t \in DOMAIN AnimationTags : next.object.tag = Tag(t)
          THEN ReadFrames(next, AnimationTags[next.object.tag[2]]) ELSE Threw(next)
    IN  IF r.size = NumberIn(r.object.inclusiveSize) THEN r
        ELSE Then(ReadUnit(r, "tag"), Block)

ReadBlocks(r) ==
    LET after[k \in 0..Rounds(r.pos)] ==
          IF k = 0 THEN r ELSE Then(after[k - 1], NextBlock)
    IN  after[Rounds(r.pos)]

ReadTextureAnimation(p) ==
    Then(Then(ReadUnit(Reader(p, <<>>), "inclusiveSize"), ReadBlocks), SkipInclusive)

\* A tag, a count and as many values; a vector of none cannot be read.
ReadList(r, tag, member, vector) ==
    LET Values(count) ==
          LET n == NumberIn(count.object.count)
          IN  IF (n = 0 /\ vector) \/ count.pos + n > Len(file) + 1 THEN Threw(count)
              ELSE Further(count, n, Set(count.object, member,
                                         SubSeq(file, count.pos, count.pos + n - 1)))
    IN  Then(Then(ReadTag(r, tag), LAMBDA next : ReadUnit(next, "count")), Values)

\* The lists of a geoset.  The faces are built from the types, counts and triangles,
\* the matrices from the last two.
GeosetLists ==
    << <<"VRTX", "vertices", FALSE>>, <<"NRMS", "normals", FALSE>>, <<"PTYP", "types", FALSE>>,
       <<"PCNT", "counts", FALSE>>, <<"PVTX", "triangles", TRUE>>,
       <<"GNDX", "groupVertices", TRUE>>, <<"MTGC", "groupCounts", TRUE>>,
       <<"MATS", "matrices", TRUE>> >>

ReadLists(r, lists) ==
    LET after[k \in 0..Len(lists)] ==
          IF k = 0 THEN r
          ELSE Then(after[k - 1],
                    LAMBDA last : ReadList(last, lists[k][1], lists[k][2], lists[k][3]))
    IN  after[Len(lists)]

\* What is skipped at the end is as long as what was read.
ReadGeoset(p) ==
    Then(Then(Then(ReadUnit(Reader(p, <<>>), "nbytes"),
                   LAMBDA r : ReadLists(r, GeosetLists)),
              LAMBDA r : ReadFields(r, Bounds)),
         LAMBDA r : With([r EXCEPT !.pos = @ + (r.size - 1)],
                         Without(r.object, {"nbytes", "tag", "count"})))

\* The types of the geoset at p ask for counts, and these for triangles, that it has not
\* got: values behind the vectors are read.
FaceLists == [k \in 1..5 |-> GeosetLists[k]]
FacesOutOfRange(p) ==
    LET r == Then(ReadUnit(Reader(p, <<>>), "nbytes"), LAMBDA next : ReadLists(next, FaceLists))
        Asked(geoset) == Total([k \in DOMAIN geoset.types |-> NumberIn(geoset.counts[k])])
    IN  /\ r.out = "ok"
        /\ \/ Len(r.object.types) > Len(r.object.counts)
           \/ Asked(r.object) > Len(r.object.triangles)

ReadObject(s, p, version) ==
    CASE s = "MTLS" -> ReadMaterial(p, version)
      [] s = "TXAN" -> ReadTextureAnimation(p)
      [] s = "GEOS" -> ReadGeoset(p)
      [] OTHER -> ReadFields(Reader(p, <<>>), FieldsRead[s])

\* The objects of a section, until the size of its header is used up; what is left of
\* it is unsigned.
NextObject(r, s, size, version) ==
    IF r.size = size THEN r
    ELSE Then(ReadObject(s, r.pos, version),
              LAMBDA one : Behind(r, one, Append(r.object, one.object)))

\* One of the geosets of a section asks for values it has not got.
GeosetsOutOfRange(p, size, version) ==
    LET after[k \in 0..Rounds(p)] ==
          IF k = 0 THEN Reader(p, <<>>)
          ELSE Then(after[k - 1], LAMBDA last : NextObject(last, "GEOS", size, version))
    IN  \E k \in 0..Rounds(p) :
            after[k].out = "ok" /\ after[k].size # size /\ FacesOutOfRange(after[k].pos)

ReadObjects(s, p, size, version) ==
    LET after[k \in 0..Rounds(p)] ==
          IF k = 0 THEN Reader(p, <<>>)
          ELSE Then(after[k - 1], LAMBDA last : NextObject(last, s, size, version))
    IN  after[Rounds(p)]

-----------------------------------------------------------------------------
(* The steps of Mdlx::read, one per section.                                 *)

Init ==
    /\ model = EmptyModel /\ file = <<>> /\ by = "none" /\ cut = FALSE
    /\ pos = 1 /\ got = EmptyModel /\ outcome = "none"

\* Mdlx::write
Save ==
    /\ by = "none" /\ by' = "saved"
    /\ \E m \in Models : model' = m /\ file' = File(m)
    /\ UNCHANGED <<cut, pos, got, outcome>>

\* The file of another program: of a model, or anything.
Ship ==
    /\ by = "none"
    /\ \/ \E s \in Shipped : model' = s.model /\ file' = s.file /\ by' = "shipped"
       \/ file' \in Streams /\ by' = "other" /\ UNCHANGED model
    /\ UNCHANGED <<cut, pos, got, outcome>>

Lose ==
    /\ by \in {"saved", "shipped"} /\ outcome = "none" /\ ~cut
    /\ \E k \in 0..(Len(file) - 1) : file' = SubSeq(file, 1, k)
    /\ cut' = TRUE
    /\ UNCHANGED <<model, by, pos, got, outcome>>

Start ==
    /\ by # "none" /\ outcome = "none"
    /\ LET magic == ReadTag(Reader(1, <<>>), "MDLX")
       IN  outcome' = (IF magic.out = "ok" THEN "reading" ELSE "thrown") /\ pos' = magic.pos
    /\ UNCHANGED <<model, file, by, cut, got>>

AtHeader == outcome = "reading" /\ pos + HeaderSize <= Len(file) + 1
HeaderTag == file[pos]
HeaderLength == NumberIn(file[pos + 1])

\* What a section leaves behind, if it does not throw.
Advance(reader, s, Value(_)) ==
    /\ \E r \in {reader} :
          /\ pos' = r.pos
          /\ IF r.out = "ok" THEN got' = [got EXCEPT ![s] = Value(r)] /\ UNCHANGED outcome
             ELSE outcome' = "thrown" /\ UNCHANGED got
    /\ UNCHANGED <<model, file, by, cut>>
Whole(r) == r.object

ReadVersion ==
    /\ AtHeader /\ HeaderTag = Tag("VERS")
    /\ Advance(Then(ReadUnit(Reader(pos + HeaderSize, <<>>), "version"),
                    LAMBDA r : Skip(r, HeaderLength)),
               "VERS", LAMBDA r : NumberIn(r.object.version))

\* The header is read once more with the model.
ReadModel ==
    /\ AtHeader /\ HeaderTag = Tag("MODL")
    /\ Advance(Then(ReadFields(Reader(pos + HeaderSize, <<>>), FieldsRead.MODL),
                    LAMBDA r : Skip(r, HeaderLength)),
               "MODL", Whole)

ReadSection ==
    /\ AtHeader
    /\ \E s \in SectionSet \ {"VERS", "MODL"} :
          /\ HeaderTag = Tag(s)
          /\ Advance(ReadObjects(s, pos + HeaderSize, HeaderLength, got.VERS), s, Whole)

\* What is read behind a vector is not defined: the reader goes on with it (ReadSection),
\* cannot reserve as much, or crashes.
ReadOutOfRange ==
    /\ AtHeader /\ HeaderTag = Tag("GEOS") /\ HeaderLength # 0
    /\ GeosetsOutOfRange(pos + HeaderSize, HeaderLength, got.VERS)
    /\ outcome' \in {"thrown", "crashed"}
    /\ UNCHANGED <<model, file, by, cut, pos, got>>

\* A mutant for EveryReadEnds: the reader goes back to the start of the header.
SkipUnknownInPlace ==
    /\ AtHeader /\ \A s \in SectionSet : HeaderTag # Tag(s)
    /\ IF pos + HeaderSize <= Len(file) THEN UNCHANGED <<pos, outcome>>
       ELSE outcome' = "ok" /\ UNCHANGED pos
    /\ UNCHANGED <<model, file, by, cut, got>>

\* Any other tag: the next byte may be the start of a section, unless the header was
\* the end.  (Bytes between two units are taken for no section.)
SkipUnknown ==
    /\ AtHeader /\ \A s \in SectionSet : HeaderTag # Tag(s)
    /\ IF pos + HeaderSize <= Len(file)
       THEN pos' = pos + 1 /\ UNCHANGED outcome
       ELSE outcome' = "ok" /\ UNCHANGED pos
    /\ UNCHANGED <<model, file, by, cut, got>>

Finish ==
    /\ outcome = "reading" /\ ~AtHeader
    /\ outcome' = "ok"
    /\ UNCHANGED <<model, file, by, cut, pos, got>>

Read == Start \/ ReadVersion \/ ReadModel \/ ReadSection \/ ReadOutOfRange \/ SkipUnknown \/ Finish

Next == Save \/ Ship \/ Lose \/ Read

\* read() is a loop that nothing but its end or an exception stops.
Spec == Init /\ [][Next]_vars /\ WF_vars(Read)

-----------------------------------------------------------------------------
(* Properties                                                              *)

\* A model without materials, texture animations and geosets, and with the members that
\* its objects have.
Plain == DOMAIN FieldsRead
IsList(fields) == Len(fields) \in Nat /\ DOMAIN fields = 1..Len(fields)
Firsts(list, k) == [i \in 1..k |-> list[i]]
IsObject(object, fields) == object = [x \in Range(fields) |-> object[x]]
IsPlain(m) ==
    /\ m = [s \in SectionSet |-> m[s]]
    /\ m["MTLS"] = <<>> /\ m["TXAN"] = <<>> /\ m["GEOS"] = <<>>
    /\ IsObject(m["MODL"], FieldsRead["MODL"])
    /\ \A s \in Plain \ {"MODL"} :
          /\ IsList(m[s]) /\ m[s] = Firsts(m[s], Len(m[s]))
          /\ \A k \in 1..Len(m[s]) : IsObject(m[s][k], FieldsRead[s])

Ended == outcome \in {"ok", "thrown", "crashed"}
Complete == outcome = "ok" /\ got = model

\* A saved model is read back, every section of it.
SavedReadsBack == by = "saved" /\ ~cut /\ Ended => Complete

\* So is one of another program, with the sections and blocks this one has no use
\* for in between.
ShippedIsRead == by = "shipped" /\ ~cut /\ Ended => Complete

\* So is any model, as the test that reads Orc_Exp.mdx, saves it and reads it back expects:
\* violated by saved materials, which lose their first value to their size, and by
\* geosets and texture ids of other programs.
ModelsAreRead == ~cut /\ by \in {"saved", "shipped"} /\ Ended => Complete

\* The end of a file that is missing is not always noticed, but then whole sections
\* are missing, the last ones, and the others are what they were.
CutLosesLastSections ==
    cut /\ outcome = "ok" =>
        \E n \in 0..Len(Sections) : \A k \in DOMAIN Sections :
            got[Sections[k]] = (IF k <= n THEN model ELSE EmptyModel)[Sections[k]]

\* Whatever a file contains, reading it ends: no size and no unknown tag keeps the
\* loops in place.
EveryReadEnds == outcome = "reading" ~> Ended
=============================================================================
