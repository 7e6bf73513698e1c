----------------------------- MODULE MdxProofs -----------------------------
(***************************************************************************)
(* Proofs about Mdx: what is read of a saved file, of a file of another    *)
(* program and of one that has lost its end.                               *)
(*                                                                         *)
(* FileLies(f, m, at, ends) says how a model lies in a whole file: section  *)
(* k from at[k] to ends[k], with units no section is known for in between.  *)
(* Its objects are fields, materials with layers, or texture animations     *)
(* (ObjectLies); geosets are not among them.                               *)
(* The invariant is that the file is a beginning of such a file f, that the *)
(* reader is between the end of one section and the start of the next, and  *)
(* that the sections it has passed are those of the model.  A lost end only *)
(* makes the beginning shorter, and a section that is not whole throws.     *)
(*                                                                         *)
(* A loop is a function whose value at k is the state after k rounds; what  *)
(* holds at 0 and is kept by a round holds at the end by InductionTo.       *)
(***************************************************************************)
EXTENDS Mdx, FoldLemmas

-----------------------------------------------------------------------------
(* What follows a reader.                                                  *)

(* The only member of a set is the one that is chosen.                     *)
LEMMA OnlyMember ==
    ASSUME NEW x, NEW S, S = {x}
    PROVE  (CHOOSE y \in S : TRUE) = x
OBVIOUS

(* The rounds of the loops.                                                *)
TagRound(r, tag, member) == IF r.out = "ok" THEN ReadTagged(r, tag, member) ELSE r
LayerRound(r, version) == IF r.out = "ok" THEN NextLayer(r, version) ELSE r
BlockRound(r) == IF r.out = "ok" THEN NextBlock(r) ELSE r
ObjectRound(r, s, size, version) ==
    IF r.out = "ok" THEN NextObject(r, s, size, version) ELSE r

(* Then() goes on with the next round, unless an exception has ended the    *)
(* loop.                                                                   *)
LEMMA RoundsThen ==
    ASSUME NEW r
    PROVE  /\ \A tag, member : Then(r, LAMBDA last : ReadTagged(last, tag, member))
                                = TagRound(r, tag, member)
           /\ \A version : Then(r, LAMBDA last : NextLayer(last, version)) = LayerRound(r, version)
           /\ Then(r, NextBlock) = BlockRound(r)
           /\ \A s, size, version :
                 Then(r, LAMBDA last : NextObject(last, s, size, version))
                    = ObjectRound(r, s, size, version)
<1>1. ASSUME NEW tag, NEW member
      PROVE  Then(r, LAMBDA last : ReadTagged(last, tag, member)) = TagRound(r, tag, member)
  <2> DEFINE S == {IF x.out = "ok" THEN ReadTagged(x, tag, member) ELSE x : x \in {r}}
  <2>1. S = {TagRound(r, tag, member)}
    BY DEF TagRound
  <2> QED BY <2>1, OnlyMember DEF Then
<1>2. ASSUME NEW version
      PROVE  Then(r, LAMBDA last : NextLayer(last, version)) = LayerRound(r, version)
  <2> DEFINE S == {IF x.out = "ok" THEN NextLayer(x, version) ELSE x : x \in {r}}
  <2>1. S = {LayerRound(r, version)}
    BY DEF LayerRound
  <2> QED BY <2>1, OnlyMember DEF Then
<1>3. Then(r, NextBlock) = BlockRound(r)
  <2> DEFINE S == {IF x.out = "ok" THEN NextBlock(x) ELSE x : x \in {r}}
  <2>1. S = {BlockRound(r)}
    BY DEF BlockRound
  <2> QED BY <2>1, OnlyMember DEF Then
<1>4. ASSUME NEW s, NEW size, NEW version
      PROVE  Then(r, LAMBDA last : NextObject(last, s, size, version))
                = ObjectRound(r, s, size, version)
  <2> DEFINE S == {IF x.out = "ok" THEN NextObject(x, s, size, version) ELSE x : x \in {r}}
  <2>1. S = {ObjectRound(r, s, size, version)}
    BY DEF ObjectRound
  <2> QED BY <2>1, OnlyMember DEF Then
<1> QED BY <1>1, <1>2, <1>3, <1>4

(* One round of any of the loops, so that what follows is shown once.      *)
Round(loop, last, k) ==
    CASE loop.of = "total" -> last + loop.sizes[k]
      [] loop.of = "tags" -> TagRound(last, loop.tags[k][1], loop.tags[k][2])
      [] loop.of = "layers" -> LayerRound(last, loop.version)
      [] loop.of = "blocks" -> BlockRound(last)
      [] loop.of = "objects" -> ObjectRound(last, loop.section, loop.size, loop.version)

(* What there is after each round of n.                                    *)
Runs(h, loop, first, n) ==
    h = [k \in 0..n |-> IF k = 0 THEN first ELSE Round(loop, h[k - 1], k)]

(* A loop has a state after each of its rounds.                            *)
LEMMA RunExists ==
    ASSUME NEW loop, NEW first, NEW n \in Nat
    PROVE  \E h : Runs(h, loop, first, n)
<1> DEFINE Good == {m \in 0..n : \E h : Runs(h, loop, first, m)}
<1>1. 0 \in Good
  <2> DEFINE h == [k \in 0..0 |-> first]
  <2>1. \A k \in 0..0 : k = 0
    OBVIOUS
  <2>2. Runs(h, loop, first, 0)
    BY <2>1 DEF Runs
  <2> QED BY <2>2
<1>2. ASSUME NEW m \in 0..n - 1, m \in Good
      PROVE  m + 1 \in Good
  <2>1. PICK h : Runs(h, loop, first, m)
    BY <1>2
  <2> DEFINE g == [k \in 0..m + 1 |-> IF k = m + 1 THEN Round(loop, h[m], m + 1) ELSE h[k]]
  <2>2. m \in Nat /\ m + 1 \in 0..n /\ m + 1 \in 0..m + 1 /\ (m + 1) - 1 = m
    OBVIOUS
  <2>3. \A k \in 0..m : /\ k \in 0..m + 1 /\ k # m + 1
                        /\ h[k] = IF k = 0 THEN first ELSE Round(loop, h[k - 1], k)
                        /\ k # 0 => k - 1 \in 0..m
    BY <2>1, <2>2 DEF Runs
  <2>4. \A k \in 0..m : g[k] = h[k]
    BY <2>3
  <2>5. g[m + 1] = Round(loop, h[m], m + 1) /\ m \in 0..m
    BY <2>2
  <2>6. DOMAIN g = 0..m + 1 /\ g = [k \in 0..m + 1 |-> g[k]]
    OBVIOUS
  <2> HIDE DEF g
  <2>7. \A k \in 0..m + 1 : g[k] = IF k = 0 THEN first ELSE Round(loop, g[k - 1], k)
    <3> SUFFICES ASSUME NEW k \in 0..m + 1
                 PROVE  g[k] = IF k = 0 THEN first ELSE Round(loop, g[k - 1], k)
      OBVIOUS
    <3>1. CASE k = m + 1
      BY <3>1, <2>2, <2>4, <2>5
    <3>2. CASE k # m + 1
      <4>1. k \in 0..m
        BY <3>2, <2>2
      <4> QED BY <4>1, <2>3, <2>4
    <3> QED BY <3>1, <3>2
  <2>8. Runs(g, loop, first, m + 1)
    BY <2>6, <2>7 DEF Runs
  <2> QED BY <2>2, <2>8
<1> HIDE DEF Good
<1>3. n \in Good
  <2>1. \A k \in 0..n : k \in Good
    BY <1>1, <1>2, InductionTo
  <2> QED BY <2>1
<1> QED BY <1>3 DEF Good

(* The loop of Total().                                                     *)
TotalLoop(sizes) == [of |-> "total", sizes |-> sizes]

(* What Total() returns is the state after the last round.                 *)
LEMMA TotalRun ==
    ASSUME NEW sizes, Len(sizes) \in Nat
    PROVE  \E h : Runs(h, TotalLoop(sizes), 0, Len(sizes)) /\ Total(sizes) = h[Len(sizes)]
<1> DEFINE n == Len(sizes)
           start == 0
           loop == TotalLoop(sizes)
           Step(x, k) == x + sizes[k]
           After(it) == [k \in 0..n |-> IF k = 0 THEN start ELSE Step(it[k - 1], k)]
           c == CHOOSE it : it = After(it)
<1>1. Total(sizes) = c[n]
  BY Zenon DEF Total, n, start, c, After, Step
<1>2. \A x, k : Step(x, k) = Round(loop, x, k)
  BY DEF Round, TotalLoop
<1> HIDE DEF Step, loop, start, n
<1>3. PICK h : Runs(h, loop, start, n)
  BY RunExists DEF n
<1>4. h = After(h)
  BY <1>2, <1>3 DEF Runs
<1>5. c = After(c)
  BY <1>4
<1> HIDE DEF c
<1>6. Runs(c, loop, start, n)
  BY <1>2, <1>5 DEF Runs
<1> QED BY <1>1, <1>6 DEF n, loop, start

(* The loop over the tagged values of a layer.                              *)
TagsLoop(tags) == [of |-> "tags", tags |-> tags]

(* What ReadLayerTags returns is the state after the last round.           *)
LEMMA LayerTagsRun ==
    ASSUME NEW r, NEW tags, Len(tags) \in Nat
    PROVE  \E h : Runs(h, TagsLoop(tags), r, Len(tags)) /\ ReadLayerTags(r, tags) = h[Len(tags)]
<1> DEFINE n == Len(tags)
           start == r
           loop == TagsLoop(tags)
           Step(x, k) == Then(x, LAMBDA last : ReadTagged(last, tags[k][1], tags[k][2]))
           After(it) == [k \in 0..n |-> IF k = 0 THEN start ELSE Step(it[k - 1], k)]
           c == CHOOSE it : it = After(it)
<1>1. ReadLayerTags(r, tags) = c[n]
  BY Zenon DEF ReadLayerTags, n, start, c, After, Step
<1>2. \A x, k : Step(x, k) = Round(loop, x, k)
  BY RoundsThen DEF Round, TagsLoop
<1> HIDE DEF Step, loop, start, n
<1>3. PICK h : Runs(h, loop, start, n)
  BY RunExists DEF n
<1>4. h = After(h)
  BY <1>2, <1>3 DEF Runs
<1>5. c = After(c)
  BY <1>4
<1> HIDE DEF c
<1>6. Runs(c, loop, start, n)
  BY <1>2, <1>5 DEF Runs
<1> QED BY <1>1, <1>6 DEF n, loop, start

(* The loop over the layers of a material.                                  *)
NoLayers(r) == With(r, Set(r.object, "layers", <<>>))
LayersLoop(version) == [of |-> "layers", version |-> version]

(* What ReadLayers returns is the state after the last round.              *)
LEMMA LayersRun ==
    ASSUME NEW r, NEW count, NEW version,
           Min({count, Rounds(r.pos)}) \in Nat
    PROVE  \E h : /\ Runs(h, LayersLoop(version), NoLayers(r), Min({count, Rounds(r.pos)}))
                  /\ ReadLayers(r, count, version) = h[Min({count, Rounds(r.pos)})]
<1> DEFINE n == Min({count, Rounds(r.pos)})
           start == NoLayers(r)
           loop == LayersLoop(version)
           Step(x, k) == Then(x, LAMBDA last : NextLayer(last, version))
           After(it) == [k \in 0..n |-> IF k = 0 THEN start ELSE Step(it[k - 1], k)]
           c == CHOOSE it : it = After(it)
<1>1. ReadLayers(r, count, version) = c[n]
  BY Zenon DEF ReadLayers, NoLayers, n, start, c, After, Step
<1>2. \A x, k : Step(x, k) = Round(loop, x, k)
  BY RoundsThen DEF Round, LayersLoop
<1> HIDE DEF Step, loop, start, n
<1>3. PICK h : Runs(h, loop, start, n)
  BY RunExists DEF n
<1>4. h = After(h)
  BY <1>2, <1>3 DEF Runs
<1>5. c = After(c)
  BY <1>4
<1> HIDE DEF c
<1>6. Runs(c, loop, start, n)
  BY <1>2, <1>5 DEF Runs
<1> QED BY <1>1, <1>6 DEF n, loop, start

(* The loop over the blocks of a texture animation.                         *)
BlocksLoop == [of |-> "blocks"]

(* What ReadBlocks returns is the state after the last round.              *)
LEMMA BlocksRun ==
    ASSUME NEW r, Rounds(r.pos) \in Nat
    PROVE  \E h : Runs(h, BlocksLoop, r, Rounds(r.pos)) /\ ReadBlocks(r) = h[Rounds(r.pos)]
<1> DEFINE n == Rounds(r.pos)
           start == r
           loop == BlocksLoop
           Step(x, k) == Then(x, NextBlock)
           After(it) == [k \in 0..n |-> IF k = 0 THEN start ELSE Step(it[k - 1], k)]
           c == CHOOSE it : it = After(it)
<1>1. ReadBlocks(r) = c[n]
  BY Zenon DEF ReadBlocks, n, start, c, After, Step
<1>2. \A x, k : Step(x, k) = Round(loop, x, k)
  BY RoundsThen DEF Round, BlocksLoop
<1> HIDE DEF Step, loop, start, n
<1>3. PICK h : Runs(h, loop, start, n)
  BY RunExists DEF n
<1>4. h = After(h)
  BY <1>2, <1>3 DEF Runs
<1>5. c = After(c)
  BY <1>4
<1> HIDE DEF c
<1>6. Runs(c, loop, start, n)
  BY <1>2, <1>5 DEF Runs
<1> QED BY <1>1, <1>6 DEF n, loop, start

(* The loop over the objects of a section.                                  *)
ObjectsLoop(s, size, version) ==
    [of |-> "objects", section |-> s, size |-> size, version |-> version]

(* What ReadObjects returns is the state after the last round.             *)
LEMMA ObjectsRun ==
    ASSUME NEW s, NEW p, NEW size, NEW version, Rounds(p) \in Nat
    PROVE  \E h : /\ Runs(h, ObjectsLoop(s, size, version), Reader(p, <<>>), Rounds(p))
                  /\ ReadObjects(s, p, size, version) = h[Rounds(p)]
<1> DEFINE n == Rounds(p)
           start == Reader(p, <<>>)
           loop == ObjectsLoop(s, size, version)
           Step(x, k) == Then(x, LAMBDA last : NextObject(last, s, size, version))
           After(it) == [k \in 0..n |-> IF k = 0 THEN start ELSE Step(it[k - 1], k)]
           c == CHOOSE it : it = After(it)
<1>1. ReadObjects(s, p, size, version) = c[n]
  BY Zenon DEF ReadObjects, n, start, c, After, Step
<1>2. \A x, k : Step(x, k) = Round(loop, x, k)
  BY RoundsThen DEF Round, ObjectsLoop
<1> HIDE DEF Step, loop, start, n
<1>3. PICK h : Runs(h, loop, start, n)
  BY RunExists DEF n
<1>4. h = After(h)
  BY <1>2, <1>3 DEF Runs
<1>5. c = After(c)
  BY <1>4
<1> HIDE DEF c
<1>6. Runs(c, loop, start, n)
  BY <1>2, <1>5 DEF Runs
<1> QED BY <1>1, <1>6 DEF n, loop, start

-----------------------------------------------------------------------------
(* Readers.                                                                *)

IsReader(r) ==
    /\ r = [out |-> r.out, pos |-> r.pos, size |-> r.size, object |-> r.object]
    /\ r.out \in {"ok", "thrown"} /\ r.pos \in Nat /\ r.pos >= 1 /\ r.size \in Nat

(* What a reader is when it starts, and when it throws.                    *)
LEMMA Readers ==
    /\ \A p \in Nat : \A object : p >= 1 =>
          /\ IsReader(Reader(p, object)) /\ Reader(p, object).out = "ok"
          /\ Reader(p, object).pos = p /\ Reader(p, object).size = 0
          /\ Reader(p, object).object = object
    /\ \A r : IsReader(r) => /\ IsReader(Threw(r)) /\ Threw(r).out = "thrown"
                             /\ Threw(r).pos = r.pos
<1>1. ASSUME NEW p \in Nat, NEW object, p >= 1
      PROVE  /\ IsReader(Reader(p, object)) /\ Reader(p, object).out = "ok"
             /\ Reader(p, object).pos = p /\ Reader(p, object).size = 0
             /\ Reader(p, object).object = object
  BY <1>1 DEF IsReader, Reader
<1>2. ASSUME NEW r, IsReader(r)
      PROVE  IsReader(Threw(r)) /\ Threw(r).out = "thrown" /\ Threw(r).pos = r.pos
  <2>1. Threw(r) = [out |-> "thrown", pos |-> r.pos, size |-> r.size, object |-> r.object]
    BY <1>2 DEF IsReader, Threw
  <2> QED BY <1>2, <2>1 DEF IsReader
<1> QED BY <1>1, <1>2

(* A reader that goes on.                                                  *)
LEMMA FurtherOn ==
    ASSUME NEW r, IsReader(r), NEW n \in Nat, NEW object
    PROVE  /\ IsReader(Further(r, n, object)) /\ Further(r, n, object).out = "ok"
           /\ Further(r, n, object).pos = r.pos + n /\ Further(r, n, object).size = r.size + n
           /\ Further(r, n, object).object = object
<1>1. r.pos + n \in Nat /\ r.pos + n >= 1 /\ r.size + n \in Nat
  BY DEF IsReader
<1> QED BY <1>1 DEF IsReader, Further

(* Fields are read if all of them are there.                               *)
LEMMA FieldsAreRead ==
    ASSUME NEW r, IsReader(r), NEW fields, Len(fields) \in Nat, Len(file) \in Nat
    PROVE  /\ IsReader(ReadFields(r, fields))
           /\ ReadFields(r, fields).out = "ok" <=> r.pos + Len(fields) <= Len(file) + 1
           /\ ReadFields(r, fields).out = "ok" =>
                /\ ReadFields(r, fields).pos = r.pos + Len(fields)
                /\ ReadFields(r, fields).size = r.size + Len(fields)
                /\ ReadFields(r, fields).object = Over(ObjectAt(r.pos, fields), r.object)
<1> DEFINE object == Over(ObjectAt(r.pos, fields), r.object)
           n == Len(fields)
<1>1. CASE r.pos + n > Len(file) + 1
  <2>1. ReadFields(r, fields) = Threw(r)
    BY <1>1 DEF ReadFields
  <2>2. IsReader(Threw(r)) /\ Threw(r).out = "thrown"
    BY Readers
  <2>3. ~ (r.pos + n <= Len(file) + 1)
    BY <1>1 DEF IsReader
  <2> QED BY <2>1, <2>2, <2>3
<1>2. CASE ~ (r.pos + n > Len(file) + 1)
  <2>1. ReadFields(r, fields) = Further(r, n, object)
    BY <1>2 DEF ReadFields
  <2>2. r.pos + n <= Len(file) + 1
    BY <1>2 DEF IsReader
  <2> HIDE DEF object
  <2> QED BY <2>1, <2>2, FurtherOn DEF object
<1> QED BY <1>1, <1>2

-----------------------------------------------------------------------------
(* Objects of which all fields are always there.                           *)

(* The file, or what is left of it, is the beginning of f.                 *)
Begins(f) ==
    /\ Len(f) \in Nat /\ Len(file) \in 0..Len(f)
    /\ \A i \in 1..Len(file) : file[i] = f[i]

ObjectIn(f, p, fields) ==
    [x \in Range(fields) |-> f[p - 1 + Place(x, fields)]]
FieldsLie(f, p, e, object, fields) ==
    e = p + Len(fields) /\ object = ObjectIn(f, p, fields)

(* The length of two lists, one behind the other.                          *)
LEMMA Concatenated ==
    ASSUME NEW S, NEW a \in Seq(S), NEW b \in Seq(S)
    PROVE  a \o b \in Seq(S) /\ Len(a \o b) = Len(a) + Len(b)
BY ConcatProperties

(* Every object has a field.                                               *)
LEMMA PlainFields ==
    /\ Plain = {"MODL", "SEQS", "GLBS", "TEXS", "SNDS", "PIVT"}
    /\ \A s \in Plain : /\ IsList(FieldsRead[s]) /\ Len(FieldsRead[s]) \in 1..10
                        /\ FieldsRead[s] = FieldsWritten[s]
<1> DEFINE B == {"boundsRadius", "minimumExtent", "maximumExtent"}
           M == {"name", "animationFileName", "blendTime"} \union B
           S == {"name", "intervalStart", "intervalEnd", "moveSpeed", "noLooping", "rarity",
                 "syncPoint"} \union B
           first == <<"name", "animationFileName">>
           last == <<"blendTime">>
           own == <<"name", "intervalStart", "intervalEnd", "moveSpeed", "noLooping", "rarity",
                    "syncPoint">>
<1>1. Bounds \in Seq(B) /\ Bounds \in Seq(M) /\ Bounds \in Seq(S) /\ Len(Bounds) = 3
  BY DEF Bounds
<1>2. ModelRead \in Seq(M) /\ Len(ModelRead) = 6
  <2>1. first \in Seq(M) /\ Len(first) = 2 /\ last \in Seq(M) /\ Len(last) = 1
    OBVIOUS
  <2>2. ModelRead = first \o Bounds \o last
    BY DEF ModelRead
  <2> HIDE DEF first, last, M
  <2>3. Bounds \in Seq(M) /\ Len(Bounds) = 3
    BY <1>1
  <2>4. first \o Bounds \in Seq(M) /\ Len(first \o Bounds) = Len(first) + Len(Bounds)
    BY <2>1, <2>3, Concatenated, Zenon
  <2>5. /\ (first \o Bounds) \o last \in Seq(M)
        /\ Len((first \o Bounds) \o last) = Len(first \o Bounds) + Len(last)
    BY <2>1, <2>4, Concatenated, Zenon
  <2> DEFINE n == Len(first \o Bounds)
             k == Len((first \o Bounds) \o last)
  <2>6. n = 2 + 3 /\ k = n + 1
    BY <2>1, <2>3, <2>4, <2>5
  <2> HIDE DEF n, k
  <2>7. k = 6
    BY <2>6
  <2> QED BY <2>2, <2>5, <2>7 DEF k
<1>3. SequenceRead \in Seq(S) /\ Len(SequenceRead) = 10
  <2>1. own \in Seq(S) /\ Len(own) = 7
    OBVIOUS
  <2>2. SequenceRead = own \o Bounds
    BY DEF SequenceRead
  <2> HIDE DEF own, S
  <2>3. Bounds \in Seq(S) /\ Len(Bounds) = 3
    BY <1>1
  <2>4. own \o Bounds \in Seq(S) /\ Len(own \o Bounds) = Len(own) + Len(Bounds)
    BY <2>1, <2>3, Concatenated, Zenon
  <2> DEFINE n == Len(own \o Bounds)
  <2>5. n = 7 + 3
    BY <2>1, <2>3, <2>4
  <2> HIDE DEF n
  <2>6. n = 10
    BY <2>5
  <2> QED BY <2>2, <2>4, <2>6 DEF n
<1>4. /\ IsList(TextureRead) /\ Len(TextureRead) = 3
      /\ IsList(SoundTrackRead) /\ Len(SoundTrackRead) = 4
      /\ IsList(<<"globalSequence">>) /\ Len(<<"globalSequence">>) = 1
      /\ IsList(<<"pivotPoint">>) /\ Len(<<"pivotPoint">>) = 1
  BY DEF TextureRead, SoundTrackRead, IsList
<1>5. IsList(ModelRead) /\ IsList(SequenceRead)
  <2> HIDE DEF M, S
  <2> QED BY <1>2, <1>3 DEF IsList
<1>6. /\ ModelRead = ModelWrite /\ SequenceRead = SequenceWrite
      /\ TextureRead = TextureWrite /\ SoundTrackRead = SoundTrackWrite
  BY DEF ModelRead, ModelWrite, SequenceRead, SequenceWrite, TextureRead, TextureWrite,
         SoundTrackRead, SoundTrackWrite
<1>7. Plain = {"MODL", "SEQS", "GLBS", "TEXS", "SNDS", "PIVT"}
  BY DEF Plain, FieldsRead
<1>8. ASSUME NEW s \in Plain
      PROVE  /\ IsList(FieldsRead[s]) /\ Len(FieldsRead[s]) \in 1..10
             /\ FieldsRead[s] = FieldsWritten[s]
  <2>1. CASE s = "MODL"
    BY <2>1, <1>2, <1>5, <1>6 DEF FieldsRead, FieldsWritten
  <2>2. CASE s = "SEQS"
    BY <2>2, <1>3, <1>5, <1>6 DEF FieldsRead, FieldsWritten
  <2>3. CASE s = "GLBS"
    BY <2>3, <1>4 DEF FieldsRead, FieldsWritten
  <2>4. CASE s = "TEXS"
    BY <2>4, <1>4, <1>6 DEF FieldsRead, FieldsWritten
  <2>5. CASE s = "SNDS"
    BY <2>5, <1>4, <1>6 DEF FieldsRead, FieldsWritten
  <2>6. CASE s = "PIVT"
    BY <2>6, <1>4 DEF FieldsRead, FieldsWritten
  <2> QED BY <1>7, <2>1, <2>2, <2>3, <2>4, <2>5, <2>6
<1> QED BY <1>7, <1>8

(* Fields that are there are those of the whole file.                      *)
LEMMA FieldsOfWhole ==
    ASSUME NEW f, Begins(f), NEW p \in Nat, p >= 1, NEW fields, IsList(fields),
           p + Len(fields) <= Len(file) + 1
    PROVE  ObjectAt(p, fields) = ObjectIn(f, p, fields)
<1>1. ASSUME NEW x \in Range(fields)
      PROVE  file[p - 1 + Place(x, fields)] = f[p - 1 + Place(x, fields)]
  <2>1. \E k \in DOMAIN fields : fields[k] = x
    BY <1>1 DEF Range
  <2>2. Place(x, fields) \in DOMAIN fields
    BY <2>1 DEF Place
  <2>3. Place(x, fields) \in 1..Len(fields) /\ Len(fields) \in Nat
    BY <2>2 DEF IsList
  <2>4. p - 1 + Place(x, fields) \in 1..Len(file)
    BY <2>3 DEF Begins
  <2> QED BY <2>4 DEF Begins
<1> QED BY <1>1 DEF ObjectAt, ObjectIn

(* Nothing is added to an object.                                          *)
LEMMA AddedToNothing ==
    ASSUME NEW g, g = [x \in DOMAIN g |-> g[x]] PROVE Over(g, <<>>) = g
<1>1. DOMAIN << >> = {}
  OBVIOUS
<1> QED BY <1>1 DEF Over

\* What reading an object that lies from p to e leaves behind.
IsRead(x, p, e, object) ==
    /\ IsReader(x)
    /\ x.out = "ok" <=> e <= Len(file) + 1
    /\ x.out = "ok" => x.pos = e /\ x.size = e - p /\ x.object = object

(* A plain object is read as it lies there, or it is not there.            *)
LEMMA PlainIsRead ==
    ASSUME NEW f, Begins(f), NEW s \in Plain, NEW p \in Nat, p >= 1, NEW e, NEW object,
           FieldsLie(f, p, e, object, FieldsRead[s]), NEW version
    PROVE  IsRead(ReadObject(s, p, version), p, e, object)
<1> DEFINE fields == FieldsRead[s]
           r == Reader(p, <<>>)
           x == ReadFields(r, fields)
<1>1. ReadObject(s, p, version) = x
  <2>1. s # "MTLS" /\ s # "TXAN" /\ s # "GEOS"
    BY PlainFields
  <2> QED BY <2>1 DEF ReadObject
<1>2. IsList(fields) /\ Len(fields) \in Nat /\ Len(file) \in Nat
  BY PlainFields DEF Begins, IsList
<1>3. IsReader(r) /\ r.pos = p /\ r.size = 0 /\ r.object = <<>>
  BY Readers
<1>4. e = p + Len(fields) /\ object = ObjectIn(f, p, fields)
  BY DEF FieldsLie
<1> HIDE DEF fields, r
<1>5. /\ IsReader(x)
      /\ x.out = "ok" <=> r.pos + Len(fields) <= Len(file) + 1
      /\ x.out = "ok" => /\ x.pos = r.pos + Len(fields) /\ x.size = r.size + Len(fields)
                         /\ x.object = Over(ObjectAt(r.pos, fields), r.object)
  BY <1>2, <1>3, FieldsAreRead
<1>6. x.out = "ok" => x.object = object
  <2> SUFFICES ASSUME x.out = "ok" PROVE x.object = object
    OBVIOUS
  <2>1. ObjectAt(p, fields) = ObjectIn(f, p, fields)
    BY <1>2, <1>3, <1>5, FieldsOfWhole
  <2>2. Over(ObjectIn(f, p, fields), <<>>) = ObjectIn(f, p, fields)
    <3> DEFINE g == ObjectIn(f, p, fields)
    <3>1. g = [y \in DOMAIN g |-> g[y]]
      BY DEF ObjectIn
    <3> HIDE DEF g
    <3> QED BY <3>1, AddedToNothing DEF g
  <2> QED BY <1>3, <1>4, <1>5, <2>1, <2>2
<1> HIDE DEF x
<1>7. x.out = "ok" => x.size = e - p
  BY <1>2, <1>3, <1>4, <1>5
<1>8. x.out = "ok" <=> e <= Len(file) + 1
  BY <1>3, <1>4, <1>5
<1>9. x.out = "ok" => x.pos = e
  BY <1>3, <1>4, <1>5
<1>10. IsRead(x, p, e, object)
  BY <1>5, <1>6, <1>7, <1>8, <1>9 DEF IsRead
<1> QED BY <1>1, <1>10

-----------------------------------------------------------------------------
(* Lists and places.                                                       *)

(* A list of one field.                                                    *)
LEMMA OneField ==
    ASSUME NEW x, NEW p \in Nat
    PROVE  /\ Len(<<x>>) = 1 /\ Range(<<x>>) = {x} /\ IsList(<<x>>)
           /\ Over(ObjectAt(p, <<x>>), <<>>) = [y \in {x} |-> file[p]]
<1>1. Len(<<x>>) = 1 /\ DOMAIN <<x>> = 1..1 /\ <<x>>[1] = x
  OBVIOUS
<1>2. DOMAIN <<x>> = {1}
  BY <1>1
<1> DEFINE l == <<x>>
<1> HIDE DEF l
<1>3. Range(l) = {x}
  BY <1>1, <1>2 DEF Range, l
<1>4. Place(x, l) = 1
  BY <1>1, <1>2 DEF Place, l
<1>5. ObjectAt(p, l) = [y \in {x} |-> file[p]]
  <2>1. p - 1 + 1 = p
    OBVIOUS
  <2> QED BY <1>3, <1>4, <2>1 DEF ObjectAt
<1> DEFINE g == ObjectAt(p, l)
<1>6. g = [y \in DOMAIN g |-> g[y]]
  BY DEF ObjectAt
<1> HIDE DEF g
<1>7. Over(g, <<>>) = g
  BY <1>6, AddedToNothing
<1> QED BY <1>1, <1>3, <1>5, <1>7 DEF l, g, IsList

(* Places that rise.                                                       *)
LEMMA Rising ==
    ASSUME NEW n \in Nat, NEW b \in [0..n -> Nat], \A k \in 1..n : b[k - 1] < b[k]
    PROVE  \A i, j \in 0..n : i <= j => b[i] + (j - i) <= b[j]
<1> SUFFICES ASSUME NEW i \in 0..n PROVE \A j \in 0..n : i <= j => b[i] + (j - i) <= b[j]
  OBVIOUS
<1> DEFINE Good == {j \in 0..n : i <= j => b[i] + (j - i) <= b[j]}
<1>1. 0 \in Good
  OBVIOUS
<1>2. ASSUME NEW j \in 0..n - 1, j \in Good PROVE j + 1 \in Good
  <2>1. j + 1 \in 1..n /\ j + 1 \in 0..n /\ j \in 0..n /\ (j + 1) - 1 = j
    OBVIOUS
  <2>2. b[j] < b[j + 1] /\ b[j] \in Nat /\ b[j + 1] \in Nat /\ b[i] \in Nat
    BY <2>1
  <2>3. i <= j => b[i] + (j - i) <= b[j]
    BY <1>2
  <2>4. i <= j + 1 => b[i] + ((j + 1) - i) <= b[j + 1]
    <3>1. CASE i = j + 1
      BY <3>1, <2>2
    <3>2. CASE i <= j
      BY <3>2, <2>1, <2>2, <2>3
    <3> QED BY <3>1, <3>2, <2>1
  <2> QED BY <2>1, <2>4
<1> HIDE DEF Good
<1>3. \A j \in 0..n : j \in Good
  BY <1>1, <1>2, InductionTo
<1> QED BY <1>3 DEF Good

(* The first members of a list.                                            *)
LEMMA FirstsAppended ==
    ASSUME NEW list, IsList(list), NEW k \in Nat, k + 1 <= Len(list)
    PROVE  Append(Firsts(list, k), list[k + 1]) = Firsts(list, k + 1)
<1> DEFINE S == {list[i] : i \in 1..Len(list)}
           a == Firsts(list, k)
           b == Firsts(list, k + 1)
<1>1. a \in Seq(S) /\ Len(a) = k /\ \A i \in 1..k : a[i] = list[i]
  BY DEF Firsts, IsList
<1>2. b \in Seq(S) /\ Len(b) = k + 1 /\ \A i \in 1..k + 1 : b[i] = list[i]
  BY DEF Firsts, IsList
<1>3. list[k + 1] \in S
  BY DEF IsList
<1> HIDE DEF S, a, b
<1>4. /\ Append(a, list[k + 1]) \in Seq(S) /\ Len(Append(a, list[k + 1])) = k + 1
      /\ \A i \in 1..k : Append(a, list[k + 1])[i] = a[i]
      /\ Append(a, list[k + 1])[k + 1] = list[k + 1]
  BY <1>1, <1>3, AppendProperties
<1>5. \A i \in 1..k + 1 : Append(a, list[k + 1])[i] = b[i]
  BY <1>1, <1>2, <1>4
<1>6. Append(a, list[k + 1]) = b
  BY <1>2, <1>4, <1>5, SeqEqual
<1> QED BY <1>6 DEF a, b

-----------------------------------------------------------------------------
(* Readers that come to a place.                                           *)

\* A reader at q of f, or an exception, but not if all of f is there.
Here(q, z, o) == [out |-> "ok", pos |-> q, size |-> z, object |-> o]
Reached(r, f, q, z, o) ==
    /\ IsReader(r)
    /\ r.out = "ok" => r = Here(q, z, o) /\ q <= Len(file) + 1
    /\ Len(file) = Len(f) => r.out = "ok"

(* What follows a reader starts where the reader is.                       *)
LEMMA Onward ==
    ASSUME NEW f, NEW r, NEW q, NEW z, NEW o, Reached(r, f, q, z, o),
           NEW next, NEW y, y = (IF r.out = "ok" THEN next ELSE r),
           NEW end, NEW size, NEW object,
           r = Here(q, z, o) => Reached(next, f, end, size, object)
    PROVE  Reached(y, f, end, size, object)
<1>1. CASE r.out = "ok"
  BY <1>1 DEF Reached
<1>2. CASE r.out # "ok"
  BY <1>2 DEF Reached
<1> QED BY <1>1, <1>2

(* A reader that is somewhere.                                             *)
LEMMA HereIs ==
    ASSUME NEW q \in Nat, q >= 1, NEW z \in Nat, NEW o
    PROVE  /\ IsReader(Here(q, z, o)) /\ Here(q, z, o).out = "ok" /\ Here(q, z, o).pos = q
           /\ Here(q, z, o).size = z /\ Here(q, z, o).object = o
BY DEF IsReader, Here

(* Units that lie in the file are read.                                    *)
LEMMA UnitsReached ==
    ASSUME NEW f, Begins(f), NEW q \in Nat, q >= 1, NEW z \in Nat, NEW o,
           NEW fields, IsList(fields), q + Len(fields) <= Len(f) + 1
    PROVE  Reached(ReadFields(Here(q, z, o), fields), f, q + Len(fields), z + Len(fields),
                   Over(ObjectIn(f, q, fields), o))
<1> DEFINE r == Here(q, z, o)
           x == ReadFields(r, fields)
           n == Len(fields)
           new == Over(ObjectIn(f, q, fields), o)
<1>1. IsReader(r) /\ r.pos = q /\ r.size = z /\ r.object = o
  BY HereIs
<1>2. n \in Nat /\ Len(file) \in Nat /\ Len(file) <= Len(f) /\ Len(f) \in Nat
  BY DEF IsList, Begins
<1> HIDE DEF r
<1>3. /\ IsReader(x)
      /\ x.out = "ok" <=> r.pos + n <= Len(file) + 1
      /\ x.out = "ok" => /\ x.pos = r.pos + n /\ x.size = r.size + n
                         /\ x.object = Over(ObjectAt(r.pos, fields), r.object)
  BY <1>1, <1>2, FieldsAreRead
<1> HIDE DEF x, n
<1>4. x.out = "ok" => q + n <= Len(file) + 1
  BY <1>1, <1>3
<1>5. x.out = "ok" => ObjectAt(q, fields) = ObjectIn(f, q, fields)
  BY <1>4, FieldsOfWhole DEF n
<1>6. x.out = "ok" => x.object = new
  BY <1>1, <1>3, <1>5
<1> HIDE DEF new
<1>7. x.out = "ok" => x = Here(q + n, z + n, new)
  BY <1>1, <1>3, <1>6 DEF IsReader, Here
<1>8. Len(file) = Len(f) => x.out = "ok"
  BY <1>1, <1>3 DEF n
<1>9. Reached(x, f, q + n, z + n, new)
  BY <1>3, <1>4, <1>7, <1>8 DEF Reached
<1> QED BY <1>9 DEF x, r, n, new

(* So is one unit.                                                         *)
LEMMA UnitReached ==
    ASSUME NEW f, Begins(f), NEW q \in Nat, q >= 1, NEW z \in Nat, NEW o, NEW x,
           q + 1 <= Len(f) + 1
    PROVE  Reached(ReadUnit(Here(q, z, o), x), f, q + 1, z + 1, Set(o, x, f[q]))
<1> DEFINE l == <<x>>
           g == ObjectIn(f, q, l)
<1>1. Len(l) = 1 /\ Range(l) = {x} /\ IsList(l)
  BY OneField
<1>2. Reached(ReadFields(Here(q, z, o), l), f, q + 1, z + 1, Over(g, o))
  <2> HIDE DEF l, g
  <2>1. Reached(ReadFields(Here(q, z, o), l), f, q + Len(l), z + Len(l),
                Over(ObjectIn(f, q, l), o))
    BY <1>1, UnitsReached
  <2> QED BY <1>1, <2>1 DEF g
<1>3. g = [y \in {x} |-> f[q]]
  <2>1. Place(x, l) = 1
    BY DEF Place
  <2>2. q - 1 + 1 = q
    OBVIOUS
  <2> HIDE DEF l
  <2> QED BY <1>1, <2>1, <2>2 DEF ObjectIn
<1>4. Over(g, o) = Set(o, x, f[q])
  BY <1>3 DEF Over, Set
<1> QED BY <1>2, <1>4 DEF ReadUnit

(* And a tag.                                                              *)
LEMMA TagReached ==
    ASSUME NEW f, Begins(f), NEW q \in Nat, q >= 1, NEW z \in Nat, NEW o, NEW tag,
           q + 1 <= Len(f) + 1, f[q] = Tag(tag)
    PROVE  Reached(ReadTag(Here(q, z, o), tag), f, q + 1, z + 1, Set(o, "tag", Tag(tag)))
<1> DEFINE r == ReadUnit(Here(q, z, o), "tag")
           next == IF r.object.tag = Tag(tag) THEN r ELSE Threw(r)
           S == {IF x.out = "ok" THEN IF x.object.tag = Tag(tag) THEN x ELSE Threw(x) ELSE x :
                    x \in {r}}
           o2 == Set(o, "tag", Tag(tag))
<1>1. ReadTag(Here(q, z, o), tag) = CHOOSE y \in S : TRUE
  BY Zenon DEF ReadTag, Then, S, r
<1>2. Reached(r, f, q + 1, z + 1, o2)
  BY UnitReached
<1>3. S = {IF r.out = "ok" THEN next ELSE r}
  OBVIOUS
<1>4. ReadTag(Here(q, z, o), tag) = IF r.out = "ok" THEN next ELSE r
  <2> HIDE DEF S, next, r
  <2> QED BY <1>1, <1>3, OnlyMember
<1>5. r = Here(q + 1, z + 1, o2) => next = r
  <2> HIDE DEF r
  <2> QED BY DEF Here, Set
<1> HIDE DEF r
<1>6. r = Here(q + 1, z + 1, o2) => Reached(next, f, q + 1, z + 1, o2)
  BY <1>2, <1>5
<1> HIDE DEF next, o2
<1> QED BY <1>2, <1>4, <1>6, Onward DEF o2

\* The number of the place after k rounds, of n places.
At(k, n) == IF k < n THEN k ELSE n

(* Rounds of a loop, each of which reaches the next of n places or, from    *)
(* the last on, keeps the reader where it is.                              *)
LEMMA RoundsReach ==
    ASSUME NEW f, Begins(f), NEW n \in Nat, NEW rounds \in Nat, NEW h,
           NEW q \in [0..n -> Nat], NEW z, NEW o,
           \A i, j \in 0..n : i <= j => q[i] + (j - i) <= q[j],
           q[n] <= Len(f) + 1, n <= rounds \/ rounds + q[0] > Len(file) + 1,
           Reached(h[0], f, q[0], z[0], o[0]),
           \A k \in 1..rounds :
              Reached(h[k - 1], f, q[At(k - 1, n)], z[At(k - 1, n)], o[At(k - 1, n)])
                 => Reached(h[k], f, q[At(k, n)], z[At(k, n)], o[At(k, n)])
    PROVE  Reached(h[rounds], f, q[n], z[n], o[n])
<1> DEFINE R(k, m) == Reached(h[k], f, q[m], z[m], o[m])
           Good == {k \in 0..rounds : R(k, At(k, n))}
<1>1. R(0, 0) /\ \A k \in 1..rounds : R(k - 1, At(k - 1, n)) => R(k, At(k, n))
  OBVIOUS
<1> HIDE DEF R
<1>2. 0 \in Good
  BY <1>1 DEF At
<1>3. ASSUME NEW k \in 0..rounds - 1, k \in Good PROVE k + 1 \in Good
  <2>1. k + 1 \in 1..rounds /\ k + 1 \in 0..rounds /\ (k + 1) - 1 = k /\ k \in Nat
    OBVIOUS
  <2> HIDE DEF Good
  <2>2. R(k, At(k, n))
    BY <1>3 DEF Good
  <2>3. R((k + 1) - 1, At((k + 1) - 1, n)) => R(k + 1, At(k + 1, n))
    BY <1>1, <2>1
  <2> QED BY <2>1, <2>2, <2>3 DEF Good
<1> HIDE DEF Good
<1>4. \A k \in 0..rounds : k \in Good
  BY <1>2, <1>3, InductionTo
<1>5. R(rounds, At(rounds, n))
  BY <1>4 DEF Good
<1>6. CASE n <= rounds
  <2>1. At(rounds, n) = n
    BY <1>6 DEF At
  <2> QED BY <1>5, <2>1 DEF R
<1>7. CASE ~ (n <= rounds)
  <2>1. At(rounds, n) = rounds /\ rounds \in 0..n /\ 0 \in 0..n /\ n \in 0..n
        /\ 0 <= rounds /\ rounds <= n
    BY <1>7 DEF At
  <2>2. Reached(h[rounds], f, q[rounds], z[rounds], o[rounds])
    BY <1>5, <2>1 DEF R
  <2>3. q[0] + (rounds - 0) <= q[rounds] /\ q[rounds] + (n - rounds) <= q[n]
    BY <2>1
  <2>4. q[0] \in Nat /\ q[rounds] \in Nat /\ q[n] \in Nat /\ rounds + q[0] > Len(file) + 1
        /\ Len(file) \in Nat /\ Len(f) \in Nat
    BY <1>7, <2>1 DEF Begins
  <2>5. q[rounds] > Len(file) + 1 /\ Len(file) # Len(f)
    BY <2>3, <2>4, <1>7
  <2>6. IsReader(h[rounds]) /\ h[rounds].out # "ok"
    BY <2>2, <2>4, <2>5 DEF Reached
  <2> QED BY <2>5, <2>6 DEF Reached
<1> QED BY <1>6, <1>7
-----------------------------------------------------------------------------
(* Key frames.                                                             *)

(* A frame has two or four fields.                                         *)
LEMMA FrameUnits ==
    ASSUME NEW lineType
    PROVE  IsList(FrameFields(lineType)) /\ Len(FrameFields(lineType)) \in {2, 4}
<1> DEFINE S == {"frame", "values", "inTan", "outTan"}
           one == <<"frame", "values">>
           tangents == <<"inTan", "outTan">>
           two == IF lineType > 1 THEN tangents ELSE <<>>
           all == FrameFields(lineType)
<1>1. one \in Seq(S) /\ Len(one) = 2
  OBVIOUS
<1>2. two \in Seq(S) /\ Len(two) \in {0, 2}
  <2>1. tangents \in Seq(S) /\ Len(tangents) = 2 /\ <<>> \in Seq(S) /\ Len(<<>>) = 0
    OBVIOUS
  <2> HIDE DEF S, tangents
  <2> QED BY <2>1
<1>3. all = one \o two
  BY Zenon DEF FrameFields, one, two, tangents, all
<1> HIDE DEF S, one, two
<1>4. all \in Seq(S) /\ Len(all) = Len(one) + Len(two)
  BY <1>1, <1>2, <1>3, Concatenated
<1> HIDE DEF all
<1>5. Len(all) \in {2, 4}
  <2> DEFINE i == Len(one)
             j == Len(two)
  <2>1. i = 2 /\ (j = 0 \/ j = 2) /\ Len(all) = i + j
    BY <1>1, <1>2, <1>4
  <2> HIDE DEF i, j
  <2> QED BY <2>1
<1>6. IsList(all)
  BY <1>4 DEF IsList
<1> QED BY <1>5, <1>6 DEF all

\* n objects of the same fields, one behind the other.
FramesIn(f, p, n, fields) == [k \in 1..n |-> ObjectIn(f, p + (k - 1) * Len(fields), fields)]

(* They are read as they lie in the file.                                  *)
LEMMA FrameListReached ==
    ASSUME NEW f, Begins(f), NEW q \in Nat, q >= 1, NEW z \in Nat, NEW o,
           NEW n \in Nat, NEW fields, IsList(fields), Len(fields) \in {2, 4},
           q + n * Len(fields) <= Len(f) + 1
    PROVE  Reached(ReadFrameList(Here(q, z, o), n, fields), f, q + n * Len(fields),
                   z + n * Len(fields), FramesIn(f, q, n, fields))
<1> DEFINE w == Len(fields)
           r == Here(q, z, o)
           total == n * w
           list == [k \in 1..n |-> ObjectAt(r.pos + (k - 1) * w, fields)]
           new == FramesIn(f, q, n, fields)
           x == ReadFrameList(r, n, fields)
<1>1. /\ x = IF r.pos + total > Len(file) + 1 THEN Threw(r) ELSE Further(r, total, list)
      /\ IsReader(r) /\ r.pos = q /\ r.size = z /\ r.out = "ok"
  BY HereIs DEF ReadFrameList
<1>2. total \in Nat /\ Len(file) \in Nat /\ Len(file) <= Len(f) /\ Len(f) \in Nat
      /\ q + total <= Len(f) + 1
  <2>1. w = 2 \/ w = 4
    OBVIOUS
  <2>2. total \in Nat
    BY <2>1
  <2> QED BY <2>2 DEF Begins
<1>3. CASE q + total > Len(file) + 1
  <2> HIDE DEF r, total, list, x
  <2>1. x = Threw(r)
    BY <1>1, <1>3
  <2>2. IsReader(x) /\ x.out = "thrown"
    BY <1>1, <2>1, Readers
  <2>3. Len(file) # Len(f)
    BY <1>2, <1>3
  <2>4. Reached(x, f, q + total, z + total, new)
    BY <2>2, <2>3 DEF Reached
  <2> QED BY <2>4 DEF x, r, total
<1>4. CASE ~ (q + total > Len(file) + 1)
  <2>1. ASSUME NEW k \in 1..n
        PROVE  ObjectAt(r.pos + (k - 1) * w, fields) = ObjectIn(f, q + (k - 1) * w, fields)
    <3> DEFINE p == q + (k - 1) * w
    <3>1. p \in Nat /\ p >= 1 /\ p + w <= q + total
      <4>1. CASE w = 2
        BY <4>1
      <4>2. CASE w = 4
        BY <4>2
      <4> QED BY <4>1, <4>2
    <3> HIDE DEF p, total
    <3>2. p + w <= Len(file) + 1 /\ w \in Nat
      <4> HIDE DEF r
      <4> QED BY <1>2, <1>4, <3>1
    <3>3. ObjectAt(p, fields) = ObjectIn(f, p, fields)
      BY <3>1, <3>2, FieldsOfWhole
    <3> QED BY <1>1, <3>3 DEF p
  <2>2. list = new
    BY <2>1 DEF FramesIn
  <2> HIDE DEF r, total, list, x, new
  <2>3. x = Further(r, total, new)
    BY <1>1, <1>4, <2>2
  <2>4. x = Here(q + total, z + total, new)
    BY <1>1, <2>3 DEF Further, Here
  <2>5. q + total \in Nat /\ q + total >= 1 /\ z + total \in Nat /\ q + total <= Len(file) + 1
    BY <1>2, <1>4
  <2>6. IsReader(x) /\ x.out = "ok"
    BY <2>4, <2>5, HereIs
  <2>7. Reached(x, f, q + total, z + total, new)
    BY <2>4, <2>5, <2>6 DEF Reached
  <2> QED BY <2>7 DEF x, r, total, new
<1> QED BY <1>3, <1>4

\* Where the animation of a value lies, behind its tag.
FramesLie(f, p, e, a) ==
    LET n == Len(a.frames)
        fields == FrameFields(a.lineType)
    IN  /\ n \in Nat /\ e = p + 3 + n * Len(fields)
        /\ f[p] = Num(n) /\ f[p + 1] = Num(a.lineType)
        /\ a = [lineType |-> a.lineType, globalSequenceId |-> f[p + 2],
                frames |-> FramesIn(f, p + 3, n, fields)]

(* It takes three units at least.                                          *)
LEMMA FramesEnd ==
    ASSUME NEW f, NEW p \in Nat, NEW e, NEW a, FramesLie(f, p, e, a)
    PROVE  e \in Nat /\ e >= p + 3
<1> DEFINE n == Len(a.frames)
           w == Len(FrameFields(a.lineType))
<1>1. n \in Nat /\ e = p + 3 + n * w
  BY DEF FramesLie
<1>2. w \in {2, 4}
  BY FrameUnits
<1> HIDE DEF n, w
<1>3. CASE w = 2
  BY <1>1, <1>3
<1>4. CASE w = 4
  BY <1>1, <1>4
<1> QED BY <1>2, <1>3, <1>4

HeadFields == <<"count", "lineType", "globalSequenceId">>

(* The units in front of the frames.                                       *)
LEMMA HeadUnits ==
    ASSUME NEW f, NEW p \in Nat
    PROVE  /\ IsList(HeadFields) /\ Len(HeadFields) = 3
           /\ Over(ObjectIn(f, p, HeadFields), <<>>)
                 = [count |-> f[p], lineType |-> f[p + 1], globalSequenceId |-> f[p + 2]]
<1> DEFINE g == ObjectIn(f, p, HeadFields)
<1>1. IsList(HeadFields) /\ Len(HeadFields) = 3 /\ DOMAIN HeadFields = 1..3
  BY DEF HeadFields, IsList
<1>2. Range(HeadFields) = {"count", "lineType", "globalSequenceId"}
  <2>1. /\ HeadFields[1] = "count" /\ HeadFields[2] = "lineType"
        /\ HeadFields[3] = "globalSequenceId"
    BY DEF HeadFields
  <2> QED BY <1>1, <2>1 DEF Range
<1>3. /\ Place("count", HeadFields) = 1 /\ Place("lineType", HeadFields) = 2
      /\ Place("globalSequenceId", HeadFields) = 3
  <2>1. /\ HeadFields[1] = "count" /\ HeadFields[2] = "lineType"
        /\ HeadFields[3] = "globalSequenceId"
    BY DEF HeadFields
  <2>2. \A k \in DOMAIN HeadFields : k = 1 \/ k = 2 \/ k = 3
    BY <1>1
  <2> QED BY <1>1, <2>1, <2>2 DEF Place
<1>4. g = [x \in DOMAIN g |-> g[x]] /\ DOMAIN g = {"count", "lineType", "globalSequenceId"}
      /\ g.count = f[p] /\ g.lineType = f[p + 1] /\ g.globalSequenceId = f[p + 2]
  <2>1. p - 1 + 1 = p /\ p - 1 + 2 = p + 1 /\ p - 1 + 3 = p + 2
    OBVIOUS
  <2> QED BY <1>2, <1>3, <2>1 DEF ObjectIn
<1> HIDE DEF g
<1>5. Over(g, <<>>) = g
  BY <1>4, AddedToNothing
<1>6. g = [count |-> f[p], lineType |-> f[p + 1], globalSequenceId |-> f[p + 2]]
  BY <1>4
<1> QED BY <1>1, <1>5, <1>6 DEF g

(* An animation is read as it lies in the file.                            *)
LEMMA FramesReached ==
    ASSUME NEW f, Begins(f), NEW q \in Nat, q >= 1, NEW z \in Nat, NEW o, NEW member,
           NEW e, NEW a, FramesLie(f, q, e, a), e <= Len(f) + 1
    PROVE  Reached(ReadFrames(Here(q, z, o), member), f, e, z + (e - q), Set(o, member, a))
<1> DEFINE r == Here(q, z, o)
           y == ReadFrames(r, member)
           n == Len(a.frames)
           fields == FrameFields(a.lineType)
           Of(head, list) == [lineType |-> NumberIn(head.lineType),
                              globalSequenceId |-> head.globalSequenceId, frames |-> list]
           Kept(head, all) == With(all, Set(r.object, member, Of(head.object, all.object)))
           ListOf(head) == ReadFrameList(head, NumberIn(head.object.count),
                                         FrameFields(NumberIn(head.object.lineType)))
           Inner(head) == {IF x.out = "ok" THEN Kept(head, x) ELSE x : x \in {ListOf(head)}}
           List(head) == CHOOSE x \in Inner(head) : TRUE
           first == ReadFields(With(r, <<>>), HeadFields)
           Outer == {IF x.out = "ok" THEN List(x) ELSE x : x \in {first}}
           g == [count |-> f[q], lineType |-> f[q + 1], globalSequenceId |-> f[q + 2]]
           head == Here(q + 3, z + 3, g)
           list == FramesIn(f, q + 3, n, fields)
           last == Here(e, z + (e - q), list)
<1>1. y = CHOOSE x \in Outer : TRUE
  BY Zenon DEF ReadFrames, Then, HeadFields, y, Outer, List, Inner, Kept, ListOf, Of, first
<1>2. /\ n \in Nat /\ e = q + 3 + n * Len(fields)
      /\ f[q] = Num(n) /\ f[q + 1] = Num(a.lineType)
      /\ a = [lineType |-> a.lineType, globalSequenceId |-> f[q + 2], frames |-> list]
  BY DEF FramesLie
<1>3. e \in Nat /\ e >= q + 3 /\ IsList(fields) /\ Len(fields) \in {2, 4}
  BY FramesEnd, FrameUnits
<1>4. Len(f) \in Nat
  BY DEF Begins
<1>5. Reached(first, f, q + 3, z + 3, g)
  <2>1. With(r, <<>>) = Here(q, z, <<>>)
    BY DEF With, Here
  <2>2. q + 3 <= Len(f) + 1
    BY <1>3, <1>4
  <2>3. Reached(ReadFields(Here(q, z, <<>>), HeadFields), f, q + 3, z + 3,
                Over(ObjectIn(f, q, HeadFields), <<>>))
    <3>1. IsList(HeadFields) /\ Len(HeadFields) = 3
      BY HeadUnits
    <3>2. Reached(ReadFields(Here(q, z, <<>>), HeadFields), f, q + Len(HeadFields),
                  z + Len(HeadFields), Over(ObjectIn(f, q, HeadFields), <<>>))
      BY <2>2, <3>1, UnitsReached
    <3> QED BY <3>1, <3>2
  <2> QED BY <2>1, <2>3, HeadUnits
<1>6. y = IF first.out = "ok" THEN List(first) ELSE first
  <2>1. Outer = {IF first.out = "ok" THEN List(first) ELSE first}
    <3> HIDE DEF List, first
    <3> QED OBVIOUS
  <2> HIDE DEF Outer, List, first, y
  <2> QED BY <1>1, <2>1, OnlyMember
<1>7. Reached(List(head), f, e, z + (e - q), Set(o, member, a))
  <2> DEFINE all == ListOf(head)
  <2>1. NumberIn(f[q]) = n /\ NumberIn(f[q + 1]) = a.lineType
    BY <1>2 DEF NumberIn, Num
  <2>2. all = ReadFrameList(head, n, fields)
    <3>1. head.object = g /\ g.count = f[q] /\ g.lineType = f[q + 1]
      BY DEF Here
    <3> HIDE DEF g, head, n, fields
    <3>2. NumberIn(head.object.count) = n /\ NumberIn(head.object.lineType) = a.lineType
      BY <2>1, <3>1
    <3> QED BY <3>2 DEF fields
  <2>3. Reached(all, f, e, z + (e - q), list)
    <3>1. n * Len(fields) \in Nat /\ e = (q + 3) + n * Len(fields)
          /\ z + (e - q) = (z + 3) + n * Len(fields)
      <4> DEFINE w == Len(fields)
      <4>1. w = 2 \/ w = 4
        BY <1>3
      <4>2. n \in Nat /\ e = q + 3 + n * w
        BY <1>2
      <4> HIDE DEF w, n
      <4>3. n * w \in Nat
        BY <4>1, <4>2
      <4>4. e = (q + 3) + n * w /\ z + (e - q) = (z + 3) + n * w
        BY <4>2, <4>3
      <4> QED BY <4>3, <4>4 DEF w
    <3> DEFINE q3 == q + 3
               z3 == z + 3
    <3>2. q3 \in Nat /\ q3 >= 1 /\ z3 \in Nat /\ q3 + n * Len(fields) <= Len(f) + 1
      <4>1. q3 \in Nat /\ q3 >= 1 /\ z3 \in Nat
        OBVIOUS
      <4>2. q3 + n * Len(fields) = e
        <5> HIDE DEF n, fields
        <5> QED BY <3>1
      <4> HIDE DEF n, fields, q3, z3
      <4> QED BY <4>1, <4>2
    <3> HIDE DEF q3, z3, n, fields, g
    <3>3. Reached(ReadFrameList(Here(q3, z3, g), n, fields), f, q3 + n * Len(fields),
                  z3 + n * Len(fields), FramesIn(f, q3, n, fields))
      BY <1>2, <1>3, <3>2, FrameListReached
    <3> QED BY <2>2, <3>1, <3>3 DEF q3, z3, list
  <2>4. List(head) = IF all.out = "ok" THEN Kept(head, all) ELSE all
    <3>1. Inner(head) = {IF all.out = "ok" THEN Kept(head, all) ELSE all}
      <4> HIDE DEF all, Kept, head
      <4> QED BY DEF all
    <3> HIDE DEF Inner, Kept, all
    <3> QED BY <3>1, OnlyMember
  <2>5. ASSUME all = last PROVE Kept(head, all) = Here(e, z + (e - q), Set(o, member, a))
    <3>1. Of(head.object, all.object) = a
      <4>1. head.object = g /\ last.object = list
        BY DEF Here
      <4>2. Of(g, list) = [lineType |-> NumberIn(f[q + 1]), globalSequenceId |-> f[q + 2],
                           frames |-> list]
        OBVIOUS
      <4> HIDE DEF Of, g, head, last, list
      <4> QED BY <1>2, <2>1, <2>5, <4>1, <4>2
    <3>2. r.object = o
      BY DEF Here
    <3>3. Kept(head, all) = With(last, Set(o, member, a))
      <4> HIDE DEF Of, head, last, r
      <4> QED BY <2>5, <3>1, <3>2
    <3>4. With(last, Set(o, member, a)) = Here(e, z + (e - q), Set(o, member, a))
      <4> HIDE DEF list
      <4> QED BY DEF With, Here, last
    <3> QED BY <3>3, <3>4
  <2> DEFINE z2 == z + (e - q)
             o2 == Set(o, member, a)
             end == Here(e, z2, o2)
  <2>6. z2 \in Nat /\ e >= 1 /\ e \in Nat
    BY <1>3
  <2>7. IsReader(end)
    <3> HIDE DEF z2, o2
    <3> QED BY <2>6, HereIs
  <2>8. all = last => Reached(Kept(head, all), f, e, z2, o2)
    <3> HIDE DEF all, Kept, head, z2, o2
    <3> SUFFICES ASSUME all = last PROVE Reached(Kept(head, all), f, e, z2, o2)
      OBVIOUS
    <3>1. Kept(head, all) = end
      BY <2>5 DEF z2, o2
    <3>2. all.out = "ok"
      BY DEF last, Here
    <3>3. e <= Len(file) + 1
      BY <2>3, <3>2 DEF Reached
    <3>4. end.out = "ok"
      BY DEF Here
    <3> HIDE DEF end
    <3> QED BY <2>7, <3>1, <3>3, <3>4 DEF Reached, end
  <2> HIDE DEF all, Kept, List, head, z2, o2, list
  <2>9. all = Here(e, z2, list) => Reached(Kept(head, all), f, e, z2, o2)
    BY <2>8 DEF last, z2
  <2>10. Reached(all, f, e, z2, list)
    BY <2>3 DEF z2
  <2>11. Reached(List(head), f, e, z2, o2)
    BY <2>4, <2>9, <2>10, Onward
  <2> QED BY <2>11 DEF z2, o2
<1>8. Reached(y, f, e, z + (e - q), Set(o, member, a))
  <2> HIDE DEF List, first, y
  <2>1. first = Here(q + 3, z + 3, g) => Reached(List(first), f, e, z + (e - q), Set(o, member, a))
    BY <1>7 DEF head
  <2> HIDE DEF g
  <2> QED BY <1>5, <1>6, <2>1, Onward
<1> QED BY <1>8 DEF y, r
-----------------------------------------------------------------------------
(* The layers of a material.                                               *)

LayerUnits(version) == <<"inclusiveSize">> \o LayerFields(version)
MaterialUnits(version) == <<"inclusiveSize">> \o MaterialFields(version)
Counters == {"inclusiveSize", "tag", "count"}

(* A list of fields with one more in front.                                *)
LEMMA UnitsInFront ==
    ASSUME NEW S, NEW fields \in Seq(S), NEW x
    PROVE  /\ IsList(<<x>> \o fields) /\ Len(<<x>> \o fields) = 1 + Len(fields)
           /\ Range(<<x>> \o fields) = {x} \union Range(fields)
<1> DEFINE T == S \union {x}
           l == <<x>>
<1>1. fields \in Seq(T) /\ l \in Seq(T) /\ Len(l) = 1 /\ Range(l) = {x}
  <2>1. S \subseteq T /\ l \in Seq(T)
    OBVIOUS
  <2>2. fields \in Seq(T)
    <3> HIDE DEF T
    <3>1. Len(fields) \in Nat /\ DOMAIN fields = 1..Len(fields)
          /\ fields = [i \in 1..Len(fields) |-> fields[i]]
      OBVIOUS
    <3>2. \A i \in 1..Len(fields) : fields[i] \in T
      BY <2>1
    <3> QED BY <3>1, <3>2
  <2>3. 0 \in Nat
    OBVIOUS
  <2> HIDE DEF T
  <2> QED BY <2>1, <2>2, <2>3, OneField
<1> HIDE DEF T, l
<1>2. l \o fields \in Seq(T) /\ Len(l \o fields) = 1 + Len(fields)
  BY <1>1, ConcatProperties
<1>3. IsList(l \o fields)
  BY <1>2 DEF IsList
<1>4. Range(l \o fields) = Range(l) \union Range(fields)
  BY <1>1, RangeConcatenation
<1> QED BY <1>1, <1>2, <1>3, <1>4 DEF l

(* The fields of layers and materials, and the members of the tagged values *)
(* of a layer, are not what the reader counts with.                         *)
LEMMA LayerNames ==
    ASSUME NEW version
    PROVE  /\ IsList(LayerUnits(version)) /\ Len(LayerUnits(version)) >= 1
           /\ Range(LayerUnits(version)) = {"inclusiveSize"} \union Range(LayerFields(version))
           /\ Range(LayerFields(version)) \intersect (Counters \union {"textureIds", "alphas"}) = {}
           /\ IsList(LayerTags(version))
           /\ \A k \in 1..Len(LayerTags(version)) :
                 LayerTags(version)[k][2] \notin Counters \union {"textureIds", "alphas"}
<1> DEFINE S == {"filterMode", "shading", "textureId", "tvertexAnimationId", "coordinatesId",
                 "alpha", "emissiveGain", "fresnelColor", "fresnelOpacity", "fresnelTeamColor"}
           one == <<"filterMode", "shading", "textureId", "tvertexAnimationId", "coordinatesId",
                    "alpha">>
           two == IF version > 800
                  THEN <<"emissiveGain", "fresnelColor", "fresnelOpacity", "fresnelTeamColor">>
                  ELSE <<>>
           T == {<<"KMTE", "kmteEmissiveGain">>, <<"KFC3", "kfcaFresnelAlpha">>,
                 <<"KFCA", "kfcaFresnelAlpha">>, <<"KFTC", "kftcFresnelTeamColor">>}
           three == IF version > 800 THEN << <<"KMTE", "kmteEmissiveGain">> >> ELSE <<>>
           four == IF version > 900
                   THEN << <<"KFC3", "kfcaFresnelAlpha">>, <<"KFCA", "kfcaFresnelAlpha">>,
                           <<"KFTC", "kftcFresnelTeamColor">> >> ELSE <<>>
<1>1. one \in Seq(S) /\ two \in Seq(S) /\ LayerFields(version) = one \o two
  <2>1. one \in Seq(S)
    OBVIOUS
  <2>2. two \in Seq(S)
    <3> DEFINE more == <<"emissiveGain", "fresnelColor", "fresnelOpacity", "fresnelTeamColor">>
    <3>1. more \in Seq(S) /\ <<>> \in Seq(S)
      OBVIOUS
    <3> HIDE DEF S, more
    <3> QED BY <3>1 DEF more
  <2>3. LayerFields(version) = one \o two
    BY Zenon DEF LayerFields, one, two
  <2> QED BY <2>1, <2>2, <2>3
<1>2. three \in Seq(T) /\ four \in Seq(T) /\ LayerTags(version) = three \o four
  <2>1. three \in Seq(T)
    OBVIOUS
  <2>2. four \in Seq(T)
    <3> DEFINE more == << <<"KFC3", "kfcaFresnelAlpha">>, <<"KFCA", "kfcaFresnelAlpha">>,
                          <<"KFTC", "kftcFresnelTeamColor">> >>
    <3>1. more \in Seq(T) /\ <<>> \in Seq(T)
      OBVIOUS
    <3> HIDE DEF T, more
    <3> QED BY <3>1 DEF more
  <2>3. LayerTags(version) = three \o four
    BY Zenon DEF LayerTags, three, four
  <2> QED BY <2>1, <2>2, <2>3
<1>3. /\ \A x \in S : x \notin Counters \union {"textureIds", "alphas"}
      /\ \A x \in T : x[2] \notin Counters \union {"textureIds", "alphas"}
  BY DEF Counters
<1> HIDE DEF S, T, one, two, three, four
<1>4. LayerFields(version) \in Seq(S)
  BY <1>1, ConcatProperties
<1>5. LayerTags(version) \in Seq(T)
  BY <1>2, ConcatProperties
<1>6. /\ IsList(LayerUnits(version)) /\ Len(LayerUnits(version)) = 1 + Len(LayerFields(version))
      /\ Range(LayerUnits(version)) = {"inclusiveSize"} \union Range(LayerFields(version))
  BY <1>4, UnitsInFront DEF LayerUnits
<1>7. Range(LayerFields(version)) \subseteq S /\ Len(LayerFields(version)) \in Nat
  BY <1>4, RangeOfSeq, LenProperties
<1>8. /\ IsList(LayerTags(version))
      /\ \A k \in 1..Len(LayerTags(version)) : LayerTags(version)[k] \in T
  <2>1. Len(LayerTags(version)) \in Nat /\ DOMAIN LayerTags(version) = 1..Len(LayerTags(version))
    BY <1>5, LenProperties
  <2>2. \A k \in 1..Len(LayerTags(version)) : LayerTags(version)[k] \in T
    BY <1>5, ElementOfSeq
  <2> QED BY <2>1, <2>2 DEF IsList
<1> QED BY <1>3, <1>6, <1>7, <1>8

(* So are those of a material.                                             *)
LEMMA MaterialNames ==
    ASSUME NEW version
    PROVE  /\ IsList(MaterialUnits(version)) /\ Len(MaterialUnits(version)) >= 1
           /\ Range(MaterialUnits(version))
                 = {"inclusiveSize"} \union Range(MaterialFields(version))
           /\ Range(MaterialFields(version)) \intersect (Counters \union {"layers"}) = {}
<1> DEFINE S == {"priorityPlane", "renderMode", "shader"}
           one == <<"priorityPlane", "renderMode">>
           two == IF version > 800 THEN <<"shader">> ELSE <<>>
<1>1. one \in Seq(S) /\ two \in Seq(S) /\ MaterialFields(version) = one \o two
  <2>1. one \in Seq(S) /\ two \in Seq(S)
    <3> DEFINE more == <<"shader">>
    <3>1. one \in Seq(S) /\ more \in Seq(S) /\ <<>> \in Seq(S)
      OBVIOUS
    <3> HIDE DEF S, one, more
    <3> QED BY <3>1 DEF more
  <2>2. MaterialFields(version) = one \o two
    BY Zenon DEF MaterialFields, one, two
  <2> QED BY <2>1, <2>2
<1>2. \A x \in S : x \notin Counters \union {"layers"}
  BY DEF Counters
<1> HIDE DEF S, one, two
<1>3. MaterialFields(version) \in Seq(S)
  BY <1>1, ConcatProperties
<1>4. /\ IsList(MaterialUnits(version))
      /\ Len(MaterialUnits(version)) = 1 + Len(MaterialFields(version))
      /\ Range(MaterialUnits(version)) = {"inclusiveSize"} \union Range(MaterialFields(version))
  BY <1>3, UnitsInFront DEF MaterialUnits
<1>5. Range(MaterialFields(version)) \subseteq S /\ Len(MaterialFields(version)) \in Nat
  BY <1>3, RangeOfSeq, LenProperties
<1> QED BY <1>2, <1>4, <1>5

(* The end of an object that is as long as it says: nothing is skipped.    *)
LEMMA NothingSkipped ==
    ASSUME NEW f, NEW q, NEW z \in Nat, NEW o, NumberIn(o.inclusiveSize) = z,
           NEW r, Reached(r, f, q, z, o)
    PROVE  Reached(IF r.out = "ok" THEN SkipInclusive(r) ELSE r, f, q, z, Without(o, Counters))
<1> DEFINE w == Without(o, Counters)
           h == Here(q, z, o)
<1>1. SkipInclusive(h) = Here(q, z, w)
  <2>1. Skip(h, z) = h
    BY DEF Skip, Here
  <2>2. h.object = o
    BY DEF Here
  <2>3. SkipInclusive(h) = With(h, w)
    <3> HIDE DEF h
    <3> QED BY <2>1, <2>2 DEF SkipInclusive, Counters
  <2> HIDE DEF w
  <2>4. With(h, w) = Here(q, z, w)
    BY DEF With, Here
  <2> QED BY <2>3, <2>4
<1> HIDE DEF w, h
<1>2. CASE r.out = "ok"
  <2>1. r = h /\ q <= Len(file) + 1 /\ IsReader(r)
    BY <1>2 DEF Reached, h
  <2>2. IsReader(Here(q, z, w)) /\ Here(q, z, w).out = "ok"
    <3>1. r.pos = q /\ r.size = z
      BY <2>1 DEF h, Here
    <3>2. q \in Nat /\ q >= 1
      BY <2>1, <3>1 DEF IsReader
    <3> QED BY <3>2, HereIs
  <2> QED BY <1>1, <1>2, <2>1, <2>2 DEF Reached, w
<1>3. CASE r.out # "ok"
  BY <1>3 DEF Reached
<1> QED BY <1>2, <1>3

\* The optional alphas of a layer lie from q to a, if there are any.
AlphasLie(f, q, a, alphas) ==
    \/ a = q /\ q <= Len(f) /\ f[q] \notin {Tag("KMTF"), Tag("KMTA")} /\ alphas = NoFrames
    \/ f[q] = Tag("KMTA") /\ FramesLie(f, q + 1, a, alphas)
WithAlphas(f, q, o, alphas) ==
    IF f[q] = Tag("KMTA") THEN Set(Set(o, "tag", f[q]), "alphas", alphas) ELSE o

(* They do not end before they start.                                      *)
LEMMA AlphasEnd ==
    ASSUME NEW f, NEW q \in Nat, NEW a, NEW alphas, AlphasLie(f, q, a, alphas)
    PROVE  a \in Nat /\ a >= q
<1>1. CASE a = q
  BY <1>1
<1>2. CASE FramesLie(f, q + 1, a, alphas)
  <2>1. a \in Nat /\ a >= (q + 1) + 3
    BY <1>2, FramesEnd
  <2> QED BY <2>1
<1> QED BY <1>1, <1>2 DEF AlphasLie

(* They are read, or the tag behind the fields is given back.              *)
LEMMA AlphasReached ==
    ASSUME NEW f, Begins(f), NEW q \in Nat, q >= 1, NEW z \in Nat, NEW o,
           NEW a, NEW alphas, AlphasLie(f, q, a, alphas), a <= Len(f) + 1
    PROVE  Reached(ReadLayerAnimations(Here(q, z, o)), f, a, z + (a - q),
                   WithAlphas(f, q, o, alphas))
<1> DEFINE r == Here(q, z, o)
           y == ReadLayerAnimations(r)
           first == ReadUnit(r, "tag")
           Rest(second) == IF second.object.tag = Tag("KMTA")
                           THEN ReadFrames([second EXCEPT !.size = @ + 1], "alphas")
                           ELSE [second EXCEPT !.size = @ - 1]
           Both(x) == Then(ReadFrames(x, "textureIds"),
                           LAMBDA ids : Then(ReadUnit(ids, "tag"), Rest))
           Goes(x) == CASE x.object.tag = Tag("KMTF") -> Both(x)
                        [] x.object.tag = Tag("KMTA") -> ReadFrames(x, "alphas")
                        [] OTHER -> r
           S == {IF x.out = "ok" THEN Goes(x) ELSE x : x \in {first}}
           tagged == Set(o, "tag", f[q])
           at == Here(q + 1, z + 1, tagged)
<1>1. y = CHOOSE x \in S : TRUE
  BY Zenon DEF ReadLayerAnimations, Then, y, S, first, Goes, Both, Rest
<1>2. Len(f) \in Nat /\ a \in Nat /\ a >= q /\ q + 1 <= Len(f) + 1
  <2>1. a \in Nat /\ a >= q /\ Len(f) \in Nat
    BY AlphasEnd DEF Begins
  <2>2. CASE q <= Len(f)
    BY <2>1, <2>2
  <2>3. CASE FramesLie(f, q + 1, a, alphas)
    <3>1. a >= (q + 1) + 3
      BY <2>3, FramesEnd
    <3> QED BY <2>1, <3>1
  <2> QED BY <2>1, <2>2, <2>3 DEF AlphasLie
<1>3. Reached(first, f, q + 1, z + 1, tagged)
  BY <1>2, UnitReached
<1>4. y = IF first.out = "ok" THEN Goes(first) ELSE first
  <2>1. S = {IF first.out = "ok" THEN Goes(first) ELSE first}
    <3> HIDE DEF Goes, first
    <3> QED OBVIOUS
  <2> HIDE DEF S, Goes, first, y
  <2> QED BY <1>1, <2>1, OnlyMember
<1>5. at.object.tag = f[q]
  BY DEF Here, Set
<1> DEFINE goal == WithAlphas(f, q, o, alphas)
           size == z + (a - q)
<1>6. ASSUME first = at PROVE Reached(Goes(first), f, a, size, goal)
  <2>1. CASE f[q] = Tag("KMTA") /\ FramesLie(f, q + 1, a, alphas)
    <3>1. Goes(first) = ReadFrames(at, "alphas")
      <4>1. Tag("KMTA") # Tag("KMTF")
        BY DEF Tag
      <4> HIDE DEF Both, first, at
      <4> QED BY <1>5, <1>6, <2>1, <4>1
    <3> DEFINE q1 == q + 1
               z1 == z + 1
    <3>2. q1 \in Nat /\ q1 >= 1 /\ z1 \in Nat /\ z1 + (a - q1) = size
      BY <1>2
    <3> HIDE DEF q1, z1, tagged, size
    <3>3. Reached(ReadFrames(Here(q1, z1, tagged), "alphas"), f, a, z1 + (a - q1),
                  Set(tagged, "alphas", alphas))
      BY <2>1, <3>2, FramesReached DEF q1
    <3>4. goal = Set(tagged, "alphas", alphas)
      BY <2>1 DEF WithAlphas, tagged
    <3> HIDE DEF Goes, goal, first
    <3> QED BY <3>1, <3>2, <3>3, <3>4 DEF q1, z1
  <2>2. CASE a = q /\ f[q] \notin {Tag("KMTF"), Tag("KMTA")}
    <3>1. Goes(first) = r
      <4> HIDE DEF Both, first, at, r
      <4> QED BY <1>5, <1>6, <2>2
    <3>2. goal = o /\ size = z
      BY <1>2, <2>2 DEF WithAlphas
    <3>3. q <= Len(file) + 1
      <4>1. first.out = "ok"
        <5> HIDE DEF first
        <5> QED BY <1>6 DEF Here
      <4>2. q + 1 <= Len(file) + 1
        BY <1>3, <4>1 DEF Reached
      <4> QED BY <4>2 DEF Begins
    <3>4. IsReader(r) /\ r.out = "ok"
      BY HereIs
    <3>5. Reached(r, f, q, z, o)
      <4> HIDE DEF r
      <4> QED BY <3>3, <3>4 DEF Reached, r
    <3> HIDE DEF Goes, goal, first, r, size
    <3> QED BY <2>2, <3>1, <3>2, <3>5
  <2> QED BY <2>1, <2>2 DEF AlphasLie
<1> HIDE DEF Goes, first, y, goal, size, tagged
<1>7. first = Here(q + 1, z + 1, tagged) => Reached(Goes(first), f, a, size, goal)
  BY <1>6
<1>8. Reached(y, f, a, size, goal)
  BY <1>3, <1>4, <1>7, Onward
<1> QED BY <1>8 DEF y, r, goal, size

\* The tagged values at the end of a layer, from a on.
TagsLie(f, a, e, layer, tags) ==
    /\ e = a + 2 * Len(tags)
    /\ \A k \in 1..Len(tags) : /\ f[a + 2 * k - 2] = Tag(tags[k][1])
                               /\ f[a + 2 * k - 1] = layer[tags[k][2]]

(* A tagged value is read.                                                 *)
LEMMA TaggedReached ==
    ASSUME NEW f, Begins(f), NEW q \in Nat, q >= 1, NEW z \in Nat, NEW o, NEW tag, NEW member,
           q + 2 <= Len(f) + 1, f[q] = Tag(tag)
    PROVE  Reached(ReadTagged(Here(q, z, o), tag, member), f, q + 2, z + 2,
                   Set(Set(o, "tag", Tag(tag)), member, f[q + 1]))
<1> DEFINE r == ReadTag(Here(q, z, o), tag)
           S == {IF x.out = "ok" THEN ReadUnit(x, member) ELSE x : x \in {r}}
           o1 == Set(o, "tag", Tag(tag))
           o2 == Set(o1, member, f[q + 1])
           next == ReadUnit(r, member)
           y == ReadTagged(Here(q, z, o), tag, member)
           q1 == q + 1
           z1 == z + 1
<1>1. y = CHOOSE x \in S : TRUE
  BY Zenon DEF ReadTagged, Then, S, r, y
<1>2. y = IF r.out = "ok" THEN next ELSE r
  <2>1. S = {IF r.out = "ok" THEN next ELSE r}
    OBVIOUS
  <2> HIDE DEF S, next, r, y
  <2> QED BY <1>1, <2>1, OnlyMember
<1>3. /\ q1 \in Nat /\ q1 >= 1 /\ z1 \in Nat /\ q1 + 1 = q + 2 /\ z1 + 1 = z + 2
      /\ q + 1 <= Len(f) + 1 /\ q1 + 1 <= Len(f) + 1
  BY DEF Begins
<1>4. Reached(r, f, q1, z1, o1)
  BY <1>3, TagReached
<1> HIDE DEF q1, z1, o1, r, y
<1>5. Reached(ReadUnit(Here(q1, z1, o1), member), f, q1 + 1, z1 + 1, Set(o1, member, f[q1]))
  BY <1>3, UnitReached
<1>6. r = Here(q1, z1, o1) => Reached(next, f, q + 2, z + 2, o2)
  <2>1. Set(o1, member, f[q1]) = o2
    BY DEF q1
  <2> HIDE DEF o2
  <2> QED BY <1>3, <1>5, <2>1
<1> HIDE DEF next, o2
<1>7. Reached(y, f, q + 2, z + 2, o2)
  BY <1>2, <1>4, <1>6, Onward
<1> QED BY <1>7 DEF y, o2, o1

\* What is read of a layer with the first k tagged values, when o was read before.
Tagged(o, layer, tags, k) ==
    [x \in DOMAIN o \union (IF k = 0 THEN {} ELSE {"tag"}) \union {tags[i][2] : i \in 1..k} |->
        IF x = "tag" THEN (IF k = 0 THEN o[x] ELSE Tag(tags[k][1]))
        ELSE IF x \in {tags[i][2] : i \in 1..k} THEN layer[x] ELSE o[x]]

(* One more tagged value.                                                  *)
LEMMA TaggedOnce ==
    ASSUME NEW o, NEW layer, NEW tags, NEW k \in Nat, tags[k + 1][2] # "tag"
    PROVE  Set(Set(Tagged(o, layer, tags, k), "tag", Tag(tags[k + 1][1])), tags[k + 1][2],
               layer[tags[k + 1][2]])
              = Tagged(o, layer, tags, k + 1)
<1> DEFINE old == Tagged(o, layer, tags, k)
           m == tags[k + 1][2]
           t == Tag(tags[k + 1][1])
           A == {tags[i][2] : i \in 1..k}
           B == {tags[i][2] : i \in 1..k + 1}
           new == Set(Set(old, "tag", t), m, layer[m])
           goal == Tagged(o, layer, tags, k + 1)
           D == DOMAIN o \union {"tag"} \union B
<1>1. B = A \union {m}
  <2>1. \A i \in 1..k + 1 : i \in 1..k \/ i = k + 1
    OBVIOUS
  <2>2. \A i \in 1..k : i \in 1..k + 1
    OBVIOUS
  <2>3. k + 1 \in 1..k + 1
    OBVIOUS
  <2> QED BY <2>1, <2>2, <2>3
<1>2. goal = [x \in D |-> IF x = "tag" THEN t ELSE IF x \in B THEN layer[x] ELSE o[x]]
  <2>1. k + 1 # 0
    OBVIOUS
  <2> HIDE DEF t, B
  <2> QED BY <2>1 DEF Tagged, t, B
<1> HIDE DEF A, B, goal, t, m
<1>3. DOMAIN old = DOMAIN o \union (IF k = 0 THEN {} ELSE {"tag"}) \union A
      /\ \A x \in DOMAIN old : x # "tag" => old[x] = IF x \in A THEN layer[x] ELSE o[x]
  BY DEF Tagged, A
<1> HIDE DEF old
<1>4. DOMAIN new = DOMAIN old \union {"tag", m}
      /\ new = [x \in DOMAIN new |-> new[x]]
      /\ \A x \in DOMAIN new : new[x] = IF x = m THEN layer[m] ELSE IF x = "tag" THEN t ELSE old[x]
  BY DEF Set
<1> HIDE DEF new
<1>5. DOMAIN new = D
  BY <1>1, <1>3, <1>4
<1>6. ASSUME NEW x \in D
      PROVE  new[x] = IF x = "tag" THEN t ELSE IF x \in B THEN layer[x] ELSE o[x]
  <2>1. m # "tag"
    BY DEF m
  <2>2. CASE x = m
    BY <1>1, <1>4, <1>5, <2>1, <2>2
  <2>3. CASE x = "tag"
    BY <1>4, <1>5, <2>1, <2>3
  <2>4. CASE x # m /\ x # "tag"
    <3>1. new[x] = old[x] /\ x \in DOMAIN old
      BY <1>4, <1>5, <2>4
    <3> QED BY <1>1, <1>3, <2>4, <3>1
  <2> QED BY <2>2, <2>3, <2>4
<1>7. new = goal
  BY <1>2, <1>4, <1>5, <1>6
<1> QED BY <1>7 DEF new, old, goal, t, m

(* None yet.                                                               *)
LEMMA NoneTagged ==
    ASSUME NEW o, o = [x \in DOMAIN o |-> o[x]], NEW layer, NEW tags
    PROVE  Tagged(o, layer, tags, 0) = o
<1> DEFINE B == {tags[i][2] : i \in 1..0}
<1>1. B = {}
  OBVIOUS
<1> HIDE DEF B
<1>2. Tagged(o, layer, tags, 0)
         = [x \in DOMAIN o \union {} \union B |->
               IF x = "tag" THEN o[x] ELSE IF x \in B THEN layer[x] ELSE o[x]]
  BY DEF Tagged, B
<1> QED BY <1>1, <1>2

(* All tagged values of a layer are read.                                  *)
LEMMA TagsReached ==
    ASSUME NEW f, Begins(f), NEW a \in Nat, a >= 1, NEW z \in Nat, NEW o, NEW layer,
           NEW tags, IsList(tags), NEW e, TagsLie(f, a, e, layer, tags), e <= Len(f) + 1,
           \A k \in 1..Len(tags) : tags[k][2] # "tag", o = [x \in DOMAIN o |-> o[x]],
           NEW r, Reached(r, f, a, z, o)
    PROVE  Reached(ReadLayerTags(r, tags), f, e, z + (e - a), Tagged(o, layer, tags, Len(tags)))
<1> DEFINE n == Len(tags)
           y == ReadLayerTags(r, tags)
           goal == Tagged(o, layer, tags, n)
<1>1. n \in Nat /\ e = a + 2 * n /\ Len(f) \in Nat
  BY DEF IsList, TagsLie, Begins
<1>2. PICK h : Runs(h, TagsLoop(tags), r, n) /\ y = h[n]
  BY <1>1, LayerTagsRun
<1> DEFINE q == [k \in 0..n |-> a + 2 * k]
           s == [k \in 0..n |-> z + 2 * k]
           b == [k \in 0..n |-> Tagged(o, layer, tags, k)]
<1>3. h[0] = r /\ \A k \in 1..n : h[k] = TagRound(h[k - 1], tags[k][1], tags[k][2])
  <2>1. \A k \in 0..n : h[k] = IF k = 0 THEN r ELSE Round(TagsLoop(tags), h[k - 1], k)
    BY <1>2 DEF Runs
  <2>2. 0 \in 0..n /\ \A k \in 1..n : k \in 0..n /\ k # 0
    BY <1>1
  <2>3. \A x, k : Round(TagsLoop(tags), x, k) = TagRound(x, tags[k][1], tags[k][2])
    BY DEF Round, TagsLoop
  <2> HIDE DEF n
  <2> QED BY <2>1, <2>2, <2>3
<1>4. /\ q \in [0..n -> Nat] /\ q[n] <= Len(f) + 1 /\ q[n] = e /\ s[n] = z + (e - a) /\ b[n] = goal
      /\ \A i, j \in 0..n : i <= j => q[i] + (j - i) <= q[j]
      /\ \A k \in 1..n : /\ q[k - 1] = a + 2 * k - 2 /\ q[k] = q[k - 1] + 2
                         /\ s[k] = s[k - 1] + 2 /\ q[k - 1] \in Nat /\ q[k - 1] >= 1
                         /\ s[k - 1] \in Nat /\ q[k - 1] + 2 <= Len(f) + 1
                         /\ b[k] = Tagged(o, layer, tags, k)
                         /\ b[k - 1] = Tagged(o, layer, tags, k - 1)
  <2>1. n \in 0..n /\ \A k \in 1..n : k \in 0..n /\ k - 1 \in 0..n
    BY <1>1
  <2>2. \A k \in 0..n : q[k] = a + 2 * k /\ s[k] = z + 2 * k
    OBVIOUS
  <2>3. b[n] = goal
    BY <2>1
  <2>4. \A k \in 1..n : b[k] = Tagged(o, layer, tags, k) /\ b[k - 1] = Tagged(o, layer, tags, k - 1)
    BY <2>1
  <2>5. q \in [0..n -> Nat]
    BY <1>1
  <2> HIDE DEF n, b, q, s, goal
  <2>6. q[n] = e /\ s[n] = z + (e - a)
    BY <1>1, <2>1, <2>2
  <2>7. \A i, j \in 0..n : i <= j => q[i] + (j - i) <= q[j]
    BY <1>1, <2>2
  <2>8. ASSUME NEW k \in 1..n
        PROVE  /\ q[k - 1] = a + 2 * k - 2 /\ q[k] = q[k - 1] + 2
               /\ s[k] = s[k - 1] + 2 /\ q[k - 1] \in Nat /\ q[k - 1] >= 1
               /\ s[k - 1] \in Nat /\ q[k - 1] + 2 <= Len(f) + 1
    <3>1. /\ q[k] = a + 2 * k /\ q[k - 1] = a + 2 * (k - 1)
          /\ s[k] = z + 2 * k /\ s[k - 1] = z + 2 * (k - 1) /\ k \in Nat /\ k <= n /\ k >= 1
      BY <1>1, <2>1, <2>2
    <3> QED BY <1>1, <3>1
  <2> QED BY <2>3, <2>4, <2>5, <2>6, <2>7, <2>8
<1> HIDE DEF n, q, s, b, goal
<1>5. ASSUME NEW k \in 1..n, Reached(h[k - 1], f, q[k - 1], s[k - 1], b[k - 1])
      PROVE  Reached(h[k], f, q[k], s[k], b[k])
  <2> DEFINE tag == tags[k][1]
             member == tags[k][2]
             p == q[k - 1]
             x == h[k - 1]
             old == b[k - 1]
             w == s[k - 1]
             next == ReadTagged(x, tag, member)
             new == Set(Set(old, "tag", Tag(tag)), member, f[p + 1])
  <2>1. f[p] = Tag(tag) /\ f[p + 1] = layer[member]
    <3>1. p = a + 2 * k - 2 /\ p + 1 = a + 2 * k - 1
      <4>1. p = a + 2 * k - 2 /\ k \in Nat
        BY <1>1, <1>4
      <4> HIDE DEF p
      <4> QED BY <4>1
    <3>2. f[a + 2 * k - 2] = Tag(tags[k][1]) /\ f[a + 2 * k - 1] = layer[tags[k][2]]
      BY DEF TagsLie, n
    <3> HIDE DEF p
    <3> QED BY <3>1, <3>2
  <2>2. new = b[k]
    <3>1. k - 1 \in Nat /\ (k - 1) + 1 = k
      BY <1>1
    <3>2. member # "tag"
      BY DEF n
    <3> DEFINE j == k - 1
    <3>3. j \in Nat /\ j + 1 = k
      BY <3>1
    <3> HIDE DEF j
    <3>4. Set(Set(Tagged(o, layer, tags, j), "tag", Tag(tags[j + 1][1])), tags[j + 1][2],
              layer[tags[j + 1][2]]) = Tagged(o, layer, tags, j + 1)
      BY <3>2, <3>3, TaggedOnce
    <3>5. old = Tagged(o, layer, tags, j) /\ b[k] = Tagged(o, layer, tags, k)
      BY <1>4 DEF j
    <3> HIDE DEF old, p
    <3> QED BY <2>1, <3>3, <3>4, <3>5
  <2>3. h[k] = IF x.out = "ok" THEN next ELSE x
    BY <1>3 DEF TagRound
  <2>4. /\ p \in Nat /\ p >= 1 /\ w \in Nat /\ p + 2 <= Len(f) + 1
        /\ q[k] = p + 2 /\ s[k] = w + 2
    BY <1>4
  <2>5. Reached(x, f, p, w, old)
    BY <1>5
  <2> HIDE DEF p, w, x, old, next, tag, member, new
  <2>6. Reached(ReadTagged(Here(p, w, old), tag, member), f, p + 2, w + 2,
                Set(Set(old, "tag", Tag(tag)), member, f[p + 1]))
    BY <2>1, <2>4, TaggedReached
  <2>7. x = Here(p, w, old) => Reached(next, f, q[k], s[k], b[k])
    BY <2>2, <2>4, <2>6 DEF next, new
  <2> QED BY <2>3, <2>5, <2>7, Onward
<1>6. \A k \in 1..n : At(k - 1, n) = k - 1 /\ At(k, n) = k
  BY <1>1 DEF At
<1>7. Reached(h[0], f, q[0], s[0], b[0])
  <2>1. q[0] = a /\ s[0] = z /\ b[0] = Tagged(o, layer, tags, 0)
    <3>1. 0 \in 0..n /\ a + 2 * 0 = a /\ z + 2 * 0 = z
      BY <1>1
    <3> QED BY <3>1 DEF q, s, b
  <2>2. Tagged(o, layer, tags, 0) = o
    BY NoneTagged
  <2> QED BY <1>3, <2>1, <2>2
<1>8. ASSUME NEW k \in 1..n,
             Reached(h[k - 1], f, q[At(k - 1, n)], s[At(k - 1, n)], b[At(k - 1, n)])
      PROVE  Reached(h[k], f, q[At(k, n)], s[At(k, n)], b[At(k, n)])
  <2>1. At(k - 1, n) = k - 1 /\ At(k, n) = k
    BY <1>6
  <2>2. Reached(h[k - 1], f, q[k - 1], s[k - 1], b[k - 1])
    BY <1>8, <2>1
  <2>3. Reached(h[k], f, q[k], s[k], b[k])
    BY <1>5, <2>2
  <2> QED BY <2>1, <2>3
<1>9. Reached(h[n], f, q[n], s[n], b[n])
  <2>1. n \in Nat /\ n <= n
    BY <1>1
  <2>2. /\ q \in [0..n -> Nat] /\ q[n] <= Len(f) + 1
        /\ \A i, j \in 0..n : i <= j => q[i] + (j - i) <= q[j]
    BY <1>4
  <2>3. \A k \in 1..n :
           Reached(h[k - 1], f, q[At(k - 1, n)], s[At(k - 1, n)], b[At(k - 1, n)])
              => Reached(h[k], f, q[At(k, n)], s[At(k, n)], b[At(k, n)])
    BY <1>8
  <2> QED BY <1>7, <2>1, <2>2, <2>3, RoundsReach
<1> QED BY <1>2, <1>4, <1>9 DEF n, goal

\* An object with these members.
HasMembers(object, members) == object = [x \in members |-> object[x]]
LayerTagMembers(version) == {LayerTags(version)[k][2] : k \in 1..Len(LayerTags(version))}
LayerMembers(version) ==
    {"textureIds", "alphas"} \union Range(LayerFields(version)) \union LayerTagMembers(version)

\* A layer from p to e: its size and fields, its alphas if it has any, and its tagged values.
LayerLies(f, p, e, layer, version) ==
    LET head == ObjectIn(f, p, LayerUnits(version))
    IN  /\ NumberIn(head.inclusiveSize) = e - p
        /\ HasMembers(layer, LayerMembers(version))
        /\ \A x \in Range(LayerFields(version)) : layer[x] = head[x]
        /\ layer.textureIds = NoFrames
        /\ \E a : /\ AlphasLie(f, p + Len(LayerUnits(version)), a, layer.alphas)
                  /\ TagsLie(f, a, e, layer, LayerTags(version))

LayerStart == [textureIds |-> NoFrames, alphas |-> NoFrames]
LayerHead(f, p, version) == Over(ObjectIn(f, p, LayerUnits(version)), LayerStart)

\* An object with the fields and the alphas of a layer, and its size.
HasHead(o, layer, version, size) ==
    /\ HasMembers(o, DOMAIN o)
    /\ DOMAIN o \ Counters = {"textureIds", "alphas"} \union Range(LayerFields(version))
    /\ \A x \in DOMAIN o \ Counters : o[x] = layer[x]
    /\ "inclusiveSize" \in DOMAIN o /\ o.inclusiveSize = size

(* What has been read of a layer in front of its tagged values.            *)
LEMMA HeadKept ==
    ASSUME NEW f, NEW p, NEW q, NEW layer, NEW version, NEW o,
           o = WithAlphas(f, q, LayerHead(f, p, version), layer.alphas),
           f[q] = Tag("KMTA") \/ layer.alphas = NoFrames,
           \A x \in Range(LayerFields(version)) :
              layer[x] = ObjectIn(f, p, LayerUnits(version))[x],
           layer.textureIds = NoFrames
    PROVE  HasHead(o, layer, version, ObjectIn(f, p, LayerUnits(version)).inclusiveSize)
<1> DEFINE head == ObjectIn(f, p, LayerUnits(version))
           h == LayerHead(f, p, version)
           F == Range(LayerFields(version))
           U == Range(LayerUnits(version))
           A == {"textureIds", "alphas"}
<1>1. U = {"inclusiveSize"} \union F /\ F \intersect (Counters \union A) = {}
  BY LayerNames
<1>2. DOMAIN head = U
  BY DEF ObjectIn
<1>3. DOMAIN LayerStart = A /\ \A x \in A : LayerStart[x] = NoFrames
  BY DEF LayerStart
<1> HIDE DEF head, F, U
<1>4. /\ h = [x \in DOMAIN h |-> h[x]] /\ DOMAIN h = U \union A
      /\ \A x \in U : h[x] = head[x]
      /\ \A x \in A : x \notin U => h[x] = NoFrames
  <2>1. h = [x \in DOMAIN head \union DOMAIN LayerStart |->
                IF x \in DOMAIN head THEN head[x] ELSE LayerStart[x]]
    BY DEF LayerHead, Over, head
  <2> HIDE DEF h, A
  <2> QED BY <1>2, <1>3, <2>1
<1> HIDE DEF h
<1>5. /\ "inclusiveSize" \in Counters /\ "tag" \in Counters
      /\ A \intersect Counters = {} /\ "alphas" \in A /\ "textureIds" \in A
  BY DEF Counters
<1>6. \A x \in F : h[x] = layer[x]
  BY <1>1, <1>4 DEF F, head
<1>7. CASE f[q] = Tag("KMTA")
  <2> DEFINE D == DOMAIN h \union {"tag", "alphas"}
  <2>1. o = Set(Set(h, "tag", f[q]), "alphas", layer.alphas)
    BY <1>7 DEF WithAlphas, h
  <2>2. /\ DOMAIN o = D /\ o = [x \in DOMAIN o |-> o[x]]
        /\ \A x \in D : o[x] = IF x = "alphas" THEN layer.alphas
                               ELSE IF x = "tag" THEN f[q] ELSE h[x]
    BY <2>1 DEF Set
  <2>3. D \ Counters = A \union F
    BY <1>1, <1>4, <1>5
  <2>4. ASSUME NEW x \in A \union F PROVE o[x] = layer[x]
    <3>1. x \in D /\ x # "tag"
      BY <1>1, <1>5, <2>3
    <3>2. CASE x = "alphas"
      BY <2>2, <3>1, <3>2
    <3>3. CASE x = "textureIds"
      <4>1. x \notin U /\ x \in A
        BY <1>1, <1>5, <3>3
      <4> QED BY <1>4, <2>2, <3>1, <3>3, <4>1
    <3>4. CASE x \in F
      <4>1. x # "alphas"
        BY <1>1, <1>5, <3>4
      <4> QED BY <1>6, <2>2, <3>1, <3>4, <4>1
    <3> QED BY <3>2, <3>3, <3>4
  <2>5. "inclusiveSize" \in D /\ o.inclusiveSize = head.inclusiveSize
    BY <1>1, <1>4, <2>2
  <2> HIDE DEF D
  <2> QED BY <2>2, <2>3, <2>4, <2>5 DEF F, head, HasHead, HasMembers
<1>8. CASE f[q] # Tag("KMTA")
  <2>1. o = h /\ layer.alphas = NoFrames
    BY <1>8 DEF WithAlphas, h
  <2>2. DOMAIN h \ Counters = A \union F
    BY <1>1, <1>4, <1>5
  <2>3. ASSUME NEW x \in A \union F PROVE h[x] = layer[x]
    <3>1. CASE x \in A
      <4>1. x \notin U
        BY <1>1, <1>5, <3>1
      <4> QED BY <1>4, <2>1, <3>1, <4>1
    <3> QED BY <1>6, <3>1
  <2>4. "inclusiveSize" \in DOMAIN h /\ h.inclusiveSize = head.inclusiveSize
    BY <1>1, <1>4
  <2> QED BY <1>4, <2>1, <2>2, <2>3, <2>4 DEF F, head, HasHead, HasMembers
<1> QED BY <1>7, <1>8

(* What is kept of a layer.                                                *)
LEMMA LayerKept ==
    ASSUME NEW layer, NEW version, NEW o, NEW size, HasHead(o, layer, version, size),
           HasMembers(layer, LayerMembers(version)),
           NEW last, last = Tagged(o, layer, LayerTags(version), Len(LayerTags(version)))
    PROVE  Without(last, Counters) = layer /\ last.inclusiveSize = size
<1> DEFINE tags == LayerTags(version)
           n == Len(tags)
           M == LayerTagMembers(version)
           D == DOMAIN o \union (IF n = 0 THEN {} ELSE {"tag"}) \union M
           F == {"textureIds", "alphas"} \union Range(LayerFields(version))
<1>a. /\ DOMAIN o \ Counters = F /\ \A x \in F : o[x] = layer[x]
      /\ "inclusiveSize" \in DOMAIN o /\ o.inclusiveSize = size
  BY DEF HasHead
<1>b. layer = [x \in F \union M |-> layer[x]]
  BY DEF HasMembers, LayerMembers
<1>1. M \intersect Counters = {} /\ "tag" \in Counters /\ "inclusiveSize" \in Counters
  BY LayerNames DEF Counters, LayerTagMembers
<1>2. /\ DOMAIN last = D
      /\ \A x \in D : x # "tag" => last[x] = IF x \in M THEN layer[x] ELSE o[x]
  BY DEF Tagged, LayerTagMembers
<1> HIDE DEF M, n, F
<1>3. D \ Counters = F \union M
  BY <1>1, <1>a
<1>4. \A x \in F \union M : last[x] = layer[x]
  BY <1>1, <1>2, <1>3, <1>a
<1>5. Without(last, Counters) = [x \in F \union M |-> last[x]]
  BY <1>2, <1>3 DEF Without
<1>6. Without(last, Counters) = layer
  BY <1>4, <1>5, <1>b
<1>7. last.inclusiveSize = size
  BY <1>1, <1>2, <1>a
<1> QED BY <1>6, <1>7

(* A layer takes a unit at least.                                          *)
LEMMA LayerEnd ==
    ASSUME NEW f, NEW p \in Nat, NEW e, NEW layer, NEW version,
           LayerLies(f, p, e, layer, version)
    PROVE  e \in Nat /\ e > p
<1> DEFINE w == Len(LayerUnits(version))
           n == Len(LayerTags(version))
           q == p + w
<1>1. w \in Nat /\ w >= 1 /\ n \in Nat
  BY LayerNames DEF IsList
<1>2. PICK a : AlphasLie(f, q, a, layer.alphas) /\ e = a + 2 * n
  BY DEF LayerLies, TagsLie
<1>3. q \in Nat /\ q > p
  BY <1>1
<1> HIDE DEF q
<1>4. a \in Nat /\ a >= q
  BY <1>2, <1>3, AlphasEnd
<1> HIDE DEF n
<1> QED BY <1>1, <1>2, <1>3, <1>4

(* A layer is read as it lies in the file.                                 *)
LEMMA LayerReached ==
    ASSUME NEW f, Begins(f), NEW p \in Nat, p >= 1, NEW e, NEW layer, NEW version,
           LayerLies(f, p, e, layer, version), e <= Len(f) + 1
    PROVE  Reached(ReadLayer(p, version), f, e, e - p, layer)
<1> DEFINE units == LayerUnits(version)
           tags == LayerTags(version)
           head == ObjectIn(f, p, units)
           start == Reader(p, LayerStart)
           first == ReadFields(start, units)
           second == ReadLayerAnimations(first)
           third == ReadLayerTags(second, tags)
           fourth == IF third.out = "ok" THEN SkipInclusive(third) ELSE third
           fifth == IF second.out = "ok" THEN fourth ELSE second
           y == ReadLayer(p, version)
           Tags(r) == CHOOSE z \in {IF x.out = "ok" THEN SkipInclusive(x) ELSE x :
                                       x \in {ReadLayerTags(r, tags)}} : TRUE
           Rest(r) == CHOOSE z \in {IF x.out = "ok" THEN Tags(x) ELSE x :
                                       x \in {ReadLayerAnimations(r)}} : TRUE
           w == Len(units)
           n == Len(tags)
           q == p + w
<1>1. y = CHOOSE z \in {IF x.out = "ok" THEN Rest(x) ELSE x : x \in {first}} : TRUE
  BY Zenon DEF ReadLayer, Then, LayerUnits, LayerStart, y, Rest, Tags, tags, units, start, first
<1>2. y = IF first.out = "ok" THEN fifth ELSE first
  <2> DEFINE A == {IF x.out = "ok" THEN SkipInclusive(x) ELSE x : x \in {third}}
             B == {IF x.out = "ok" THEN Tags(x) ELSE x : x \in {second}}
             C == {IF x.out = "ok" THEN Rest(x) ELSE x : x \in {first}}
  <2>1. Tags(second) = fourth
    <3>1. A = {fourth}
      <4> HIDE DEF third
      <4> QED OBVIOUS
    <3>2. Tags(second) = CHOOSE z \in A : TRUE
      BY Zenon DEF Tags, A, third
    <3> HIDE DEF A, Tags, fourth
    <3> QED BY <3>1, <3>2, OnlyMember
  <2>2. Rest(first) = fifth
    <3>1. B = {IF second.out = "ok" THEN Tags(second) ELSE second}
      <4> HIDE DEF second, Tags
      <4> QED OBVIOUS
    <3>2. Rest(first) = CHOOSE z \in B : TRUE
      BY Zenon DEF Rest, B, second
    <3>3. B = {fifth}
      <4> HIDE DEF B, second, Tags, fourth
      <4> QED BY <2>1, <3>1
    <3> HIDE DEF B, Rest, fifth
    <3> QED BY <3>2, <3>3, OnlyMember
  <2>3. C = {IF first.out = "ok" THEN Rest(first) ELSE first}
    <3> HIDE DEF first, Rest
    <3> QED OBVIOUS
  <2>4. y = CHOOSE z \in C : TRUE
    BY <1>1
  <2> HIDE DEF C, Rest, fifth, first, y
  <2> QED BY <2>2, <2>3, <2>4, OnlyMember
<1>3. /\ IsList(units) /\ w \in Nat /\ w >= 1 /\ IsList(tags) /\ n \in Nat
      /\ \A k \in 1..n : tags[k][2] # "tag"
  BY LayerNames DEF IsList, Counters
<1>4. /\ NumberIn(head.inclusiveSize) = e - p
      /\ HasMembers(layer, LayerMembers(version))
      /\ \A x \in Range(LayerFields(version)) : layer[x] = head[x]
      /\ layer.textureIds = NoFrames
  BY DEF LayerLies
<1>5. PICK a : AlphasLie(f, q, a, layer.alphas) /\ TagsLie(f, a, e, layer, tags)
  BY DEF LayerLies
<1>6. q \in Nat /\ q >= 1 /\ q > p /\ Len(f) \in Nat /\ e \in Nat /\ e > p
  <2>1. e \in Nat /\ e > p /\ Len(f) \in Nat
    BY LayerEnd DEF Begins
  <2> HIDE DEF w
  <2> QED BY <1>3, <2>1
<1>7. a \in Nat /\ a >= q /\ a <= e
  <2>1. e = a + 2 * n
    BY <1>5 DEF TagsLie
  <2> HIDE DEF q, n
  <2>2. a \in Nat /\ a >= q
    BY <1>5, <1>6, AlphasEnd
  <2> QED BY <1>3, <2>1, <2>2
<1> DEFINE o1 == Over(head, LayerStart)
           o2 == WithAlphas(f, q, o1, layer.alphas)
           o3 == Tagged(o2, layer, tags, n)
<1>8. Reached(first, f, q, w, o1)
  <2>1. start = Here(p, 0, LayerStart)
    BY DEF Reader, Here
  <2>2. p + w <= Len(f) + 1 /\ 0 + w = w /\ 0 \in Nat
    <3> HIDE DEF w
    <3> QED BY <1>3, <1>6, <1>7 DEF q
  <2>3. Reached(ReadFields(Here(p, 0, LayerStart), units), f, p + w, 0 + w, o1)
    <3> HIDE DEF o1, units
    <3> QED BY <1>3, <2>2, UnitsReached DEF o1
  <2> HIDE DEF o1, units, w
  <2> QED BY <2>1, <2>2, <2>3 DEF q
<1>9. HasHead(o2, layer, version, head.inclusiveSize)
  <2>1. f[q] = Tag("KMTA") \/ layer.alphas = NoFrames
    BY <1>5 DEF AlphasLie
  <2>2. o2 = WithAlphas(f, q, LayerHead(f, p, version), layer.alphas)
    BY DEF LayerHead
  <2>3. /\ \A x \in Range(LayerFields(version)) :
              layer[x] = ObjectIn(f, p, LayerUnits(version))[x]
        /\ layer.textureIds = NoFrames
    BY <1>4
  <2> HIDE DEF o2, q, head, units
  <2>4. head = ObjectIn(f, p, LayerUnits(version))
    BY DEF head, units
  <2> QED BY <2>1, <2>2, <2>3, <2>4, HeadKept
<1>10. Without(o3, Counters) = layer /\ NumberIn(o3.inclusiveSize) = e - p
  <2>1. o3 = Tagged(o2, layer, LayerTags(version), Len(LayerTags(version)))
    OBVIOUS
  <2> HIDE DEF o3, o2, head
  <2>2. Without(o3, Counters) = layer /\ o3.inclusiveSize = head.inclusiveSize
    BY <1>4, <1>9, <2>1, LayerKept
  <2> QED BY <1>4, <2>2
<1> HIDE DEF o1, o2, o3, q, w, n, head
<1>11. first = Here(q, w, o1) => Reached(second, f, a, w + (a - q), o2)
  <2>1. a <= Len(f) + 1
    BY <1>6, <1>7
  <2>2. Reached(ReadLayerAnimations(Here(q, w, o1)), f, a, w + (a - q),
                WithAlphas(f, q, o1, layer.alphas))
    BY <1>3, <1>5, <1>6, <2>1, AlphasReached
  <2> HIDE DEF first
  <2> QED BY <2>2 DEF o2
<1> DEFINE z2 == w + (a - q)
<1>12. z2 \in Nat /\ z2 + (e - a) = e - p /\ e - p \in Nat /\ a >= 1
  BY <1>3, <1>6, <1>7 DEF q
<1> HIDE DEF z2, first, second, third, tags
<1>13. ASSUME Reached(second, f, a, z2, o2)
       PROVE  Reached(third, f, e, e - p, o3)
  <2>1. \A k \in 1..Len(tags) : tags[k][2] # "tag"
    BY <1>3 DEF n
  <2>2. Reached(ReadLayerTags(second, tags), f, e, z2 + (e - a), Tagged(o2, layer, tags, Len(tags)))
    <3>1. o2 = [x \in DOMAIN o2 |-> o2[x]]
      BY <1>9 DEF HasHead, HasMembers
    <3> QED BY <1>3, <1>5, <1>7, <1>12, <1>13, <2>1, <3>1, TagsReached
  <2> QED BY <1>12, <2>2 DEF third, o3, n
<1>14. ASSUME Reached(second, f, a, z2, o2)
       PROVE  Reached(fourth, f, e, e - p, layer)
  <2> DEFINE z3 == e - p
  <2>1. z3 \in Nat /\ NumberIn(o3.inclusiveSize) = z3 /\ Reached(third, f, e, z3, o3)
    BY <1>10, <1>12, <1>13, <1>14
  <2> HIDE DEF z3
  <2>2. Reached(fourth, f, e, z3, Without(o3, Counters))
    BY <2>1, NothingSkipped
  <2> HIDE DEF fourth
  <2> QED BY <1>10, <2>2 DEF z3
<1> HIDE DEF fourth
<1>15. ASSUME Reached(second, f, a, z2, o2)
       PROVE  Reached(fifth, f, e, e - p, layer)
  <2>1. second = Here(a, z2, o2) => Reached(fourth, f, e, e - p, layer)
    BY <1>14, <1>15
  <2> HIDE DEF fifth
  <2>2. fifth = IF second.out = "ok" THEN fourth ELSE second
    BY DEF fifth
  <2> QED BY <1>15, <2>1, <2>2, Onward
<1> HIDE DEF fifth, y
<1>16. first = Here(q, w, o1) => Reached(fifth, f, e, e - p, layer)
  BY <1>11, <1>15 DEF z2
<1>17. Reached(y, f, e, e - p, layer)
  BY <1>2, <1>8, <1>16, Onward
<1> QED BY <1>17 DEF y

(* One more layer.                                                         *)
LEMMA LayerAppended ==
    ASSUME NEW o, NEW list, NEW layer
    PROVE  [Set(o, "layers", list) EXCEPT !.layers = Append(@, layer)]
              = Set(o, "layers", Append(list, layer))
<1> DEFINE s == Set(o, "layers", list)
           new == Append(list, layer)
<1>1. /\ DOMAIN s = DOMAIN o \union {"layers"} /\ s["layers"] = list
      /\ \A x \in DOMAIN s : x # "layers" => s[x] = o[x]
  BY DEF Set
<1>2. [s EXCEPT !.layers = Append(@, layer)] = [s EXCEPT !.layers = Append(s["layers"], layer)]
  OBVIOUS
<1> HIDE DEF s
<1>3. [s EXCEPT !.layers = new]
         = [x \in DOMAIN s |-> IF x = "layers" THEN new ELSE s[x]]
  OBVIOUS
<1>4. [x \in DOMAIN s |-> IF x = "layers" THEN new ELSE s[x]] = Set(o, "layers", new)
  BY <1>1 DEF Set
<1> QED BY <1>1, <1>2, <1>3, <1>4 DEF s

(* The next layer is read and appended.                                    *)
LEMMA NextLayerReached ==
    ASSUME NEW f, Begins(f), NEW q \in Nat, q >= 1, NEW z \in Nat, NEW o, NEW version,
           NEW list, IsList(list), NEW k \in Nat, k + 1 <= Len(list), NEW e,
           LayerLies(f, q, e, list[k + 1], version), e <= Len(f) + 1
    PROVE  Reached(NextLayer(Here(q, z, Set(o, "layers", Firsts(list, k))), version), f, e,
                   z + (e - q), Set(o, "layers", Firsts(list, k + 1)))
<1> DEFINE old == Set(o, "layers", Firsts(list, k))
           new == Set(o, "layers", Firsts(list, k + 1))
           r == Here(q, z, old)
           x == ReadLayer(q, version)
           layer == list[k + 1]
           size == z + (e - q)
           next == Behind(r, x, [old EXCEPT !.layers = Append(@, x.object)])
           y == NextLayer(r, version)
           S == {IF one.out = "ok"
                 THEN Behind(r, one, [r.object EXCEPT !.layers = Append(@, one.object)])
                 ELSE one : one \in {ReadLayer(r.pos, version)}}
<1>1. r.pos = q /\ r.size = z /\ r.object = old
  BY DEF Here
<1>2. y = IF x.out = "ok" THEN next ELSE x
  <2>1. y = CHOOSE one \in S : TRUE
    BY Zenon DEF NextLayer, Then, S, y
  <2> HIDE DEF r, old
  <2>2. S = {IF x.out = "ok" THEN next ELSE x}
    BY <1>1
  <2> HIDE DEF S, next, x, y
  <2> QED BY <2>1, <2>2, OnlyMember
<1>3. Reached(x, f, e, e - q, layer) /\ e \in Nat /\ e > q
  BY LayerReached, LayerEnd
<1>4. size \in Nat /\ e >= 1
  BY <1>3
<1>5. [old EXCEPT !.layers = Append(@, layer)] = new
  <2>1. Append(Firsts(list, k), layer) = Firsts(list, k + 1)
    BY FirstsAppended
  <2> HIDE DEF layer
  <2>2. [old EXCEPT !.layers = Append(@, layer)] = Set(o, "layers", Append(Firsts(list, k), layer))
    BY LayerAppended DEF old
  <2> QED BY <2>1, <2>2
<1>6. x = Here(e, e - q, layer) => next = Here(e, size, new)
  <2> SUFFICES ASSUME x = Here(e, e - q, layer) PROVE next = Here(e, size, new)
    OBVIOUS
  <2>1. x.pos = e /\ x.size = e - q /\ x.object = layer
    BY DEF Here
  <2> HIDE DEF x, layer, r, old, new
  <2>2. next = Behind(r, x, new)
    BY <1>5, <2>1
  <2>3. Behind(r, x, new) = Here(e, size, new)
    BY <1>1, <2>1 DEF Behind, Here
  <2> QED BY <2>2, <2>3
<1> HIDE DEF x, y, next, old, new, layer, size
<1>7. x = Here(e, e - q, layer) => Reached(next, f, e, size, new)
  <2> SUFFICES ASSUME x = Here(e, e - q, layer) PROVE Reached(next, f, e, size, new)
    OBVIOUS
  <2>1. x.out = "ok"
    BY DEF Here
  <2>2. e <= Len(file) + 1
    BY <1>3, <2>1 DEF Reached
  <2>3. IsReader(next) /\ next.out = "ok"
    BY <1>3, <1>4, <1>6, HereIs
  <2> QED BY <1>6, <2>2, <2>3 DEF Reached
<1>8. Reached(y, f, e, size, new)
  BY <1>2, <1>3, <1>7, Onward
<1> QED BY <1>8 DEF y, r, old, new, size

\* Layers that lie one behind the other.
LayersLie(f, list, b, version) ==
    /\ IsList(list) /\ list = Firsts(list, Len(list))
    /\ b \in [0..Len(list) -> Nat] /\ b[0] >= 1
    /\ \A k \in 1..Len(list) : LayerLies(f, b[k - 1], b[k], list[k], version)

(* Their places rise.                                                      *)
LEMMA LayersRise ==
    ASSUME NEW f, NEW list, NEW b, NEW version, LayersLie(f, list, b, version)
    PROVE  /\ Len(list) \in Nat /\ b \in [0..Len(list) -> Nat] /\ b[0] >= 1
           /\ \A i, j \in 0..Len(list) : i <= j => b[i] + (j - i) <= b[j]
<1> DEFINE n == Len(list)
<1>1. n \in Nat /\ b \in [0..n -> Nat] /\ b[0] >= 1
  BY DEF LayersLie, IsList
<1>2. \A k \in 1..n : LayerLies(f, b[k - 1], b[k], list[k], version)
  BY DEF LayersLie
<1> HIDE DEF n
<1>3. ASSUME NEW k \in 1..n PROVE b[k - 1] < b[k]
  <2>1. k - 1 \in 0..n /\ b[k - 1] \in Nat
    BY <1>1
  <2>2. b[k] \in Nat /\ b[k] > b[k - 1]
    BY <1>2, <2>1, LayerEnd
  <2> QED BY <2>1, <2>2
<1>4. \A i, j \in 0..n : i <= j => b[i] + (j - i) <= b[j]
  BY <1>1, <1>3, Rising
<1> QED BY <1>1, <1>4 DEF n

(* All layers are read, no more than there are units in the file.          *)
LEMMA LayersReached ==
    ASSUME NEW f, Begins(f), NEW list, NEW b, NEW version, LayersLie(f, list, b, version),
           b[Len(list)] <= Len(f) + 1, NEW z \in Nat, NEW o, b[0] <= Len(file) + 1
    PROVE  Reached(ReadLayers(Here(b[0], z, o), Len(list), version), f, b[Len(list)],
                   z + (b[Len(list)] - b[0]), Set(o, "layers", list))
<1> DEFINE n == Len(list)
           p == b[0]
           r == Here(p, z, o)
           y == ReadLayers(r, n, version)
           rounds == Min({n, Rounds(r.pos)})
<1>1. /\ n \in Nat /\ b \in [0..n -> Nat] /\ p >= 1 /\ p \in Nat
      /\ \A i, j \in 0..n : i <= j => b[i] + (j - i) <= b[j]
  BY LayersRise
<1>2. /\ IsList(list) /\ list = Firsts(list, n) /\ b[n] <= Len(f) + 1
      /\ \A k \in 1..n : LayerLies(f, b[k - 1], b[k], list[k], version)
  BY DEF LayersLie
<1>3. Len(f) \in Nat /\ Len(file) \in Nat /\ r.pos = p
  BY DEF Begins, Here
<1>4. rounds \in Nat /\ rounds <= n /\ (n <= rounds \/ rounds + p > Len(file) + 1)
  <2> DEFINE m == Rounds(p)
  <2>1. m \in Nat /\ m + p > Len(file) + 1
    BY <1>1, <1>3 DEF Rounds
  <2> HIDE DEF m, n
  <2>2. Min({n, m}) \in {n, m} /\ Min({n, m}) <= n
    <3>1. \E a \in {n, m} : \A x \in {n, m} : a <= x
      <4>1. CASE n <= m
        BY <1>1, <2>1, <4>1
      <4>2. CASE ~ (n <= m)
        BY <1>1, <2>1, <4>2
      <4> QED BY <4>1, <4>2
    <3>2. Min({n, m}) = CHOOSE a \in {n, m} : \A x \in {n, m} : a <= x
      BY Zenon DEF Min
    <3>3. Min({n, m}) \in {n, m} /\ \A x \in {n, m} : Min({n, m}) <= x
      BY <3>1, <3>2, Zenon
    <3> QED BY <3>3
  <2>3. rounds = Min({n, m})
    BY <1>3 DEF m
  <2> HIDE DEF rounds
  <2> QED BY <1>1, <2>1, <2>2, <2>3
<1> HIDE DEF rounds
<1>5. PICK h : Runs(h, LayersLoop(version), NoLayers(r), rounds) /\ y = h[rounds]
  BY <1>4, LayersRun DEF rounds
<1> HIDE DEF y
<1>6. /\ h[0] = NoLayers(r)
      /\ \A k \in 1..rounds : h[k] = LayerRound(h[k - 1], version)
  <2>1. \A k \in 0..rounds : h[k] = IF k = 0 THEN NoLayers(r)
                                    ELSE Round(LayersLoop(version), h[k - 1], k)
    BY <1>5 DEF Runs
  <2>2. 0 \in 0..rounds /\ \A k \in 1..rounds : k \in 0..rounds /\ k # 0
    BY <1>4
  <2>3. \A x, k : Round(LayersLoop(version), x, k) = LayerRound(x, version)
    BY DEF Round, LayersLoop
  <2> HIDE DEF r
  <2> QED BY <2>1, <2>2, <2>3
<1> DEFINE s == [k \in 0..n |-> z + (b[k] - p)]
           g == [k \in 0..n |-> Set(o, "layers", Firsts(list, k))]
<1>7. /\ \A k \in 0..n : s[k] = z + (b[k] - p) /\ g[k] = Set(o, "layers", Firsts(list, k))
      /\ 0 \in 0..n /\ n \in 0..n
  BY <1>1
<1> HIDE DEF s, g, n, p
<1>8. \A k \in 0..n : b[k] \in Nat /\ b[k] >= p /\ s[k] \in Nat
  <2> SUFFICES ASSUME NEW k \in 0..n PROVE b[k] \in Nat /\ b[k] >= p /\ s[k] \in Nat
    OBVIOUS
  <2>1. b[0] + (k - 0) <= b[k] /\ b[k] \in Nat
    BY <1>1, <1>7
  <2>2. b[k] >= p
    BY <1>1, <2>1 DEF p
  <2>3. s[k] = z + (b[k] - p)
    BY <1>7
  <2> QED BY <1>1, <2>1, <2>2, <2>3
<1>9. Reached(h[0], f, b[0], s[0], g[0])
  <2>1. s[0] = z
    BY <1>1, <1>7 DEF p
  <2>2. g[0] = Set(o, "layers", <<>>)
    <3>1. Firsts(list, 0) = <<>>
      BY DEF Firsts
    <3> QED BY <1>7, <3>1
  <2>3. NoLayers(r) = Here(p, z, g[0])
    <3>1. r.object = o
      BY DEF Here
    <3> DEFINE new == Set(o, "layers", <<>>)
    <3>2. NoLayers(r) = With(r, new)
      BY <3>1 DEF NoLayers
    <3> HIDE DEF new
    <3>3. With(r, new) = Here(p, z, new)
      BY DEF With, Here
    <3> QED BY <2>2, <3>2, <3>3 DEF new
  <2>4. IsReader(Here(p, z, g[0])) /\ Here(p, z, g[0]).out = "ok"
    BY <1>1, HereIs
  <2> QED BY <1>6, <2>1, <2>3, <2>4 DEF Reached, p
<1>10. ASSUME NEW k \in Nat, k + 1 \in 1..n, NEW x, Reached(x, f, b[k], s[k], g[k])
       PROVE  Reached(LayerRound(x, version), f, b[k + 1], s[k + 1], g[k + 1])
  <2> DEFINE q == b[k]
             e == b[k + 1]
             w == s[k]
             next == NextLayer(x, version)
  <2>1. k \in 0..n /\ k + 1 \in 0..n /\ k + 1 <= Len(list) /\ (k + 1) - 1 = k
    BY <1>1, <1>10 DEF n
  <2>2. LayerLies(f, q, e, list[k + 1], version)
    <3>1. LayerLies(f, b[(k + 1) - 1], b[k + 1], list[k + 1], version)
      BY <1>2, <1>10
    <3> QED BY <2>1, <3>1
  <2>3. q \in Nat /\ q >= 1 /\ w \in Nat /\ e \in Nat /\ e <= Len(f) + 1
        /\ s[k + 1] = w + (e - q)
    <3>1. q \in Nat /\ e \in Nat /\ q >= p /\ w \in Nat
      BY <1>8, <2>1
    <3>2. e + (n - (k + 1)) <= b[n] /\ b[n] \in Nat /\ k + 1 <= n
      BY <1>1, <1>7, <1>8, <1>10, <2>1
    <3>3. s[k + 1] = z + (e - p) /\ w = z + (q - p)
      BY <1>7, <2>1
    <3> HIDE DEF q, e, w
    <3>4. e <= Len(f) + 1
      BY <1>1, <1>2, <1>3, <3>1, <3>2
    <3> QED BY <1>1, <3>1, <3>3, <3>4
  <2>4. g[k] = Set(o, "layers", Firsts(list, k)) /\ g[k + 1] = Set(o, "layers", Firsts(list, k + 1))
    BY <1>7, <2>1
  <2>5. LayerRound(x, version) = IF x.out = "ok" THEN next ELSE x
    BY DEF LayerRound
  <2> HIDE DEF q, e, w, next
  <2>6. Reached(NextLayer(Here(q, w, Set(o, "layers", Firsts(list, k))), version), f, e,
                w + (e - q), Set(o, "layers", Firsts(list, k + 1)))
    BY <1>2, <2>1, <2>2, <2>3, NextLayerReached
  <2>7. x = Here(q, w, g[k]) => Reached(next, f, e, s[k + 1], g[k + 1])
    BY <2>3, <2>4, <2>6 DEF next
  <2>8. Reached(x, f, q, w, g[k])
    BY <1>10 DEF q, w
  <2>9. Reached(LayerRound(x, version), f, e, s[k + 1], g[k + 1])
    BY <2>5, <2>7, <2>8, Onward
  <2> QED BY <2>9 DEF e
<1>11. ASSUME NEW k \in 1..rounds,
              Reached(h[k - 1], f, b[At(k - 1, n)], s[At(k - 1, n)], g[At(k - 1, n)])
       PROVE  Reached(h[k], f, b[At(k, n)], s[At(k, n)], g[At(k, n)])
  <2> DEFINE i == k - 1
  <2>1. i \in Nat /\ i + 1 = k /\ k \in 1..n /\ At(i, n) = i /\ At(k, n) = k
    BY <1>1, <1>4 DEF At
  <2>2. h[k] = LayerRound(h[i], version)
    BY <1>6
  <2> HIDE DEF i
  <2>3. Reached(h[i], f, b[i], s[i], g[i])
    BY <1>11, <2>1 DEF i
  <2>4. Reached(LayerRound(h[i], version), f, b[i + 1], s[i + 1], g[i + 1])
    BY <1>10, <2>1, <2>3
  <2> QED BY <2>1, <2>2, <2>4
<1>12. Reached(h[rounds], f, b[n], s[n], g[n])
  <2>1. n <= rounds \/ rounds + b[0] > Len(file) + 1
    BY <1>4 DEF p
  <2>2. \A k \in 1..rounds :
           Reached(h[k - 1], f, b[At(k - 1, n)], s[At(k - 1, n)], g[At(k - 1, n)])
              => Reached(h[k], f, b[At(k, n)], s[At(k, n)], g[At(k, n)])
    BY <1>11
  <2> QED BY <1>1, <1>2, <1>4, <1>9, <2>1, <2>2, RoundsReach
<1>13. s[n] = z + (b[n] - p) /\ g[n] = Set(o, "layers", list)
  BY <1>2, <1>7
<1> QED BY <1>5, <1>12, <1>13 DEF n, p, y, r

\* A material from p to e: its size and fields, and its layers behind their tag and number.
MaterialLies(f, p, e, material, version) ==
    LET head == ObjectIn(f, p, MaterialUnits(version))
        q == p + Len(MaterialUnits(version))
        n == Len(material.layers)
    IN  /\ NumberIn(head.inclusiveSize) = e - p
        /\ HasMembers(material, {"layers"} \union Range(MaterialFields(version)))
        /\ \A x \in Range(MaterialFields(version)) : material[x] = head[x]
        /\ f[q] = Tag("LAYS") /\ f[q + 1] = Num(n)
        /\ \E b : LayersLie(f, material.layers, b, version) /\ b[0] = q + 2 /\ b[n] = e

(* What is kept of a material.                                             *)
LEMMA MaterialKept ==
    ASSUME NEW material, NEW version, NEW head, DOMAIN head = Range(MaterialUnits(version)),
           HasMembers(material, {"layers"} \union Range(MaterialFields(version))),
           \A x \in Range(MaterialFields(version)) : material[x] = head[x], NEW tag, NEW count,
           NEW last,
           last = Set(Set(Set(head, "tag", tag), "count", count), "layers", material.layers)
    PROVE  Without(last, Counters) = material /\ last.inclusiveSize = head.inclusiveSize
<1> DEFINE F == Range(MaterialFields(version))
           U == Range(MaterialUnits(version))
           D == U \union {"tag", "count", "layers"}
<1>1. U = {"inclusiveSize"} \union F /\ F \intersect (Counters \union {"layers"}) = {}
  BY MaterialNames
<1>2. material = [x \in {"layers"} \union F |-> material[x]]
  BY DEF HasMembers
<1>3. "layers" \notin Counters /\ {"inclusiveSize", "tag", "count"} = Counters
  BY DEF Counters
<1>4. /\ DOMAIN last = D
      /\ \A x \in D : last[x] = IF x = "layers" THEN material.layers
                                ELSE IF x = "count" THEN count
                                ELSE IF x = "tag" THEN tag ELSE head[x]
  BY DEF Set
<1> HIDE DEF F, U
<1>5. D \ Counters = {"layers"} \union F
  BY <1>1, <1>3
<1>6. \A x \in {"layers"} \union F : last[x] = material[x]
  <2> SUFFICES ASSUME NEW x \in {"layers"} \union F PROVE last[x] = material[x]
    OBVIOUS
  <2>1. x \in D /\ x \notin Counters
    BY <1>5
  <2>2. x # "count" /\ x # "tag"
    BY <1>3, <2>1
  <2>3. x # "layers" => x \in F /\ material[x] = head[x]
    BY DEF F
  <2> QED BY <1>4, <2>1, <2>2, <2>3
<1>7. Without(last, Counters) = [x \in {"layers"} \union F |-> last[x]]
  BY <1>4, <1>5 DEF Without
<1>8. Without(last, Counters) = material
  BY <1>2, <1>6, <1>7
<1>9. last.inclusiveSize = head.inclusiveSize
  BY <1>1, <1>4
<1> QED BY <1>8, <1>9

(* A material takes a unit at least.                                       *)
LEMMA MaterialEnd ==
    ASSUME NEW f, NEW p \in Nat, NEW e, NEW material, NEW version,
           MaterialLies(f, p, e, material, version)
    PROVE  /\ e \in Nat /\ e > p
           /\ p + Len(MaterialUnits(version)) + 2 <= e
<1> DEFINE n == Len(material.layers)
           w == Len(MaterialUnits(version))
           q == p + w
<1>1. w \in Nat /\ w >= 1
  BY MaterialNames DEF IsList
<1>2. PICK b : LayersLie(f, material.layers, b, version) /\ b[0] = q + 2 /\ b[n] = e
  BY DEF MaterialLies
<1>3. n \in Nat /\ b \in [0..n -> Nat] /\ \A i, j \in 0..n : i <= j => b[i] + (j - i) <= b[j]
  BY <1>2, LayersRise
<1> HIDE DEF n, w
<1>4. 0 \in 0..n /\ n \in 0..n /\ 0 <= n
  BY <1>3
<1>5. b[0] + (n - 0) <= b[n] /\ b[n] \in Nat
  BY <1>3, <1>4
<1> QED BY <1>1, <1>2, <1>3, <1>5 DEF w

(* A material is read as it lies in the file.                              *)
LEMMA MaterialReached ==
    ASSUME NEW f, Begins(f), NEW p \in Nat, p >= 1, NEW e, NEW material, NEW version,
           MaterialLies(f, p, e, material, version), e <= Len(f) + 1
    PROVE  Reached(ReadMaterial(p, version), f, e, e - p, material)
<1> DEFINE units == MaterialUnits(version)
           w == Len(units)
           q == p + w
           q1 == q + 1
           q2 == q + 2
           z1 == w + 1
           z2 == w + 2
           list == material.layers
           n == Len(list)
           head == ObjectIn(f, p, units)
           o1 == Set(head, "tag", Tag("LAYS"))
           o2 == Set(o1, "count", f[q1])
           o3 == Set(o2, "layers", list)
           start == Reader(p, <<>>)
           x0 == ReadFields(start, units)
           s1 == ReadTag(x0, "LAYS")
           x1 == IF x0.out = "ok" THEN s1 ELSE x0
           s2 == ReadUnit(x1, "count")
           x2 == IF x1.out = "ok" THEN s2 ELSE x1
           s3 == ReadLayers(x2, NumberIn(x2.object.count), version)
           x3 == IF x2.out = "ok" THEN s3 ELSE x2
           x4 == IF x3.out = "ok" THEN SkipInclusive(x3) ELSE x3
           y == ReadMaterial(p, version)
           c1 == CHOOSE z \in {IF r.out = "ok" THEN ReadTag(r, "LAYS") ELSE r : r \in {x0}} : TRUE
           c2 == CHOOSE z \in {IF r.out = "ok" THEN ReadUnit(r, "count") ELSE r : r \in {c1}} : TRUE
           c3 == CHOOSE z \in {IF r.out = "ok"
                               THEN ReadLayers(r, NumberIn(r.object.count), version) ELSE r :
                                  r \in {c2}} : TRUE
           c4 == CHOOSE z \in {IF r.out = "ok" THEN SkipInclusive(r) ELSE r : r \in {c3}} : TRUE
<1>1. y = c4
  BY Zenon DEF ReadMaterial, Then, MaterialUnits, y, units, start, x0, c1, c2, c3, c4
<1>2. y = x4
  <2>1. c1 = x1
    <3> DEFINE S == {IF r.out = "ok" THEN ReadTag(r, "LAYS") ELSE r : r \in {x0}}
    <3>1. S = {x1}
      <4> HIDE DEF x0
      <4> QED OBVIOUS
    <3>2. c1 = CHOOSE z \in S : TRUE
      OBVIOUS
    <3> HIDE DEF S, c1, x1
    <3> QED BY <3>1, <3>2, OnlyMember
  <2>2. c2 = x2
    <3> DEFINE S == {IF r.out = "ok" THEN ReadUnit(r, "count") ELSE r : r \in {c1}}
    <3>1. S = {x2}
      <4> HIDE DEF c1, x1
      <4> QED BY <2>1
    <3>2. c2 = CHOOSE z \in S : TRUE
      OBVIOUS
    <3> HIDE DEF S, c2, x2
    <3> QED BY <3>1, <3>2, OnlyMember
  <2>3. c3 = x3
    <3> DEFINE S == {IF r.out = "ok"
                     THEN ReadLayers(r, NumberIn(r.object.count), version) ELSE r : r \in {c2}}
    <3>1. S = {x3}
      <4> HIDE DEF c2, x2
      <4> QED BY <2>2
    <3>2. c3 = CHOOSE z \in S : TRUE
      OBVIOUS
    <3> HIDE DEF S, c3, x3
    <3> QED BY <3>1, <3>2, OnlyMember
  <2>4. c4 = x4
    <3> DEFINE S == {IF r.out = "ok" THEN SkipInclusive(r) ELSE r : r \in {c3}}
    <3>1. S = {x4}
      <4> HIDE DEF c3, x3
      <4> QED BY <2>3
    <3>2. c4 = CHOOSE z \in S : TRUE
      OBVIOUS
    <3> HIDE DEF S, c4, x4
    <3> QED BY <3>1, <3>2, OnlyMember
  <2> HIDE DEF y, c4, x4
  <2> QED BY <1>1, <2>4
<1>3. /\ NumberIn(head.inclusiveSize) = e - p
      /\ HasMembers(material, {"layers"} \union Range(MaterialFields(version)))
      /\ \A x \in Range(MaterialFields(version)) : material[x] = head[x]
      /\ f[q] = Tag("LAYS") /\ f[q1] = Num(n)
  BY DEF MaterialLies
<1>4. PICK b : LayersLie(f, list, b, version) /\ b[0] = q2 /\ b[n] = e
  BY DEF MaterialLies
<1>5. IsList(units) /\ w \in Nat /\ w >= 1 /\ e \in Nat /\ e > p /\ q2 <= e /\ Len(f) \in Nat
  <2>1. e \in Nat /\ e > p /\ p + Len(MaterialUnits(version)) + 2 <= e
    BY MaterialEnd
  <2> QED BY <2>1, MaterialNames DEF IsList, Begins
<1>6. DOMAIN head = Range(units) /\ head = [x \in DOMAIN head |-> head[x]]
  BY DEF ObjectIn
<1> HIDE DEF w, units, list, n, head
<1>7. /\ q \in Nat /\ q >= 1 /\ q1 \in Nat /\ q1 >= 1 /\ q2 \in Nat /\ q2 >= 1
      /\ q + 1 = q1 /\ q1 + 1 = q2 /\ w + 1 = z1 /\ z1 + 1 = z2 /\ z1 \in Nat /\ z2 \in Nat
      /\ p + w = q /\ 0 + w = w /\ 0 \in Nat /\ q2 <= Len(f) + 1 /\ q1 <= Len(f) + 1
      /\ q <= Len(f) + 1 /\ z2 + (e - q2) = e - p /\ e - p \in Nat
  BY <1>5
<1> HIDE DEF q, q1, q2, z1, z2, o1, o2, o3
<1>8. Reached(x0, f, q, w, head)
  <2>1. start = Here(p, 0, <<>>)
    BY DEF Reader, Here
  <2>2. Reached(ReadFields(Here(p, 0, <<>>), units), f, p + w, 0 + w,
                Over(ObjectIn(f, p, units), <<>>))
    BY <1>5, <1>7, UnitsReached DEF w
  <2>3. Over(head, <<>>) = head
    BY <1>6, AddedToNothing
  <2> HIDE DEF start
  <2> QED BY <1>7, <2>1, <2>2, <2>3 DEF head
<1> HIDE DEF x0, s1, s2, s3
<1>9. Reached(x1, f, q1, z1, o1)
  <2>1. Reached(ReadTag(Here(q, w, head), "LAYS"), f, q + 1, w + 1, Set(head, "tag", Tag("LAYS")))
    BY <1>3, <1>5, <1>7, TagReached
  <2>2. x0 = Here(q, w, head) => Reached(s1, f, q1, z1, o1)
    BY <1>7, <2>1 DEF s1, o1
  <2>3. x1 = IF x0.out = "ok" THEN s1 ELSE x0
    OBVIOUS
  <2> HIDE DEF x1
  <2> QED BY <1>8, <2>2, <2>3, Onward
<1> HIDE DEF x1
<1>10. Reached(x2, f, q2, z2, o2)
  <2>1. Reached(ReadUnit(Here(q1, z1, o1), "count"), f, q1 + 1, z1 + 1, Set(o1, "count", f[q1]))
    BY <1>7, UnitReached
  <2>2. x1 = Here(q1, z1, o1) => Reached(s2, f, q2, z2, o2)
    BY <1>7, <2>1 DEF s2, o2
  <2>3. x2 = IF x1.out = "ok" THEN s2 ELSE x1
    OBVIOUS
  <2> HIDE DEF x2
  <2> QED BY <1>9, <2>2, <2>3, Onward
<1> HIDE DEF x2
<1>11. ASSUME x2 = Here(q2, z2, o2) PROVE Reached(s3, f, e, e - p, o3)
  <2>1. x2.out = "ok" /\ x2.object = o2
    BY <1>11 DEF Here
  <2>2. q2 <= Len(file) + 1
    BY <1>10, <2>1 DEF Reached
  <2>3. o2.count = f[q1]
    BY DEF o2, Set
  <2>4. NumberIn(x2.object.count) = n
    BY <1>3, <2>1, <2>3 DEF NumberIn, Num
  <2>5. Reached(ReadLayers(Here(b[0], z2, o2), Len(list), version), f, b[Len(list)],
                z2 + (b[Len(list)] - b[0]), Set(o2, "layers", list))
    <3>1. b[0] <= Len(file) + 1
      BY <1>4, <2>2
    <3>2. b[Len(list)] <= Len(f) + 1
      BY <1>4 DEF n
    <3> QED BY <1>4, <1>7, <3>1, <3>2, LayersReached
  <2>6. Reached(ReadLayers(Here(q2, z2, o2), n, version), f, e, z2 + (e - q2), o3)
    BY <1>4, <2>5 DEF n, o3
  <2> QED BY <1>7, <1>11, <2>4, <2>6 DEF s3
<1>12. Reached(x3, f, e, e - p, o3)
  <2>1. x2 = Here(q2, z2, o2) => Reached(s3, f, e, e - p, o3)
    BY <1>11
  <2>2. x3 = IF x2.out = "ok" THEN s3 ELSE x2
    OBVIOUS
  <2> HIDE DEF x3
  <2> QED BY <1>10, <2>1, <2>2, Onward
<1> HIDE DEF x3
<1>13. Without(o3, Counters) = material /\ NumberIn(o3.inclusiveSize) = e - p
  <2>1. DOMAIN head = Range(MaterialUnits(version))
    BY <1>6 DEF units
  <2>2. o3 = Set(Set(Set(head, "tag", Tag("LAYS")), "count", f[q1]), "layers", material.layers)
    BY DEF o1, o2, o3, list
  <2>3. Without(o3, Counters) = material /\ o3.inclusiveSize = head.inclusiveSize
    BY <1>3, <2>1, <2>2, MaterialKept
  <2> QED BY <1>3, <2>3
<1> DEFINE z3 == e - p
<1>14. z3 \in Nat /\ NumberIn(o3.inclusiveSize) = z3 /\ Reached(x3, f, e, z3, o3)
  BY <1>7, <1>12, <1>13
<1> HIDE DEF z3
<1>15. Reached(IF x3.out = "ok" THEN SkipInclusive(x3) ELSE x3, f, e, z3, Without(o3, Counters))
  BY <1>14, NothingSkipped
<1> HIDE DEF y
<1> QED BY <1>2, <1>13, <1>15 DEF x4, y, z3
-----------------------------------------------------------------------------
(* Texture animations.                                                     *)

\* A texture animation from p to e: its size, and blocks of frames with their tags in
\* any order.
BlocksLie(f, p, animation, tags, b) ==
    /\ IsList(tags) /\ b \in [0..Len(tags) -> Nat] /\ b[0] = p + 1
    /\ \A k \in 1..Len(tags) :
          /\ tags[k][1] \in DOMAIN AnimationTags /\ tags[k][2] = AnimationTags[tags[k][1]]
          /\ f[b[k - 1]] = Tag(tags[k][1])
          /\ FramesLie(f, b[k - 1] + 1, b[k], animation[tags[k][2]])
AnimationLies(f, p, e, animation) ==
    /\ NumberIn(f[p]) = e - p
    /\ \E tags, b :
          /\ BlocksLie(f, p, animation, tags, b) /\ b[Len(tags)] = e
          /\ HasMembers(animation, {tags[k][2] : k \in 1..Len(tags)})

(* The members of a texture animation are not what the reader counts with. *)
LEMMA AnimationNames ==
    ASSUME NEW t \in DOMAIN AnimationTags
    PROVE  AnimationTags[t] \notin Counters
BY DEF AnimationTags, Counters

(* The places of its blocks rise.                                          *)
LEMMA BlocksRise ==
    ASSUME NEW f, NEW p \in Nat, NEW animation, NEW tags, NEW b, BlocksLie(f, p, animation, tags, b)
    PROVE  /\ Len(tags) \in Nat /\ b \in [0..Len(tags) -> Nat] /\ b[0] = p + 1
           /\ \A i, j \in 0..Len(tags) : i <= j => b[i] + (j - i) <= b[j]
<1> DEFINE n == Len(tags)
<1>1. n \in Nat /\ b \in [0..n -> Nat] /\ b[0] = p + 1
  BY DEF BlocksLie, IsList
<1>2. \A k \in 1..n : FramesLie(f, b[k - 1] + 1, b[k], animation[tags[k][2]])
  BY DEF BlocksLie
<1> HIDE DEF n
<1>3. ASSUME NEW k \in 1..n PROVE b[k - 1] < b[k]
  <2>1. k - 1 \in 0..n /\ b[k - 1] \in Nat /\ b[k - 1] + 1 \in Nat
    BY <1>1
  <2>2. b[k] \in Nat /\ b[k] >= (b[k - 1] + 1) + 3
    BY <1>2, <2>1, FramesEnd
  <2> QED BY <2>1, <2>2
<1>4. \A i, j \in 0..n : i <= j => b[i] + (j - i) <= b[j]
  BY <1>1, <1>3, Rising
<1> QED BY <1>1, <1>4 DEF n

(* A block is read with its tag.                                           *)
LEMMA BlockReached ==
    ASSUME NEW f, Begins(f), NEW q \in Nat, q >= 1, NEW z \in Nat, NEW o, NEW t, NEW e, NEW a,
           t \in DOMAIN AnimationTags, f[q] = Tag(t), FramesLie(f, q + 1, e, a),
           e <= Len(f) + 1, z # NumberIn(o.inclusiveSize)
    PROVE  Reached(NextBlock(Here(q, z, o)), f, e, z + (e - q),
                   Set(Set(o, "tag", Tag(t)), AnimationTags[t], a))
<1> DEFINE r == Here(q, z, o)
           x == ReadUnit(r, "tag")
           Block(next) ==
              IF \E u \in DOMAIN AnimationTags : next.object.tag = Tag(u)
              THEN ReadFrames(next, AnimationTags[next.object.tag[2]]) ELSE Threw(next)
           S == {IF next.out = "ok" THEN Block(next) ELSE next : next \in {x}}
           y == NextBlock(r)
           q1 == q + 1
           z1 == z + 1
           o1 == Set(o, "tag", Tag(t))
           o2 == Set(o1, AnimationTags[t], a)
           size == z + (e - q)
<1>1. r.size = z /\ r.object = o
  BY DEF Here
<1>2. y = CHOOSE next \in S : TRUE
  <2> HIDE DEF r
  <2>1. r.size # NumberIn(r.object.inclusiveSize)
    BY <1>1
  <2> QED BY <2>1, Zenon DEF NextBlock, Then, S, Block, x, y
<1>3. y = IF x.out = "ok" THEN Block(x) ELSE x
  <2>1. S = {IF x.out = "ok" THEN Block(x) ELSE x}
    <3> HIDE DEF x, Block
    <3> QED OBVIOUS
  <2> HIDE DEF S, y, x, Block
  <2> QED BY <1>2, <2>1, OnlyMember
<1>4. e \in Nat /\ e >= q1 + 3 /\ q1 \in Nat /\ q1 >= 1 /\ z1 \in Nat /\ Len(f) \in Nat
  <2>1. q1 \in Nat /\ q1 >= 1 /\ z1 \in Nat /\ Len(f) \in Nat
    BY DEF Begins
  <2> HIDE DEF z1
  <2>2. e \in Nat /\ e >= q1 + 3
    BY <2>1, FramesEnd
  <2> QED BY <2>1, <2>2
<1>5. q + 1 = q1 /\ z + 1 = z1 /\ q1 <= Len(f) + 1 /\ z1 + (e - q1) = size
  BY <1>4
<1> HIDE DEF q1, z1, o1, size
<1>6. Reached(x, f, q1, z1, o1)
  <2>1. Reached(ReadUnit(Here(q, z, o), "tag"), f, q + 1, z + 1, Set(o, "tag", f[q]))
    BY <1>5, UnitReached
  <2> HIDE DEF x
  <2> QED BY <1>5, <2>1 DEF x, r, o1
<1>7. Reached(ReadFrames(Here(q1, z1, o1), AnimationTags[t]), f, e, z1 + (e - q1), o2)
  BY <1>4, <1>5, FramesReached
<1>8. x = Here(q1, z1, o1) => Reached(Block(x), f, e, size, o2)
  <2> SUFFICES ASSUME x = Here(q1, z1, o1) PROVE Reached(Block(x), f, e, size, o2)
    OBVIOUS
  <2>1. x.object = o1
    BY DEF Here
  <2>2. o1.tag = Tag(t)
    BY DEF o1, Set
  <2>3. Tag(t)[2] = t
    BY DEF Tag
  <2> HIDE DEF x
  <2>4. Block(x) = ReadFrames(x, AnimationTags[t])
    BY <2>1, <2>2, <2>3
  <2> HIDE DEF Block, o2
  <2> QED BY <1>5, <1>7, <2>4
<1> HIDE DEF x, Block, o2, y
<1>9. Reached(y, f, e, size, o2)
  BY <1>3, <1>6, <1>8, Onward
<1> QED BY <1>9 DEF y, r, o1, o2, size

(* A texture animation takes a unit at least.                              *)
LEMMA AnimationEnd ==
    ASSUME NEW f, NEW p \in Nat, NEW e, NEW animation, AnimationLies(f, p, e, animation)
    PROVE  e \in Nat /\ e > p
<1>1. PICK tags, b : BlocksLie(f, p, animation, tags, b) /\ b[Len(tags)] = e
  BY DEF AnimationLies
<1> DEFINE n == Len(tags)
<1>2. /\ n \in Nat /\ b \in [0..n -> Nat] /\ b[0] = p + 1
      /\ \A i, j \in 0..n : i <= j => b[i] + (j - i) <= b[j]
  BY <1>1, BlocksRise
<1> HIDE DEF n
<1>3. 0 \in 0..n /\ n \in 0..n /\ 0 <= n
  BY <1>2
<1>4. b[0] + (n - 0) <= b[n] /\ b[n] \in Nat
  BY <1>2, <1>3
<1> QED BY <1>1, <1>2, <1>4 DEF n

(* What is kept of a texture animation.                                    *)
LEMMA AnimationKept ==
    ASSUME NEW animation, NEW tags, NEW n, NEW o, DOMAIN o = {"inclusiveSize"},
           NEW M, M = {tags[k][2] : k \in 1..n}, M \intersect Counters = {},
           HasMembers(animation, M),
           NEW last, last = Tagged(o, animation, tags, n)
    PROVE  Without(last, Counters) = animation /\ last.inclusiveSize = o.inclusiveSize
<1> DEFINE D == {"inclusiveSize"} \union (IF n = 0 THEN {} ELSE {"tag"}) \union M
<1>1. M \intersect Counters = {} /\ "tag" \in Counters /\ "inclusiveSize" \in Counters
  BY DEF Counters
<1>3. /\ DOMAIN last = D
      /\ \A x \in D : x # "tag" => last[x] = IF x \in M THEN animation[x] ELSE o[x]
  BY DEF Tagged
<1>4. animation = [x \in M |-> animation[x]]
  BY DEF HasMembers
<1>5. D \ Counters = M
  BY <1>1
<1>6. \A x \in M : last[x] = animation[x]
  BY <1>1, <1>3, <1>5
<1>7. Without(last, Counters) = [x \in M |-> last[x]]
  BY <1>3, <1>5 DEF Without
<1>8. Without(last, Counters) = animation
  BY <1>4, <1>6, <1>7
<1>9. last.inclusiveSize = o.inclusiveSize
  BY <1>1, <1>3
<1> QED BY <1>8, <1>9

(* A round of the loop reads the next block, or nothing behind the last.   *)
LEMMA BlockRoundReached ==
    ASSUME NEW f, Begins(f), NEW p \in Nat, p >= 1, NEW animation, NEW tags, NEW b,
           BlocksLie(f, p, animation, tags, b), b[Len(tags)] <= Len(f) + 1,
           NEW o, o = [x \in {"inclusiveSize"} |-> f[p]],
           NumberIn(f[p]) = b[Len(tags)] - p,
           NEW k \in 0..Len(tags), NEW x,
           Reached(x, f, b[k], b[k] - p, Tagged(o, animation, tags, k))
    PROVE  /\ k < Len(tags) => Reached(BlockRound(x), f, b[k + 1], b[k + 1] - p,
                                       Tagged(o, animation, tags, k + 1))
           /\ k = Len(tags) => BlockRound(x) = x
<1> DEFINE n == Len(tags)
           q == b[k]
           z == q - p
           old == Tagged(o, animation, tags, k)
<1>1. /\ n \in Nat /\ b \in [0..n -> Nat] /\ b[0] = p + 1
      /\ \A i, j \in 0..n : i <= j => b[i] + (j - i) <= b[j]
  BY BlocksRise
<1>2. \A i \in 1..n :
         /\ tags[i][1] \in DOMAIN AnimationTags /\ tags[i][2] = AnimationTags[tags[i][1]]
         /\ f[b[i - 1]] = Tag(tags[i][1])
         /\ FramesLie(f, b[i - 1] + 1, b[i], animation[tags[i][2]])
  BY DEF BlocksLie
<1>a. k \in 0..n /\ b[n] <= Len(f) + 1 /\ NumberIn(f[p]) = b[n] - p
      /\ Reached(x, f, q, z, old)
  OBVIOUS
<1> HIDE DEF n
<1>3. q \in Nat /\ b[n] \in Nat /\ q >= p + 1 /\ q + (n - k) <= b[n] /\ k \in Nat /\ k <= n
  <2>1. 0 \in 0..n /\ n \in 0..n /\ k \in 0..n /\ 0 <= k /\ k <= n /\ k \in Nat
    BY <1>1, <1>a
  <2>2. b[0] + (k - 0) <= b[k] /\ b[k] + (n - k) <= b[n] /\ b[k] \in Nat /\ b[n] \in Nat
    BY <1>1, <2>1
  <2> QED BY <1>1, <2>1, <2>2
<1>4. NumberIn(old.inclusiveSize) = b[n] - p
  <2>1. "inclusiveSize" # "tag" /\ \A i \in 1..k : tags[i][2] # "inclusiveSize"
    <3>1. \A i \in 1..k : i \in 1..n
      BY <1>1, <1>3
    <3>2. \A i \in 1..k : tags[i][2] \notin Counters
      BY <1>2, <3>1, AnimationNames
    <3> QED BY <3>2 DEF Counters
  <2> DEFINE M == {tags[i][2] : i \in 1..k}
  <2>2. "inclusiveSize" \notin M
    BY <2>1
  <2> HIDE DEF M
  <2>3. old = [y \in DOMAIN o \union (IF k = 0 THEN {} ELSE {"tag"}) \union M |->
                  IF y = "tag" THEN (IF k = 0 THEN o[y] ELSE Tag(tags[k][1]))
                  ELSE IF y \in M THEN animation[y] ELSE o[y]]
    BY DEF Tagged, M
  <2> HIDE DEF old
  <2>4. DOMAIN o = {"inclusiveSize"} /\ o["inclusiveSize"] = f[p]
    OBVIOUS
  <2>5. old.inclusiveSize = f[p]
    BY <2>1, <2>2, <2>3, <2>4
  <2> QED BY <1>a, <2>5
<1> HIDE DEF q, z, old
<1>5. BlockRound(x) = IF x.out = "ok" THEN NextBlock(x) ELSE x
  BY DEF BlockRound
<1>6. ASSUME k = n PROVE BlockRound(x) = x
  <2>1. CASE x.out = "ok"
    <3>1. x = Here(q, z, old)
      BY <1>a, <2>1 DEF Reached
    <3>2. x.size = z /\ x.object = old
      BY <3>1 DEF Here
    <3>3. x.size = NumberIn(x.object.inclusiveSize)
      BY <1>4, <1>6, <3>2 DEF z, q
    <3>4. NextBlock(x) = x
      BY <3>3 DEF NextBlock
    <3> QED BY <1>5, <3>4
  <2>2. CASE x.out # "ok"
    BY <1>5, <2>2
  <2> QED BY <2>1, <2>2
<1>7. ASSUME k < n
      PROVE  Reached(BlockRound(x), f, b[k + 1], b[k + 1] - p, Tagged(o, animation, tags, k + 1))
  <2> DEFINE e == b[k + 1]
             t == tags[k + 1][1]
             member == tags[k + 1][2]
             a == animation[member]
             next == NextBlock(x)
             new == Tagged(o, animation, tags, k + 1)
  <2>1. k + 1 \in 1..n /\ (k + 1) - 1 = k /\ k + 1 \in 0..n /\ k + 1 <= n /\ n \in 0..n
    BY <1>1, <1>3, <1>7
  <2>2. t \in DOMAIN AnimationTags /\ member = AnimationTags[t] /\ f[q] = Tag(t)
        /\ FramesLie(f, q + 1, e, a)
    BY <1>2, <2>1 DEF q
  <2>3. e + (n - (k + 1)) <= b[n] /\ e \in Nat
    BY <1>1, <2>1
  <2>4. e <= Len(f) + 1
    <3> DEFINE end == b[n]
    <3>1. end \in Nat /\ end <= Len(f) + 1 /\ Len(f) \in Nat /\ n \in Nat /\ k + 1 <= n
          /\ k \in Nat /\ e \in Nat /\ e + (n - (k + 1)) <= end
      BY <1>1, <1>3, <1>a, <2>1, <2>3 DEF Begins
    <3> HIDE DEF e, end
    <3>2. n - (k + 1) >= 0
      BY <3>1
    <3> QED BY <3>1, <3>2
  <2>5. z # b[n] - p /\ z \in Nat /\ q >= 1
    <3>1. z = q - p /\ n \in Nat
      BY <1>1 DEF z
    <3> DEFINE end == b[n]
    <3>2. q \in Nat /\ end \in Nat /\ q >= p + 1 /\ q + (n - k) <= end /\ k \in Nat /\ k < n
      BY <1>3, <1>7
    <3> HIDE DEF end
    <3>3. q < end
      BY <3>1, <3>2
    <3> QED BY <3>1, <3>2, <3>3 DEF end
  <2>6. Set(Set(old, "tag", Tag(t)), member, a) = new
    <3>1. member # "tag"
      BY <2>2, AnimationNames DEF Counters
    <3> QED BY <1>3, <3>1, TaggedOnce DEF old
  <2>7. z + (e - q) = e - p
    <3> HIDE DEF e
    <3> QED BY <1>3, <2>3 DEF z
  <2> HIDE DEF e, t, a, new
  <2>8. Reached(NextBlock(Here(q, z, old)), f, e, z + (e - q),
                Set(Set(old, "tag", Tag(t)), AnimationTags[t], a))
    BY <1>3, <1>4, <2>2, <2>4, <2>5, BlockReached
  <2> HIDE DEF member, next
  <2>9. x = Here(q, z, old) => Reached(next, f, e, e - p, new)
    BY <2>2, <2>6, <2>7, <2>8 DEF next
  <2>10. Reached(BlockRound(x), f, e, e - p, new)
    BY <1>5, <1>a, <2>9, Onward DEF next
  <2> QED BY <2>10 DEF e, new
<1> QED BY <1>6, <1>7 DEF n

(* All blocks are read.                                                    *)
LEMMA BlocksReached ==
    ASSUME NEW f, Begins(f), NEW p \in Nat, p >= 1, NEW animation, NEW tags, NEW b,
           BlocksLie(f, p, animation, tags, b), b[Len(tags)] <= Len(f) + 1,
           NEW o, o = [x \in {"inclusiveSize"} |-> f[p]],
           NumberIn(f[p]) = b[Len(tags)] - p,
           NEW r, r = Here(p + 1, 1, o), p + 1 <= Len(file) + 1
    PROVE  Reached(ReadBlocks(r), f, b[Len(tags)], b[Len(tags)] - p,
                   Tagged(o, animation, tags, Len(tags)))
<1> DEFINE n == Len(tags)
           rounds == Rounds(r.pos)
           y == ReadBlocks(r)
<1>1. /\ n \in Nat /\ b \in [0..n -> Nat] /\ b[0] = p + 1
      /\ \A i, j \in 0..n : i <= j => b[i] + (j - i) <= b[j]
  BY BlocksRise
<1>2. rounds \in Nat /\ rounds + (p + 1) > Len(file) + 1
  <2>1. r.pos = p + 1 /\ Len(file) \in Nat
    BY DEF Here, Begins
  <2> QED BY <2>1 DEF Rounds
<1> HIDE DEF rounds, y
<1>3. PICK h : Runs(h, BlocksLoop, r, rounds) /\ y = h[rounds]
  BY <1>2, BlocksRun DEF rounds, y
<1>4. h[0] = r /\ \A k \in 1..rounds : h[k] = BlockRound(h[k - 1])
  <2>1. \A k \in 0..rounds : h[k] = IF k = 0 THEN r ELSE Round(BlocksLoop, h[k - 1], k)
    BY <1>3 DEF Runs
  <2>2. 0 \in 0..rounds /\ \A k \in 1..rounds : k \in 0..rounds /\ k # 0
    BY <1>2
  <2>3. \A x, k : Round(BlocksLoop, x, k) = BlockRound(x)
    BY DEF Round, BlocksLoop
  <2> QED BY <2>1, <2>2, <2>3
<1> DEFINE s == [k \in 0..n |-> b[k] - p]
           g == [k \in 0..n |-> Tagged(o, animation, tags, k)]
<1>5. /\ \A k \in 0..n : s[k] = b[k] - p /\ g[k] = Tagged(o, animation, tags, k)
      /\ 0 \in 0..n /\ n \in 0..n
  BY <1>1
<1> HIDE DEF s, g
<1>6. Reached(h[0], f, b[0], s[0], g[0])
  <2>1. g[0] = o
    <3>1. o = [x \in DOMAIN o |-> o[x]]
      OBVIOUS
    <3>2. Tagged(o, animation, tags, 0) = o
      BY <3>1, NoneTagged
    <3> QED BY <1>5, <3>2
  <2>2. b[0] = p + 1 /\ s[0] = 1
    <3>1. s[0] = b[0] - p /\ b[0] = p + 1
      BY <1>1, <1>5
    <3> QED BY <3>1
  <2>3. IsReader(r) /\ r.out = "ok"
    <3> DEFINE q == p + 1
    <3>1. q \in Nat /\ q >= 1 /\ 1 \in Nat /\ r = Here(q, 1, o)
      OBVIOUS
    <3> HIDE DEF q
    <3> QED BY <3>1, HereIs
  <2> QED BY <1>4, <2>1, <2>2, <2>3 DEF Reached
<1>7. ASSUME NEW k \in 1..rounds,
             Reached(h[k - 1], f, b[At(k - 1, n)], s[At(k - 1, n)], g[At(k - 1, n)])
      PROVE  Reached(h[k], f, b[At(k, n)], s[At(k, n)], g[At(k, n)])
  <2> DEFINE m == At(k - 1, n)
             x == h[k - 1]
  <2>1. k \in Nat /\ k - 1 \in Nat
    BY <1>2
  <2>2. m \in 0..n /\ (m < n => At(k, n) = m + 1) /\ (m = n => At(k, n) = m)
        /\ (m < n \/ m = n) /\ m + 1 \in Nat /\ (m < n => m + 1 \in 0..n)
    <3> HIDE DEF n
    <3> QED BY <1>1, <2>1 DEF At
  <2>3. h[k] = BlockRound(x)
    BY <1>4
  <2> HIDE DEF m, x
  <2>4. Reached(x, f, b[m], b[m] - p, Tagged(o, animation, tags, m))
    BY <1>5, <1>7, <2>2 DEF m, x
  <2>5. /\ m < n => Reached(BlockRound(x), f, b[m + 1], b[m + 1] - p,
                            Tagged(o, animation, tags, m + 1))
        /\ m = n => BlockRound(x) = x
    BY <2>2, <2>4, BlockRoundReached
  <2>6. CASE m < n
    BY <1>5, <2>2, <2>3, <2>5, <2>6
  <2>7. CASE m = n
    BY <1>5, <2>2, <2>3, <2>4, <2>5, <2>7
  <2> QED BY <2>2, <2>6, <2>7
<1>8. Reached(h[rounds], f, b[n], s[n], g[n])
  <2>1. n <= rounds \/ rounds + b[0] > Len(file) + 1
    BY <1>1, <1>2
  <2>2. \A k \in 1..rounds :
           Reached(h[k - 1], f, b[At(k - 1, n)], s[At(k - 1, n)], g[At(k - 1, n)])
              => Reached(h[k], f, b[At(k, n)], s[At(k, n)], g[At(k, n)])
    BY <1>7
  <2>3. b[n] <= Len(f) + 1
    OBVIOUS
  <2> HIDE DEF n
  <2> QED BY <1>1, <1>2, <1>6, <2>1, <2>2, <2>3, RoundsReach
<1> QED BY <1>3, <1>5, <1>8 DEF y

(* A texture animation is read as it lies in the file.                     *)
LEMMA AnimationReached ==
    ASSUME NEW f, Begins(f), NEW p \in Nat, p >= 1, NEW e, NEW animation,
           AnimationLies(f, p, e, animation), e <= Len(f) + 1
    PROVE  Reached(ReadTextureAnimation(p), f, e, e - p, animation)
<1> DEFINE start == Reader(p, <<>>)
           o == [x \in {"inclusiveSize"} |-> f[p]]
           x0 == ReadUnit(start, "inclusiveSize")
           s1 == ReadBlocks(x0)
           x1 == IF x0.out = "ok" THEN s1 ELSE x0
           x2 == IF x1.out = "ok" THEN SkipInclusive(x1) ELSE x1
           y == ReadTextureAnimation(p)
           c1 == CHOOSE z \in {IF r.out = "ok" THEN ReadBlocks(r) ELSE r : r \in {x0}} : TRUE
           c2 == CHOOSE z \in {IF r.out = "ok" THEN SkipInclusive(r) ELSE r : r \in {c1}} : TRUE
<1>1. y = c2
  BY Zenon DEF ReadTextureAnimation, Then, y, start, x0, c1, c2
<1>2. y = x2
  <2>1. c1 = x1
    <3> DEFINE S == {IF r.out = "ok" THEN ReadBlocks(r) ELSE r : r \in {x0}}
    <3>1. S = {x1}
      <4> HIDE DEF x0
      <4> QED OBVIOUS
    <3>2. c1 = CHOOSE z \in S : TRUE
      OBVIOUS
    <3> HIDE DEF S, c1, x1
    <3> QED BY <3>1, <3>2, OnlyMember
  <2>2. c2 = x2
    <3> DEFINE S == {IF r.out = "ok" THEN SkipInclusive(r) ELSE r : r \in {c1}}
    <3>1. S = {x2}
      <4> HIDE DEF c1, x1
      <4> QED BY <2>1
    <3>2. c2 = CHOOSE z \in S : TRUE
      OBVIOUS
    <3> HIDE DEF S, c2, x2
    <3> QED BY <3>1, <3>2, OnlyMember
  <2> HIDE DEF y, c2, x2
  <2> QED BY <1>1, <2>2
<1>3. PICK tags, b : /\ BlocksLie(f, p, animation, tags, b) /\ b[Len(tags)] = e
                     /\ HasMembers(animation, {tags[k][2] : k \in 1..Len(tags)})
  BY DEF AnimationLies
<1> DEFINE n == Len(tags)
           last == Tagged(o, animation, tags, n)
<1>4. NumberIn(f[p]) = e - p
  BY DEF AnimationLies
<1>5. e \in Nat /\ e > p /\ Len(f) \in Nat
  BY AnimationEnd DEF Begins
<1>6. Reached(x0, f, p + 1, 1, o)
  <2>1. start = Here(p, 0, <<>>)
    BY DEF Reader, Here
  <2>2. p + 1 <= Len(f) + 1 /\ 0 + 1 = 1 /\ 0 \in Nat
    BY <1>5
  <2>3. Reached(ReadUnit(Here(p, 0, <<>>), "inclusiveSize"), f, p + 1, 0 + 1,
                Set(<<>>, "inclusiveSize", f[p]))
    BY <2>2, UnitReached
  <2>4. Set(<<>>, "inclusiveSize", f[p]) = o
    <3>1. DOMAIN <<>> = {}
      OBVIOUS
    <3> QED BY <3>1 DEF Set
  <2> HIDE DEF start, o
  <2> QED BY <2>1, <2>2, <2>3, <2>4
<1> HIDE DEF x0, s1, last
<1>7. x0 = Here(p + 1, 1, o) => Reached(s1, f, e, e - p, last)
  <2> SUFFICES ASSUME x0 = Here(p + 1, 1, o) PROVE Reached(s1, f, e, e - p, last)
    OBVIOUS
  <2>1. x0.out = "ok"
    BY DEF Here
  <2>2. p + 1 <= Len(file) + 1
    BY <1>6, <2>1 DEF Reached
  <2>3. o = [x \in {"inclusiveSize"} |-> f[p]]
    OBVIOUS
  <2>4. b[Len(tags)] <= Len(f) + 1 /\ NumberIn(f[p]) = b[Len(tags)] - p
    BY <1>3, <1>4
  <2> HIDE DEF o
  <2>5. Reached(ReadBlocks(x0), f, b[Len(tags)], b[Len(tags)] - p,
                Tagged(o, animation, tags, Len(tags)))
    BY <1>3, <2>2, <2>3, <2>4, BlocksReached
  <2> QED BY <1>3, <2>5 DEF s1, last
<1> HIDE DEF o
<1>8. Reached(x1, f, e, e - p, last)
  <2>1. x1 = IF x0.out = "ok" THEN s1 ELSE x0
    OBVIOUS
  <2> HIDE DEF x1
  <2> QED BY <1>6, <1>7, <2>1, Onward
<1> HIDE DEF x1
<1>9. Without(last, Counters) = animation /\ last.inclusiveSize = f[p]
  <2> DEFINE M == {tags[k][2] : k \in 1..n}
  <2>1. M \intersect Counters = {}
    <3>1. \A k \in 1..n : tags[k][2] \notin Counters
      BY <1>3, AnimationNames DEF BlocksLie
    <3> QED BY <3>1
  <2>2. HasMembers(animation, M)
    BY <1>3
  <2>3. last = Tagged(o, animation, tags, n)
    BY DEF last
  <2>4. M = {tags[k][2] : k \in 1..n}
    OBVIOUS
  <2>5. DOMAIN o = {"inclusiveSize"} /\ o.inclusiveSize = f[p]
    BY DEF o
  <2> HIDE DEF n, M
  <2> QED BY <2>1, <2>2, <2>3, <2>4, <2>5, AnimationKept
<1> DEFINE z == e - p
<1>10. z \in Nat /\ NumberIn(last.inclusiveSize) = z /\ Reached(x1, f, e, z, last)
  BY <1>4, <1>5, <1>8, <1>9
<1> HIDE DEF z
<1>11. Reached(IF x1.out = "ok" THEN SkipInclusive(x1) ELSE x1, f, e, z, Without(last, Counters))
  BY <1>10, NothingSkipped
<1>12. Reached(y, f, e, e - p, animation)
  <2> HIDE DEF y
  <2> QED BY <1>2, <1>9, <1>11 DEF x2, z
<1> QED BY <1>12 DEF y
-----------------------------------------------------------------------------
(* The objects of a section.                                               *)

\* Where an object of a section lies in a file, and where it ends.
ObjectLies(f, s, p, e, object, version) ==
    \/ s \in Plain /\ FieldsLie(f, p, e, object, FieldsRead[s])
    \/ s = "MTLS" /\ MaterialLies(f, p, e, object, version)
    \/ s = "TXAN" /\ AnimationLies(f, p, e, object)

(* Every object takes a unit at least.                                     *)
LEMMA ObjectEnd ==
    ASSUME NEW f, NEW s, NEW p \in Nat, p >= 1, NEW e, NEW object, NEW version,
           ObjectLies(f, s, p, e, object, version)
    PROVE  e \in Nat /\ e > p
<1>1. CASE s \in Plain /\ FieldsLie(f, p, e, object, FieldsRead[s])
  <2>1. PICK n \in 1..10 : n = Len(FieldsRead[s])
    BY <1>1, PlainFields
  <2>2. e = p + n
    BY <1>1, <2>1 DEF FieldsLie
  <2> QED BY <2>2
<1>2. CASE MaterialLies(f, p, e, object, version)
  BY <1>2, MaterialEnd
<1>3. CASE AnimationLies(f, p, e, object)
  BY <1>3, AnimationEnd
<1> QED BY <1>1, <1>2, <1>3 DEF ObjectLies

(* An object is read as it lies there, or it is not there.                 *)
LEMMA ObjectIsRead ==
    ASSUME NEW f, Begins(f), NEW s, NEW p \in Nat, p >= 1, NEW e, NEW object, NEW version,
           ObjectLies(f, s, p, e, object, version), e <= Len(f) + 1
    PROVE  Reached(ReadObject(s, p, version), f, e, e - p, object)
<1> DEFINE x == ReadObject(s, p, version)
<1>1. CASE s \in Plain /\ FieldsLie(f, p, e, object, FieldsRead[s])
  <2>1. IsRead(x, p, e, object)
    <3>1. FieldsLie(f, p, e, object, FieldsRead[s])
      BY <1>1
    <3> QED BY <1>1, <3>1, PlainIsRead
  <2> HIDE DEF x
  <2>2. x.out = "ok" => x = Here(e, e - p, object)
    BY <2>1 DEF IsRead, IsReader, Here
  <2> QED BY <2>1, <2>2 DEF IsRead, Reached, x
<1>2. CASE s = "MTLS" /\ MaterialLies(f, p, e, object, version)
  <2>1. x = ReadMaterial(p, version)
    BY <1>2 DEF ReadObject
  <2>2. Reached(ReadMaterial(p, version), f, e, e - p, object)
    BY <1>2, MaterialReached
  <2> QED BY <2>1, <2>2
<1>3. CASE s = "TXAN" /\ AnimationLies(f, p, e, object)
  <2>1. x = ReadTextureAnimation(p)
    BY <1>3 DEF ReadObject
  <2>2. Reached(ReadTextureAnimation(p), f, e, e - p, object)
    BY <1>3, AnimationReached
  <2> QED BY <2>1, <2>2
<1> QED BY <1>1, <1>2, <1>3 DEF ObjectLies

(* Objects that lie one behind the other.                                  *)
ObjectsLie(f, s, list, b, version) ==
    /\ IsList(list) /\ list = Firsts(list, Len(list))
    /\ b \in [0..Len(list) -> Nat] /\ b[0] >= 1
    /\ \A k \in 1..Len(list) : ObjectLies(f, s, b[k - 1], b[k], list[k], version)

(* The places of objects rise.                                             *)
LEMMA PlacesRise ==
    ASSUME NEW f, Begins(f), NEW s, NEW list, NEW b, NEW version, ObjectsLie(f, s, list, b, version)
    PROVE  /\ Len(list) \in Nat /\ b \in [0..Len(list) -> Nat] /\ b[0] >= 1
           /\ \A i, j \in 0..Len(list) : i <= j => b[i] + (j - i) <= b[j]
<1> DEFINE n == Len(list)
<1>1. n \in Nat /\ b \in [0..n -> Nat] /\ b[0] >= 1
  BY DEF ObjectsLie, IsList
<1>a. \A k \in 1..n : ObjectLies(f, s, b[k - 1], b[k], list[k], version)
  BY DEF ObjectsLie
<1> HIDE DEF n
<1>2. ASSUME NEW k \in 1..n
      PROVE  b[k - 1] \in Nat /\ b[k - 1] >= 1 => b[k] > b[k - 1]
  BY <1>a, ObjectEnd
<1>3. \A k \in 1..n : b[k - 1] < b[k]
  <2> DEFINE Good == {k \in 0..n : b[k] >= 1}
  <2>1. 0 \in Good
    BY <1>1
  <2>2. ASSUME NEW k \in 0..n - 1, k \in Good PROVE k + 1 \in Good
    <3>1. k + 1 \in 1..n /\ (k + 1) - 1 = k /\ k \in 0..n /\ k + 1 \in 0..n
      BY <1>1
    <3>2. b[k] \in Nat /\ b[k] >= 1 /\ b[k + 1] \in Nat
      BY <1>1, <2>2, <3>1
    <3>3. b[k + 1] > b[k]
      BY <1>2, <3>1, <3>2
    <3> QED BY <3>1, <3>2, <3>3
  <2> HIDE DEF Good
  <2>3. \A k \in 0..n : k \in Good
    BY <1>1, <2>1, <2>2, InductionTo
  <2>4. \A k \in 1..n : k - 1 \in 0..n /\ b[k - 1] >= 1 /\ b[k - 1] \in Nat
    BY <1>1, <2>3 DEF Good
  <2> QED BY <1>1, <1>2, <2>4
<1>4. \A i, j \in 0..n : i <= j => b[i] + (j - i) <= b[j]
  BY <1>1, <1>3, Rising
<1> QED BY <1>1, <1>4 DEF n

(* What the loop has read after m of n objects.                            *)
HasRead(r, f, list, b, m) ==
    /\ IsReader(r)
    /\ r.out = "ok" => /\ r.pos = b[m] /\ r.size = b[m] - b[0] /\ r.object = Firsts(list, m)
                       /\ m > 0 => b[m] <= Len(file) + 1
    /\ Len(file) = Len(f) => r.out = "ok"

(* One more round of the loop.                                             *)
LEMMA NextObjectIsRead ==
    ASSUME NEW f, Begins(f), NEW s, NEW list, NEW b, NEW version,
           ObjectsLie(f, s, list, b, version),
           NEW size, size = b[Len(list)] - b[0], b[Len(list)] <= Len(f) + 1,
           NEW m \in 0..Len(list), NEW r, HasRead(r, f, list, b, m)
    PROVE  HasRead(ObjectRound(r, s, size, version), f, list, b,
                   IF m < Len(list) THEN m + 1 ELSE m)
<1> DEFINE n == Len(list)
<1>1. n \in Nat /\ b \in [0..n -> Nat] /\ b[0] >= 1 /\ m \in Nat /\ Len(file) \in Nat
  BY DEF ObjectsLie, IsList, Begins
<1>a. /\ size = b[n] - b[0] /\ b[n] <= Len(f) + 1 /\ m \in 0..n
      /\ \A k \in 1..n : ObjectLies(f, s, b[k - 1], b[k], list[k], version)
      /\ IsList(list) /\ n = Len(list)
  BY DEF ObjectsLie
<1> HIDE DEF n
<1>4. \A i, j \in 0..n : i <= j => b[i] + (j - i) <= b[j]
  BY <1>a, PlacesRise
<1>5. b[m] \in Nat /\ b[n] \in Nat /\ b[0] \in Nat /\ b[m] >= 1 /\ b[0] + m <= b[m]
  <2>1. 0 \in 0..n /\ m \in 0..n /\ n \in 0..n /\ 0 <= m /\ m - 0 = m
    BY <1>1, <1>a
  <2>2. b[m] \in Nat /\ b[n] \in Nat /\ b[0] \in Nat
    BY <1>1, <2>1
  <2>3. b[0] + (m - 0) <= b[m]
    BY <1>4, <2>1
  <2> QED BY <1>1, <2>1, <2>2, <2>3
<1>6. CASE r.out # "ok"
  <2>1. ObjectRound(r, s, size, version) = r
    BY <1>6 DEF ObjectRound
  <2> QED BY <1>6, <2>1 DEF HasRead
<1>7. CASE r.out = "ok" /\ m = n
  <2>1. r.size = size
    BY <1>a, <1>7 DEF HasRead
  <2>2. ObjectRound(r, s, size, version) = r
    BY <1>7, <2>1 DEF ObjectRound, NextObject
  <2> QED BY <1>7, <1>a, <2>2, <1>1
<1>8. CASE r.out = "ok" /\ m < n
  <2> DEFINE x == ReadObject(s, r.pos, version)
             next == Behind(r, x, Append(r.object, x.object))
  <2>1. r.pos = b[m] /\ r.size = b[m] - b[0] /\ r.object = Firsts(list, m) /\ IsReader(r)
    BY <1>8 DEF HasRead
  <2>2. r.size # size
    <3>1. n \in 0..n /\ m <= n
      BY <1>1, <1>8
    <3>2. b[m] + (n - m) <= b[n]
      BY <1>4, <1>a, <3>1
    <3> QED BY <1>1, <1>5, <1>8, <1>a, <2>1, <3>2
  <2>3. NextObject(r, s, size, version) = IF x.out = "ok" THEN next ELSE x
    <3> DEFINE S == {IF one.out = "ok" THEN Behind(r, one, Append(r.object, one.object)) ELSE one :
                        one \in {x}}
    <3>1. S = {IF x.out = "ok" THEN next ELSE x}
      OBVIOUS
    <3>2. (CHOOSE y \in S : TRUE) = IF x.out = "ok" THEN next ELSE x
      BY <3>1, OnlyMember
    <3> QED BY <2>2, <3>2 DEF NextObject, Then
  <2>4. ObjectRound(r, s, size, version) = IF x.out = "ok" THEN next ELSE x
    BY <1>8, <2>3 DEF ObjectRound
  <2>5. m + 1 \in 1..n /\ (m + 1) - 1 = m
    BY <1>1, <1>8
  <2>6. ObjectLies(f, s, b[m], b[m + 1], list[m + 1], version)
    BY <1>a, <2>5
  <2> HIDE DEF x
  <2>7. x = ReadObject(s, b[m], version)
    BY <2>1 DEF x
  <2>8. b[m + 1] \in Nat /\ b[m + 1] > b[m]
    BY <1>5, <2>6, ObjectEnd
  <2>9. b[m + 1] <= Len(f) + 1
    <3>1. m + 1 \in 0..n /\ n \in 0..n /\ m + 1 <= n
      BY <1>1, <2>5
    <3>2. b[m + 1] + (n - (m + 1)) <= b[n]
      BY <1>4, <3>1
    <3> QED BY <1>1, <1>5, <1>8, <1>a, <2>8, <3>2 DEF Begins
  <2>10. /\ IsReader(x)
         /\ x.out = "ok" => /\ b[m + 1] <= Len(file) + 1 /\ x.pos = b[m + 1]
                            /\ x.size = b[m + 1] - b[m] /\ x.object = list[m + 1]
         /\ Len(file) = Len(f) => x.out = "ok"
    <3> DEFINE e == b[m + 1]
               q == b[m]
    <3>1. Reached(ReadObject(s, q, version), f, e, e - q, list[m + 1])
      <4>1. ObjectLies(f, s, q, e, list[m + 1], version) /\ e <= Len(f) + 1
            /\ q \in Nat /\ q >= 1
        BY <1>5, <2>6, <2>9
      <4> HIDE DEF e, q
      <4> QED BY <4>1, ObjectIsRead
    <3>2. Reached(x, f, e, e - q, list[m + 1])
      BY <2>7, <3>1
    <3> HIDE DEF e, q
    <3> QED BY <3>2 DEF Reached, Here, e, q
  <2>11. CASE x.out # "ok"
    BY <1>8, <2>4, <2>9, <2>10, <2>11 DEF HasRead
  <2>12. CASE x.out = "ok"
    <3> DEFINE e == b[m + 1]
               place == b[m]
               start == b[0]
    <3>1. /\ x.pos = e /\ x.size = e - place /\ r.size = place - start
          /\ e \in Nat /\ place \in Nat /\ start \in Nat /\ e > place /\ place >= 1
          /\ start + m <= place
      BY <1>5, <2>1, <2>8, <2>10, <2>12
    <3>2. Append(r.object, x.object) = Firsts(list, m + 1)
      <4>1. m \in Nat /\ m + 1 <= Len(list) /\ IsList(list)
        BY <1>1, <1>8, <1>a
      <4> QED BY <4>1, <2>1, <2>10, <2>12, FirstsAppended
    <3> DEFINE new == Append(r.object, x.object)
    <3> HIDE DEF e, place, start, new
    <3>3. /\ next = [out |-> "ok", pos |-> e, size |-> e - start, object |-> new]
          /\ e - start \in Nat /\ e >= 1
      <4>1. (place - start) + (e - place) = e - start /\ e - start \in Nat /\ e >= 1
        BY <1>1, <3>1
      <4> QED BY <3>1, <4>1 DEF Behind, new
    <3>4. IsReader(next)
      BY <3>1, <3>3 DEF IsReader
    <3> HIDE DEF next
    <3>5. HasRead(next, f, list, b, m + 1)
      BY <2>10, <2>12, <3>2, <3>3, <3>4 DEF HasRead, new, e, start
    <3> QED BY <1>8, <1>a, <2>4, <2>12, <3>5
  <2> QED BY <2>11, <2>12
<1>9. m = n \/ m < n
  BY <1>1, <1>a
<1> QED BY <1>6, <1>7, <1>8, <1>9

\* What reading a section of f that ends before e leaves behind.
SectionRead(x, f, e, object) ==
    /\ IsReader(x)
    /\ x.out = "ok" => x.pos = e /\ x.object = object
    /\ Len(file) = Len(f) => x.out = "ok"

(* The objects of a section are read as they lie there, all of them, or the *)
(* file ends before they do.                                               *)
LEMMA ObjectsAreRead ==
    ASSUME NEW f, Begins(f), NEW s, NEW list, NEW b, NEW version,
           ObjectsLie(f, s, list, b, version),
           NEW size, size = b[Len(list)] - b[0], b[Len(list)] <= Len(f) + 1
    PROVE  SectionRead(ReadObjects(s, b[0], size, version), f, b[Len(list)], list)
<1> DEFINE n == Len(list)
           p == b[0]
           x == ReadObjects(s, p, size, version)
           rounds == Rounds(p)
           start == Reader(p, <<>>)
<1>1. /\ n \in Nat /\ b \in [0..n -> Nat] /\ p >= 1 /\ p \in Nat
      /\ \A i, j \in 0..n : i <= j => b[i] + (j - i) <= b[j]
  BY PlacesRise
<1>2. list = Firsts(list, n) /\ Firsts(list, 0) = <<>>
  BY DEF ObjectsLie, Firsts
<1>3. rounds \in Nat /\ rounds >= 1 /\ Len(file) \in Nat
      /\ rounds + p > Len(file) + 1
  BY <1>1 DEF Rounds, Begins
<1>4. HasRead(start, f, list, b, 0)
  <2>1. /\ IsReader(start) /\ start.out = "ok" /\ start.pos = p /\ start.size = 0
        /\ start.object = <<>>
    BY <1>1, Readers
  <2> HIDE DEF start
  <2>2. p - p = 0
    BY <1>1
  <2> QED BY <1>2, <2>1, <2>2 DEF HasRead
<1>5. PICK h : Runs(h, ObjectsLoop(s, size, version), start, rounds) /\ x = h[rounds]
  BY <1>3, ObjectsRun
<1> DEFINE Done(k) == IF k < n THEN k ELSE n
           Good == {k \in 0..rounds : HasRead(h[k], f, list, b, Done(k))}
<1> HIDE DEF x, rounds, start
<1>6. /\ h[0] = start
      /\ \A k \in 1..rounds : h[k] = ObjectRound(h[k - 1], s, size, version)
  <2>1. \A k \in 0..rounds : h[k] = IF k = 0 THEN start
                                    ELSE Round(ObjectsLoop(s, size, version), h[k - 1], k)
    BY <1>5 DEF Runs
  <2>2. 0 \in 0..rounds /\ \A k \in 1..rounds : k \in 0..rounds /\ k # 0
    BY <1>3
  <2>3. \A y, k : Round(ObjectsLoop(s, size, version), y, k) = ObjectRound(y, s, size, version)
    BY DEF Round, ObjectsLoop
  <2> QED BY <2>1, <2>2, <2>3
<1>7. 0 \in Good
  <2>1. Done(0) = 0 /\ 0 \in 0..rounds
    BY <1>1, <1>3
  <2> QED BY <1>4, <1>6, <2>1
<1>8. ASSUME NEW k \in 0..rounds - 1, k \in Good PROVE k + 1 \in Good
  <2>1. k + 1 \in 1..rounds /\ k + 1 \in 0..rounds /\ (k + 1) - 1 = k /\ k \in Nat
    BY <1>3
  <2> DEFINE m == Done(k)
             r == h[k]
  <2>2. HasRead(r, f, list, b, m) /\ m \in 0..n
    BY <1>1, <1>8, <2>1
  <2>3. Done(k + 1) = IF m < n THEN m + 1 ELSE m
    BY <1>1, <2>1
  <2>4. h[k + 1] = ObjectRound(r, s, size, version)
    BY <1>6, <2>1
  <2> HIDE DEF m, r, Done
  <2>5. HasRead(ObjectRound(r, s, size, version), f, list, b, IF m < n THEN m + 1 ELSE m)
    BY <2>2, NextObjectIsRead
  <2> QED BY <2>1, <2>3, <2>4, <2>5
<1> HIDE DEF Good
<1>9. \A k \in 0..rounds : k \in Good
  BY <1>3, <1>7, <1>8, InductionTo
<1>10. HasRead(x, f, list, b, Done(rounds))
  <2>1. rounds \in 0..rounds
    BY <1>3
  <2> HIDE DEF Done
  <2> QED BY <1>5, <1>9, <2>1 DEF Good
<1>11. ASSUME n <= rounds PROVE SectionRead(x, f, b[n], list)
  <2>1. Done(rounds) = n
    BY <1>1, <1>3, <1>11
  <2> HIDE DEF Done, n
  <2> QED BY <1>2, <1>10, <2>1 DEF HasRead, SectionRead
<1>12. ASSUME rounds < n PROVE SectionRead(x, f, b[n], list)
  <2>1. Done(rounds) = rounds /\ rounds \in 0..n /\ 0 \in 0..n /\ 0 <= rounds
    BY <1>1, <1>3, <1>12
  <2>2. p + (rounds - 0) <= b[rounds] /\ b[rounds] \in Nat
    BY <1>1, <2>1
  <2>3. b[rounds] > Len(file) + 1
    BY <1>1, <1>3, <2>2
  <2>4. x.out # "ok"
    <3>1. x.out = "ok" => b[rounds] <= Len(file) + 1
      BY <1>3, <1>10, <2>1 DEF HasRead
    <3> QED BY <1>3, <2>2, <2>3, <3>1
  <2> HIDE DEF At
  <2> QED BY <1>10, <2>4 DEF HasRead, SectionRead
<1>13. SectionRead(x, f, b[n], list)
  BY <1>1, <1>3, <1>11, <1>12
<1> QED BY <1>13 DEF x

-----------------------------------------------------------------------------
(* Sections.                                                               *)

\* A section of a model that lies in a file from its tag to e.
SectionLies(f, m, s, p, e) ==
    /\ e \in Nat /\ e >= p + HeaderSize /\ f[p] = Tag(s) /\ f[p + 1] = Num(e - p - HeaderSize)
    /\ s = "VERS" => e >= p + 3 /\ NumberIn(f[p + HeaderSize]) = m.VERS
    /\ s = "MODL" => \E end \in Nat : /\ end <= e
                                      /\ FieldsLie(f, p + HeaderSize, end, m.MODL, FieldsRead.MODL)
    /\ s \notin {"VERS", "MODL"} =>
          \E b : /\ ObjectsLie(f, s, m[s], b, m.VERS)
                 /\ b[0] = p + HeaderSize /\ b[Len(m[s])] = e

\* The reader of a section with the header at p, and what it is kept as.
VersionReader(p, n) ==
    Then(ReadUnit(Reader(p + HeaderSize, <<>>), "version"), LAMBDA r : Skip(r, n))
ModelReader(p, n) ==
    Then(ReadFields(Reader(p + HeaderSize, <<>>), FieldsRead.MODL), LAMBDA r : Skip(r, n))
SectionReader(s, p, n, version) ==
    IF s = "VERS" THEN VersionReader(p, n)
    ELSE IF s = "MODL" THEN ModelReader(p, n)
    ELSE ReadObjects(s, p + HeaderSize, n, version)
ValueOf(s, x) == IF s = "VERS" THEN NumberIn(x.object.version) ELSE x.object

(* What is skipped behind what was read.                                   *)
LEMMA Skipped ==
    ASSUME NEW r, IsReader(r), NEW n \in Nat
    PROVE  /\ IsReader(Skip(r, n)) /\ Skip(r, n).out = r.out /\ Skip(r, n).object = r.object
           /\ n >= r.size => Skip(r, n).pos = r.pos + (n - r.size)
<1> DEFINE place == r.pos
           size == r.size
<1>1. place \in Nat /\ place >= 1 /\ size \in Nat
      /\ r = [out |-> r.out, pos |-> place, size |-> size, object |-> r.object]
  BY DEF IsReader
<1>2. CASE n > size
  <2> DEFINE new == place + (n - size)
  <2>1. Skip(r, n) = [out |-> r.out, pos |-> new, size |-> size, object |-> r.object]
    BY <1>1, <1>2 DEF Skip
  <2>2. new \in Nat /\ new >= 1
    <3> HIDE DEF place, size
    <3> QED BY <1>1, <1>2
  <2> HIDE DEF new
  <2>3. IsReader(Skip(r, n)) /\ Skip(r, n).pos = new
    BY <2>1, <2>2, <1>1 DEF IsReader
  <2> QED BY <2>1, <2>3 DEF new
<1>3. CASE ~ (n > size)
  <2>1. Skip(r, n) = r
    BY <1>3 DEF Skip
  <2>2. n >= size => place + (n - size) = place
    <3> HIDE DEF place, size
    <3> QED BY <1>1, <1>3
  <2> QED BY <2>1, <2>2
<1> QED BY <1>2, <1>3

(* The readers of the two sections that skip what is left.                 *)
LEMMA SkippingReaders ==
    ASSUME NEW p, NEW n
    PROVE  /\ VersionReader(p, n) =
                IF ReadUnit(Reader(p + HeaderSize, <<>>), "version").out = "ok"
                THEN Skip(ReadUnit(Reader(p + HeaderSize, <<>>), "version"), n)
                ELSE ReadUnit(Reader(p + HeaderSize, <<>>), "version")
           /\ ModelReader(p, n) =
                IF ReadFields(Reader(p + HeaderSize, <<>>), FieldsRead.MODL).out = "ok"
                THEN Skip(ReadFields(Reader(p + HeaderSize, <<>>), FieldsRead.MODL), n)
                ELSE ReadFields(Reader(p + HeaderSize, <<>>), FieldsRead.MODL)
<1> DEFINE v == ReadUnit(Reader(p + HeaderSize, <<>>), "version")
           w == ReadFields(Reader(p + HeaderSize, <<>>), FieldsRead.MODL)
           V == {IF x.out = "ok" THEN Skip(x, n) ELSE x : x \in {v}}
           W == {IF x.out = "ok" THEN Skip(x, n) ELSE x : x \in {w}}
<1>1. VersionReader(p, n) = CHOOSE y \in V : TRUE
  BY Zenon DEF VersionReader, Then, V, v
<1>2. ModelReader(p, n) = CHOOSE y \in W : TRUE
  BY Zenon DEF ModelReader, Then, W, w
<1> HIDE DEF v, w
<1>3. V = {IF v.out = "ok" THEN Skip(v, n) ELSE v}
  OBVIOUS
<1>4. W = {IF w.out = "ok" THEN Skip(w, n) ELSE w}
  OBVIOUS
<1> HIDE DEF V, W
<1> QED BY <1>1, <1>2, <1>3, <1>4, OnlyMember DEF v, w

(* A section is read as it lies in the file.                               *)
LEMMA VersionIsRead ==
    ASSUME NEW f, Begins(f), NEW m, NEW p \in Nat, p >= 1, NEW e, SectionLies(f, m, "VERS", p, e),
           e <= Len(f) + 1
    PROVE  /\ IsReader(VersionReader(p, e - p - HeaderSize))
           /\ VersionReader(p, e - p - HeaderSize).out = "ok" =>
                /\ VersionReader(p, e - p - HeaderSize).pos = e
                /\ NumberIn(VersionReader(p, e - p - HeaderSize).object.version) = m.VERS
           /\ Len(file) = Len(f) => VersionReader(p, e - p - HeaderSize).out = "ok"
<1> DEFINE q == p + HeaderSize
           n == e - p - HeaderSize
           r == Reader(q, <<>>)
           x == ReadUnit(r, "version")
           y == VersionReader(p, n)
<1>1. e \in Nat /\ e >= p + 3 /\ NumberIn(f[q]) = m.VERS
  BY DEF SectionLies
<1>2. q \in Nat /\ q >= 1 /\ q = p + 2 /\ n \in Nat /\ n >= 1 /\ n = e - q
  BY <1>1 DEF HeaderSize
<1>3. y = IF x.out = "ok" THEN Skip(x, n) ELSE x
  BY SkippingReaders
<1> HIDE DEF q, n, y
<1>4. IsReader(r) /\ r.pos = q /\ r.size = 0 /\ r.object = <<>>
  <2>1. q \in Nat /\ q >= 1
    BY <1>2
  <2> QED BY <2>1, Readers
<1> DEFINE l == <<"version">>
<1>5. Len(l) = 1 /\ Over(ObjectAt(q, l), <<>>) = [v \in {"version"} |-> file[q]]
  BY <1>2, OneField
<1>6. Len(file) \in Nat
  BY DEF Begins
<1> HIDE DEF r, l
<1>7. /\ IsReader(x)
      /\ x.out = "ok" <=> r.pos + Len(l) <= Len(file) + 1
      /\ x.out = "ok" => /\ x.pos = r.pos + Len(l) /\ x.size = r.size + Len(l)
                         /\ x.object = Over(ObjectAt(r.pos, l), r.object)
  BY <1>4, <1>5, <1>6, FieldsAreRead DEF ReadUnit, l
<1>8. x.out = "ok" => q \in 1..Len(file) /\ file[q] = f[q]
  BY <1>2, <1>4, <1>5, <1>6, <1>7 DEF Begins
<1> HIDE DEF x
<1>9. CASE x.out # "ok"
  <2>1. y = x
    BY <1>3, <1>9
  <2>2. Len(file) # Len(f)
    BY <1>1, <1>2, <1>4, <1>5, <1>6, <1>7, <1>9
  <2> QED BY <1>7, <1>9, <2>1, <2>2 DEF y, n
<1>10. CASE x.out = "ok"
  <2>1. y = Skip(x, n) /\ x.size = 1 /\ x.pos = q + 1
    BY <1>2, <1>3, <1>4, <1>5, <1>7, <1>10
  <2>2. IsReader(y) /\ y.out = "ok" /\ y.object = x.object /\ y.pos = (q + 1) + (n - 1)
    BY <1>2, <1>7, <1>10, <2>1, Skipped
  <2>3. y.pos = e
    BY <1>1, <1>2, <2>2
  <2>4. y.object = [v \in {"version"} |-> f[q]]
    BY <1>4, <1>5, <1>7, <1>8, <1>10, <2>2
  <2>5. y.object.version = f[q]
    BY <2>4
  <2> QED BY <1>1, <2>2, <2>3, <2>5 DEF y, n
<1> QED BY <1>9, <1>10

(* So is the model, with what follows it in its section.                   *)
LEMMA ModelIsRead ==
    ASSUME NEW f, Begins(f), NEW m, NEW p \in Nat, p >= 1, NEW e, SectionLies(f, m, "MODL", p, e),
           e <= Len(f) + 1
    PROVE  SectionRead(ModelReader(p, e - p - HeaderSize), f, e, m.MODL)
<1> DEFINE q == p + HeaderSize
           n == e - p - HeaderSize
           x == ReadFields(Reader(q, <<>>), FieldsRead.MODL)
           y == ModelReader(p, n)
<1>1. e \in Nat /\ e >= p + HeaderSize
  BY DEF SectionLies
<1>2. PICK end \in Nat : end <= e /\ FieldsLie(f, q, end, m.MODL, FieldsRead.MODL)
  BY DEF SectionLies
<1>3. q \in Nat /\ q >= 1 /\ n \in Nat /\ n = e - q
  BY <1>1 DEF HeaderSize
<1>4. y = IF x.out = "ok" THEN Skip(x, n) ELSE x
  BY SkippingReaders
<1> HIDE DEF q, n, y
<1>5. "MODL" \in Plain
  BY PlainFields
<1>6. ReadObject("MODL", q, 0) = x
  BY DEF ReadObject
<1> HIDE DEF x
<1>7. IsRead(x, q, end, m.MODL)
  <2>1. FieldsLie(f, q, end, m.MODL, FieldsRead["MODL"])
    BY <1>2
  <2>2. IsRead(ReadObject("MODL", q, 0), q, end, m.MODL)
    BY <1>3, <1>5, <2>1, PlainIsRead
  <2> QED BY <1>6, <2>2
<1>8. IsReader(x) /\ Len(file) \in Nat /\ Len(f) \in Nat
  BY <1>7 DEF IsRead, Begins
<1>9. CASE x.out # "ok"
  <2>1. y = x
    BY <1>4, <1>9
  <2>2. Len(file) # Len(f)
    <3>1. ~ (end <= Len(file) + 1)
      BY <1>7, <1>9 DEF IsRead
    <3> QED BY <1>1, <1>2, <1>8, <3>1
  <2>3. SectionRead(y, f, e, m.MODL)
    BY <1>8, <1>9, <2>1, <2>2 DEF SectionRead
  <2> QED BY <2>3 DEF y, n
<1>10. CASE x.out = "ok"
  <2>1. x.pos = end /\ x.size = end - q /\ x.object = m.MODL /\ x.size \in Nat
    BY <1>7, <1>8, <1>10 DEF IsRead, IsReader
  <2>2. y = Skip(x, n)
    BY <1>4, <1>10
  <2>3. n >= end - q /\ end + (n - (end - q)) = e
    BY <1>1, <1>2, <1>3
  <2>4. IsReader(y) /\ y.out = "ok" /\ y.object = m.MODL
    BY <1>3, <1>8, <1>10, <2>1, <2>2, Skipped
  <2>5. n >= x.size => y.pos = x.pos + (n - x.size)
    BY <1>3, <1>8, <2>2, Skipped
  <2>6. y.pos = e
    BY <2>1, <2>3, <2>5
  <2>7. SectionRead(y, f, e, m.MODL)
    BY <2>4, <2>6 DEF SectionRead
  <2> QED BY <2>7 DEF y, n
<1> QED BY <1>9, <1>10

\* What reading a section of a model leaves behind.
SectionKept(x, f, m, s, e) ==
    /\ IsReader(x)
    /\ x.out = "ok" => x.pos = e /\ ValueOf(s, x) = m[s]
    /\ Len(file) = Len(f) => x.out = "ok"

(* Every section is read as it lies in the file.                           *)
LEMMA SectionIsRead ==
    ASSUME NEW f, Begins(f), NEW m, NEW s \in SectionSet, NEW p \in Nat, p >= 1, NEW e,
           SectionLies(f, m, s, p, e), e <= Len(f) + 1
    PROVE  /\ e \in Nat /\ e >= p + 2 /\ f[p] = Tag(s) /\ NumberIn(f[p + 1]) = e - p - HeaderSize
           /\ SectionKept(SectionReader(s, p, e - p - HeaderSize, m.VERS), f, m, s, e)
<1> DEFINE n == e - p - HeaderSize
           x == SectionReader(s, p, n, m.VERS)
<1>1. e \in Nat /\ e >= p + 2 /\ f[p] = Tag(s) /\ f[p + 1] = Num(n)
  BY DEF SectionLies, HeaderSize
<1>2. NumberIn(Num(n)) = n
  BY DEF NumberIn, Num
<1>3. CASE s = "VERS"
  <2> DEFINE y == VersionReader(p, n)
  <2>1. /\ IsReader(y)
        /\ y.out = "ok" => y.pos = e /\ NumberIn(y.object.version) = m.VERS
        /\ Len(file) = Len(f) => y.out = "ok"
    <3>1. SectionLies(f, m, "VERS", p, e)
      BY <1>3
    <3> QED BY <3>1, VersionIsRead
  <2>2. x = y
    BY <1>3 DEF SectionReader
  <2> HIDE DEF x, y
  <2>3. SectionKept(x, f, m, s, e)
    BY <1>3, <2>1, <2>2 DEF SectionKept, ValueOf
  <2> QED BY <1>1, <1>2, <2>3 DEF x, n
<1>4. CASE s = "MODL"
  <2> DEFINE y == ModelReader(p, n)
  <2>1. SectionRead(y, f, e, m.MODL)
    <3>1. SectionLies(f, m, "MODL", p, e)
      BY <1>4
    <3> QED BY <3>1, ModelIsRead
  <2>2. x = y
    BY <1>4 DEF SectionReader
  <2> HIDE DEF x, y
  <2>3. SectionKept(x, f, m, s, e)
    BY <1>4, <2>1, <2>2 DEF SectionKept, SectionRead, ValueOf
  <2> QED BY <1>1, <1>2, <2>3 DEF x, n
<1>5. CASE s \notin {"VERS", "MODL"}
  <2>1. PICK b : /\ ObjectsLie(f, s, m[s], b, m.VERS)
                 /\ b[0] = p + HeaderSize /\ b[Len(m[s])] = e
    BY <1>5 DEF SectionLies
  <2> DEFINE y == ReadObjects(s, b[0], n, m.VERS)
  <2>2. n = b[Len(m[s])] - b[0]
    BY <1>1, <2>1 DEF HeaderSize
  <2>3. b[Len(m[s])] <= Len(f) + 1
    BY <2>1
  <2> HIDE DEF n
  <2>4. SectionRead(y, f, b[Len(m[s])], m[s])
    BY <2>1, <2>2, <2>3, ObjectsAreRead
  <2>5. x = y
    BY <1>5, <2>1 DEF SectionReader
  <2> HIDE DEF x, y
  <2>6. SectionKept(x, f, m, s, e)
    BY <1>5, <2>1, <2>4, <2>5 DEF SectionKept, SectionRead, ValueOf
  <2> QED BY <1>1, <1>2, <2>6 DEF x, n
<1> QED BY <1>3, <1>4, <1>5

-----------------------------------------------------------------------------
(* Files.                                                                  *)

\* A model that lies in a file: its sections in order, each from at to ends or left out,
\* and between them units that are no tags of sections.
Many == Len(Sections)
FileLies(f, m, at, ends) ==
    /\ Len(f) \in Nat /\ Len(f) >= 1 /\ f[1] = Tag("MDLX")
    /\ m = [s \in SectionSet |-> m[s]]
    /\ at \in [1..Many + 1 -> Nat] /\ ends \in [0..Many -> Nat]
    /\ ends[0] = 2 /\ at[Many + 1] = Len(f) + 1
    /\ \A k \in 1..Many + 1 :
          /\ ends[k - 1] <= at[k]
          /\ \A p \in ends[k - 1]..at[k] - 1, s \in SectionSet : f[p] # Tag(s)
    /\ \A k \in 1..Many : \/ at[k] = ends[k] /\ m[Sections[k]] = EmptyModel[Sections[k]]
                          \/ SectionLies(f, m, Sections[k], at[k], ends[k])

(* The sections are ten.                                                   *)
LEMMA SectionsDiffer ==
    /\ Many = 10 /\ DOMAIN Sections = 1..Many /\ Sections[1] = "VERS"
    /\ \A i, j \in 1..Many : Sections[i] = Sections[j] => i = j
    /\ \A i \in 1..Many : Sections[i] \in SectionSet
    /\ \A s \in SectionSet : \E i \in 1..Many : Sections[i] = s
<1>1. /\ Many = 10 /\ DOMAIN Sections = 1..Many /\ Sections[1] = "VERS"
      /\ Sections[2] = "MODL" /\ Sections[3] = "SEQS" /\ Sections[4] = "GLBS"
      /\ Sections[5] = "MTLS" /\ Sections[6] = "TXAN" /\ Sections[7] = "GEOS"
      /\ Sections[8] = "TEXS" /\ Sections[9] = "SNDS" /\ Sections[10] = "PIVT"
  BY DEF Sections, Many
<1>2. \A i, j \in 1..10 : Sections[i] = Sections[j] => i = j
  <2> SUFFICES ASSUME NEW i \in 1..10, NEW j \in 1..10, Sections[i] = Sections[j]
               PROVE  i = j
    OBVIOUS
  <2>1. \A x \in 1..10 : \/ x = 1 \/ x = 2 \/ x = 3 \/ x = 4 \/ x = 5 \/ x = 6 \/ x = 7
                         \/ x = 8 \/ x = 9 \/ x = 10
    OBVIOUS
  <2> QED BY <1>1, <2>1
<1>3. \A i \in 1..Many : Sections[i] \in SectionSet
  BY <1>1 DEF SectionSet
<1>4. \A s \in SectionSet : \E i \in 1..Many : Sections[i] = s
  BY <1>1 DEF SectionSet
<1> QED BY <1>1, <1>2, <1>3, <1>4

\* The model of the sections before the k-th.
Before(m, k) ==
    [s \in SectionSet |-> IF \E i \in 1..k - 1 : Sections[i] = s THEN m[s] ELSE EmptyModel[s]]

(* It grows by one section.                                                *)
LEMMA BeforeGrows ==
    ASSUME NEW m, m = [s \in SectionSet |-> m[s]]
    PROVE  /\ Before(m, 1) = EmptyModel /\ Before(m, Many + 1) = m
           /\ \A k \in 1..Many :
                 Before(m, k + 1) = [Before(m, k) EXCEPT ![Sections[k]] = m[Sections[k]]]
           /\ \A k \in 1..Many : Before(m, k)[Sections[k]] = EmptyModel[Sections[k]]
           /\ \A k \in 2..Many + 1 : Before(m, k)["VERS"] = m["VERS"]
<1>1. Before(m, 1) = EmptyModel
  <2>1. \A s \in SectionSet : ~ \E i \in 1..1 - 1 : Sections[i] = s
    OBVIOUS
  <2> QED BY <2>1 DEF Before, EmptyModel
<1>2. Before(m, Many + 1) = m
  <2>1. (Many + 1) - 1 = Many
    BY SectionsDiffer
  <2>2. \A s \in SectionSet : \E i \in 1..(Many + 1) - 1 : Sections[i] = s
    BY <2>1, SectionsDiffer
  <2> QED BY <2>2 DEF Before
<1>3. ASSUME NEW k \in 1..Many
      PROVE  /\ Before(m, k + 1) = [Before(m, k) EXCEPT ![Sections[k]] = m[Sections[k]]]
             /\ Before(m, k)[Sections[k]] = EmptyModel[Sections[k]]
  <2>1. Sections[k] \in SectionSet /\ k \in Nat /\ (k + 1) - 1 = k
    BY SectionsDiffer
  <2>2. \A i \in 1..k : i \in 1..Many /\ (i \in 1..(k - 1) \/ i = k)
    BY SectionsDiffer
  <2>3. \A i \in 1..k - 1 : i \in 1..k /\ i # k
    BY SectionsDiffer
  <2>4. \A s \in SectionSet :
          (\E i \in 1..k : Sections[i] = s) <=> (s = Sections[k] \/ \E i \in 1..k - 1 : Sections[i] = s)
    <3>1. k \in 1..k
      BY <2>1
    <3> QED BY <2>2, <2>3, <3>1
  <2>5. \A s \in SectionSet :
          Before(m, k + 1)[s] = IF s = Sections[k] THEN m[s] ELSE Before(m, k)[s]
    BY <2>1, <2>4 DEF Before
  <2>6. Before(m, k + 1) = [Before(m, k) EXCEPT ![Sections[k]] = m[Sections[k]]]
    <3> DEFINE a == Before(m, k + 1)
               c == Before(m, k)
    <3>1. a = [s \in SectionSet |-> a[s]] /\ c = [s \in SectionSet |-> c[s]]
      BY DEF Before
    <3> HIDE DEF a, c
    <3>2. \A s \in SectionSet : a[s] = IF s = Sections[k] THEN m[s] ELSE c[s]
      BY <2>5 DEF a, c
    <3>3. a = [c EXCEPT ![Sections[k]] = m[Sections[k]]]
      BY <3>1, <3>2
    <3> QED BY <3>3 DEF a, c
  <2>7. ~ \E i \in 1..k - 1 : Sections[i] = Sections[k]
    BY <2>2, <2>3, SectionsDiffer
  <2> QED BY <2>1, <2>6, <2>7 DEF Before
<1>4. ASSUME NEW k \in 2..Many + 1 PROVE Before(m, k)["VERS"] = m["VERS"]
  <2>1. 1 \in 1..k - 1 /\ 1 \in 1..Many
    BY SectionsDiffer
  <2>2. Sections[1] = "VERS" /\ "VERS" \in SectionSet
    BY <2>1, SectionsDiffer
  <2> QED BY <2>1, <2>2 DEF Before
<1> QED BY <1>1, <1>2, <1>3, <1>4

(* The places of the sections rise, up to the end.                         *)
LEMMA FileRises ==
    ASSUME NEW f, NEW m, NEW at, NEW ends, FileLies(f, m, at, ends)
    PROVE  /\ \A k \in 1..Many : at[k] <= ends[k] /\ at[k] \in Nat /\ ends[k] \in Nat
           /\ \A k \in 1..Many + 1 : /\ at[k] \in Nat /\ ends[k - 1] \in Nat
                                     /\ ends[k - 1] <= at[k]
           /\ \A i, j \in 1..Many + 1 : i <= j => at[i] <= at[j]
           /\ \A k \in 1..Many + 1 : at[k] >= 2 /\ at[k] <= Len(f) + 1
           /\ \A k \in 1..Many : ends[k] <= Len(f) + 1
<1>1. Many \in Nat /\ Many = 10
  BY SectionsDiffer
<1>2. /\ at \in [1..Many + 1 -> Nat] /\ ends \in [0..Many -> Nat] /\ Len(f) \in Nat
      /\ ends[0] = 2 /\ at[Many + 1] = Len(f) + 1
      /\ \A k \in 1..Many + 1 : ends[k - 1] <= at[k]
      /\ \A k \in 1..Many : \/ at[k] = ends[k]
                            \/ SectionLies(f, m, Sections[k], at[k], ends[k])
  BY DEF FileLies
<1>3. ASSUME NEW k \in 1..Many
      PROVE  at[k] <= ends[k] /\ at[k] \in Nat /\ ends[k] \in Nat
  <2>1. k \in 0..Many /\ k \in 1..Many + 1
    BY <1>1
  <2>2. at[k] \in Nat /\ ends[k] \in Nat
    BY <1>2, <2>1
  <2>3. CASE at[k] = ends[k]
    BY <2>2, <2>3
  <2>4. CASE SectionLies(f, m, Sections[k], at[k], ends[k])
    <3>1. ends[k] >= at[k] + 2
      BY <2>4 DEF SectionLies, HeaderSize
    <3> QED BY <2>2, <3>1
  <2> QED BY <1>2, <2>2, <2>3, <2>4
<1>4. ASSUME NEW k \in 1..Many + 1
      PROVE  at[k] \in Nat /\ ends[k - 1] \in Nat /\ ends[k - 1] <= at[k]
  <2>1. k - 1 \in 0..Many
    BY <1>1
  <2> QED BY <1>2, <2>1
<1>5. ASSUME NEW i \in 1..Many + 1
      PROVE  \A j \in 1..Many + 1 : i <= j => at[i] <= at[j]
  <2> DEFINE Good == {j \in 0..Many + 1 : j >= i => at[i] <= at[j]}
  <2>1. 0 \in Good
    BY <1>1
  <2>2. ASSUME NEW j \in 0..(Many + 1) - 1, j \in Good PROVE j + 1 \in Good
    <3>1. j + 1 \in 0..Many + 1 /\ j + 1 \in 1..Many + 1 /\ (j + 1) - 1 = j /\ j \in Nat /\ j <= Many
      BY <1>1
    <3>2. CASE j + 1 = i
      BY <1>4, <3>1, <3>2
    <3>3. CASE j + 1 < i
      BY <3>1, <3>3
    <3>4. CASE j >= i
      <4>1. at[i] <= at[j] /\ j \in 1..Many
        BY <1>1, <2>2, <3>1, <3>4
      <4>2. at[j] <= ends[j] /\ ends[j] <= at[j + 1]
        BY <1>3, <1>4, <3>1, <4>1
      <4>3. at[i] \in Nat /\ at[j] \in Nat /\ ends[j] \in Nat /\ at[j + 1] \in Nat
        BY <1>3, <1>4, <3>1, <4>1
      <4> DEFINE x == at[i]
                 y == at[j]
                 z == ends[j]
                 w == at[j + 1]
      <4>4. x <= y /\ y <= z /\ z <= w /\ x \in Nat /\ y \in Nat /\ z \in Nat /\ w \in Nat
        BY <4>1, <4>2, <4>3
      <4> HIDE DEF x, y, z, w
      <4>5. x <= w
        BY <4>4
      <4> QED BY <3>1, <4>5 DEF x, w
    <3> QED BY <1>1, <3>1, <3>2, <3>3, <3>4
  <2> HIDE DEF Good
  <2>3. \A j \in 0..Many + 1 : j \in Good
    BY <1>1, <2>1, <2>2, InductionTo
  <2>4. \A j \in 1..Many + 1 : j \in 0..Many + 1
    BY <1>1
  <2> QED BY <2>3, <2>4 DEF Good
<1>6. ASSUME NEW k \in 1..Many + 1
      PROVE  at[k] >= 2 /\ at[k] <= Len(f) + 1
  <2>1. 1 \in 1..Many + 1 /\ Many + 1 \in 1..Many + 1 /\ 1 <= k /\ k <= Many + 1 /\ 1 - 1 = 0
    BY <1>1
  <2>2. at[1] <= at[k] /\ at[k] <= at[Many + 1] /\ ends[0] <= at[1]
    BY <1>4, <1>5, <2>1
  <2>3. at[1] \in Nat /\ at[k] \in Nat
    BY <1>4, <2>1
  <2> QED BY <1>2, <2>2, <2>3
<1>7. ASSUME NEW k \in 1..Many PROVE ends[k] <= Len(f) + 1
  <2>1. k + 1 \in 1..Many + 1 /\ (k + 1) - 1 = k
    BY <1>1
  <2>2. ends[k] <= at[k + 1] /\ at[k + 1] <= Len(f) + 1 /\ at[k + 1] \in Nat /\ ends[k] \in Nat
    BY <1>3, <1>4, <1>6, <2>1
  <2> QED BY <1>2, <2>2
<1> QED BY <1>3, <1>4, <1>5, <1>6, <1>7

\* The reader is behind the sections before the k-th, and has kept them.
ReadTo(m, at, ends, k, place, kept) ==
    /\ k \in 1..Many + 1 /\ place \in Nat
    /\ ends[k - 1] <= place /\ place <= at[k] /\ kept = Before(m, k)

(* So it is behind the sections that are left out.                         *)
LEMMA NextIsThere ==
    ASSUME NEW f, NEW m, NEW at, NEW ends, FileLies(f, m, at, ends),
           NEW k, NEW place, NEW kept, ReadTo(m, at, ends, k, place, kept)
    PROVE  \E j : /\ ReadTo(m, at, ends, j, place, kept)
                  /\ \/ place < at[j]
                     \/ j = Many + 1
                     \/ j \in 1..Many /\ SectionLies(f, m, Sections[j], at[j], ends[j])
<1> DEFINE There(j) == /\ ReadTo(m, at, ends, j, place, kept)
                       /\ \/ place < at[j]
                          \/ j = Many + 1
                          \/ j \in 1..Many /\ SectionLies(f, m, Sections[j], at[j], ends[j])
           Good == {i \in 0..Many : ReadTo(m, at, ends, (Many + 1) - i, place, kept)
                                       => \E j : There(j)}
<1>1. Many \in Nat /\ Many = 10 /\ place \in Nat
  BY SectionsDiffer DEF ReadTo
<1>2. 0 \in Good
  <2>1. 0 \in 0..Many /\ (Many + 1) - 0 = Many + 1
    BY <1>1
  <2> QED BY <2>1
<1>3. ASSUME NEW i \in 0..Many - 1, i \in Good PROVE i + 1 \in Good
  <2>1. i + 1 \in 0..Many
    BY <1>1
  <2> SUFFICES ASSUME ReadTo(m, at, ends, (Many + 1) - (i + 1), place, kept)
               PROVE  \E j : There(j)
    BY <2>1
  <2> DEFINE c == (Many + 1) - (i + 1)
  <2>2. c \in 1..Many /\ c + 1 = (Many + 1) - i /\ c \in 1..Many + 1 /\ c + 1 \in 1..Many + 1
        /\ (c + 1) - 1 = c
    BY <1>1
  <2>3. ReadTo(m, at, ends, c, place, kept)
    OBVIOUS
  <2> HIDE DEF c
  <2>4. place <= at[c] /\ at[c] \in Nat /\ ends[c] \in Nat /\ ends[c] <= at[c + 1] /\ at[c + 1] \in Nat
    BY <2>2, <2>3, FileRises DEF ReadTo
  <2>5. CASE place < at[c] \/ SectionLies(f, m, Sections[c], at[c], ends[c])
    <3>1. There(c)
      BY <2>2, <2>3, <2>5
    <3> QED BY <3>1
  <2>6. CASE place = at[c] /\ ~ SectionLies(f, m, Sections[c], at[c], ends[c])
    <3>1. at[c] = ends[c] /\ m[Sections[c]] = EmptyModel[Sections[c]]
      BY <2>2, <2>6 DEF FileLies
    <3>2. m = [s \in SectionSet |-> m[s]]
      BY DEF FileLies
    <3>3. /\ Before(m, c + 1) = [Before(m, c) EXCEPT ![Sections[c]] = m[Sections[c]]]
          /\ Before(m, c)[Sections[c]] = EmptyModel[Sections[c]]
      BY <2>2, <3>2, BeforeGrows
    <3>4. Before(m, c + 1) = Before(m, c)
      <4> DEFINE v == Before(m, c)
      <4>1. v = [s \in SectionSet |-> v[s]]
        BY DEF Before
      <4> HIDE DEF v
      <4>2. [v EXCEPT ![Sections[c]] = v[Sections[c]]] = v
        BY <4>1
      <4> QED BY <3>1, <3>3, <4>2 DEF v
    <3>5. ReadTo(m, at, ends, c + 1, place, kept)
      BY <1>1, <2>2, <2>3, <2>4, <2>6, <3>1, <3>4 DEF ReadTo
    <3> QED BY <1>3, <2>2, <3>5
  <2> QED BY <1>1, <2>4, <2>5, <2>6
<1> HIDE DEF Good, There
<1>4. \A i \in 0..Many : i \in Good
  BY <1>1, <1>2, <1>3, InductionTo
<1>5. (Many + 1) - k \in 0..Many /\ (Many + 1) - ((Many + 1) - k) = k
  BY <1>1 DEF ReadTo
<1>6. \E j : There(j)
  <2>1. (Many + 1) - k \in Good
    BY <1>4, <1>5
  <2> QED BY <1>5, <2>1 DEF Good
<1> QED BY <1>6 DEF There

(* Where no section has room any more, all are read.                       *)
LEMMA NoneIsLeft ==
    ASSUME NEW f, NEW m, NEW at, NEW ends, FileLies(f, m, at, ends),
           NEW k \in 1..Many + 1, at[k] >= Len(f)
    PROVE  Before(m, k) = m
<1>1. Many \in Nat /\ Len(f) \in Nat /\ m = [s \in SectionSet |-> m[s]]
  BY SectionsDiffer DEF FileLies
<1>2. ASSUME NEW j \in 1..Many, j >= k PROVE m[Sections[j]] = EmptyModel[Sections[j]]
  <2>1. j \in 1..Many + 1
    BY <1>1
  <2>2. at[k] <= at[j] /\ at[j] \in Nat /\ at[k] \in Nat /\ ends[j] \in Nat /\ ends[j] <= Len(f) + 1
    BY <1>2, <2>1, FileRises
  <2>3. ~ SectionLies(f, m, Sections[j], at[j], ends[j])
    <3>1. SectionLies(f, m, Sections[j], at[j], ends[j]) => ends[j] >= at[j] + 2
      BY DEF SectionLies, HeaderSize
    <3> QED BY <1>1, <2>2, <3>1
  <2> QED BY <2>3 DEF FileLies
<1>3. ASSUME NEW s \in SectionSet PROVE Before(m, k)[s] = m[s]
  <2>1. PICK j \in 1..Many : Sections[j] = s
    BY SectionsDiffer
  <2>2. CASE j >= k
    BY <1>2, <2>1, <2>2 DEF Before
  <2>3. CASE ~ (j >= k)
    <3>1. j \in 1..k - 1
      BY <1>1, <2>3
    <3> QED BY <2>1, <3>1 DEF Before
  <2> QED BY <2>2, <2>3
<1>4. Before(m, k) = [s \in SectionSet |-> m[s]]
  <2> DEFINE v == Before(m, k)
  <2>1. v = [s \in SectionSet |-> v[s]]
    BY DEF Before
  <2> HIDE DEF v
  <2>2. \A s \in SectionSet : v[s] = m[s]
    BY <1>3 DEF v
  <2>3. v = [s \in SectionSet |-> m[s]]
    BY <2>1, <2>2
  <2> QED BY <2>3 DEF v
<1> QED BY <1>1, <1>4

-----------------------------------------------------------------------------
(* The invariant.                                                          *)

\* The file is the beginning of one the model lies in, all of it unless it was cut; what
\* was read are the first sections.
Lies(f, at, ends) ==
    /\ FileLies(f, model, at, ends) /\ Begins(f) /\ (~cut => Len(file) = Len(f))
    /\ outcome = "reading" => \E k : ReadTo(model, at, ends, k, pos, got)
    /\ outcome = "ok" => /\ \E k \in 1..Many + 1 : got = Before(model, k)
                         /\ Len(file) = Len(f) => got = model
    /\ outcome = "thrown" => Len(file) # Len(f)
    /\ outcome # "crashed"

\* So is every file that one of these made.
ReadingInv(known) ==
    /\ outcome \in {"none", "reading", "ok", "thrown", "crashed"}
    /\ by = "none" => outcome = "none" /\ ~cut
    /\ cut => by \in {"saved", "shipped"}
    /\ outcome = "none" => pos = 1 /\ got = EmptyModel
    /\ by \in known => \E f, at, ends : Lies(f, at, ends)

(* The tag at the beginning.                                               *)
LEMMA MagicIsRead ==
    ASSUME NEW f, Begins(f), f[1] = Tag("MDLX")
    PROVE  IF Len(file) >= 1
           THEN ReadTag(Reader(1, <<>>), "MDLX").out = "ok"
                /\ ReadTag(Reader(1, <<>>), "MDLX").pos = 2
           ELSE ReadTag(Reader(1, <<>>), "MDLX").out = "thrown"
<1> DEFINE r == Reader(1, <<>>)
           x == ReadUnit(r, "tag")
           y == ReadTag(r, "MDLX")
           Checked(next) == IF next.object.tag = Tag("MDLX") THEN next ELSE Threw(next)
           S == {IF z.out = "ok" THEN Checked(z) ELSE z : z \in {x}}
           l == <<"tag">>
<1>1. y = CHOOSE z \in S : TRUE
  BY Zenon DEF ReadTag, Then, S, x, Checked
<1>2. IsReader(r) /\ r.pos = 1 /\ r.object = <<>>
  <2>1. 1 \in Nat /\ 1 >= 1
    OBVIOUS
  <2> QED BY <2>1, Readers
<1>3. Len(l) = 1 /\ Over(ObjectAt(1, l), <<>>) = [v \in {"tag"} |-> file[1]]
  <2>1. 1 \in Nat
    OBVIOUS
  <2> QED BY <2>1, OneField
<1>4. Len(file) \in Nat
  BY DEF Begins
<1> HIDE DEF r, l
<1>5. /\ x.out = "ok" <=> r.pos + Len(l) <= Len(file) + 1
      /\ x.out = "ok" => /\ x.pos = r.pos + Len(l)
                         /\ x.object = Over(ObjectAt(r.pos, l), r.object)
      /\ IsReader(x)
  BY <1>2, <1>3, <1>4, FieldsAreRead DEF ReadUnit, l
<1> HIDE DEF x
<1>6. S = {IF x.out = "ok" THEN Checked(x) ELSE x}
  OBVIOUS
<1> HIDE DEF S
<1>7. y = IF x.out = "ok" THEN Checked(x) ELSE x
  BY <1>1, <1>6, OnlyMember
<1> HIDE DEF y
<1>8. CASE Len(file) >= 1
  <2>1. x.out = "ok" /\ x.pos = 2 /\ x.object = [v \in {"tag"} |-> file[1]]
    BY <1>2, <1>3, <1>4, <1>5, <1>8
  <2>2. file[1] = Tag("MDLX")
    BY <1>4, <1>8 DEF Begins
  <2>3. y = x
    BY <1>7, <2>1, <2>2
  <2> QED BY <1>8, <2>1, <2>3 DEF y, r
<1>9. CASE ~ (Len(file) >= 1)
  <2>1. x.out # "ok"
    BY <1>2, <1>3, <1>4, <1>5, <1>9
  <2>2. y = x /\ x.out = "thrown"
    BY <1>5, <1>7, <2>1 DEF IsReader
  <2> QED BY <1>9, <2>2 DEF y, r
<1> QED BY <1>8, <1>9

(* The three kinds of sections are read alike.                             *)
LEMMA SectionSteps ==
    ASSUME ReadVersion \/ ReadModel \/ ReadSection
    PROVE  /\ AtHeader /\ UNCHANGED <<model, file, by, cut>>
           /\ \E s \in SectionSet : \E x :
                /\ HeaderTag = Tag(s) /\ x = SectionReader(s, pos, HeaderLength, got.VERS)
                /\ pos' = x.pos
                /\ IF x.out = "ok" THEN got' = [got EXCEPT ![s] = ValueOf(s, x)] /\ UNCHANGED outcome
                   ELSE outcome' = "thrown" /\ UNCHANGED got
<1>0. "VERS" \in SectionSet /\ "MODL" \in SectionSet
  BY DEF SectionSet, Sections
<1>1. CASE ReadVersion
  <2> DEFINE x == VersionReader(pos, HeaderLength)
  <2>1. /\ AtHeader /\ UNCHANGED <<model, file, by, cut>> /\ HeaderTag = Tag("VERS")
        /\ pos' = x.pos
        /\ IF x.out = "ok"
           THEN got' = [got EXCEPT !["VERS"] = NumberIn(x.object.version)] /\ UNCHANGED outcome
           ELSE outcome' = "thrown" /\ UNCHANGED got
    BY <1>1, Zenon DEF ReadVersion, Advance, VersionReader
  <2>2. x = SectionReader("VERS", pos, HeaderLength, got.VERS)
    BY DEF SectionReader
  <2>3. ValueOf("VERS", x) = NumberIn(x.object.version)
    BY DEF ValueOf
  <2> HIDE DEF x
  <2> QED BY <1>0, <2>1, <2>2, <2>3
<1>2. CASE ReadModel
  <2> DEFINE x == ModelReader(pos, HeaderLength)
  <2>1. /\ AtHeader /\ UNCHANGED <<model, file, by, cut>> /\ HeaderTag = Tag("MODL")
        /\ pos' = x.pos
        /\ IF x.out = "ok" THEN got' = [got EXCEPT !["MODL"] = x.object] /\ UNCHANGED outcome
           ELSE outcome' = "thrown" /\ UNCHANGED got
    BY <1>2, Zenon DEF ReadModel, Advance, ModelReader, Whole
  <2>2. x = SectionReader("MODL", pos, HeaderLength, got.VERS)
    BY DEF SectionReader
  <2>3. ValueOf("MODL", x) = x.object
    BY DEF ValueOf
  <2> HIDE DEF x
  <2> QED BY <1>0, <2>1, <2>2, <2>3
<1>3. CASE ReadSection
  <2>1. PICK s \in SectionSet \ {"VERS", "MODL"} :
          /\ HeaderTag = Tag(s)
          /\ Advance(ReadObjects(s, pos + HeaderSize, HeaderLength, got.VERS), s, Whole)
    BY <1>3 DEF ReadSection
  <2> DEFINE x == ReadObjects(s, pos + HeaderSize, HeaderLength, got.VERS)
  <2>2. /\ UNCHANGED <<model, file, by, cut>>
        /\ pos' = x.pos
        /\ IF x.out = "ok" THEN got' = [got EXCEPT ![s] = x.object] /\ UNCHANGED outcome
           ELSE outcome' = "thrown" /\ UNCHANGED got
    BY <2>1, Zenon DEF Advance, Whole
  <2>3. x = SectionReader(s, pos, HeaderLength, got.VERS)
    BY DEF SectionReader
  <2>4. ValueOf(s, x) = x.object
    BY DEF ValueOf
  <2>5. AtHeader
    BY <1>3 DEF ReadSection
  <2> HIDE DEF x
  <2> QED BY <2>1, <2>2, <2>3, <2>4, <2>5
<1> QED BY <1>1, <1>2, <1>3

(* The reader starts.                                                      *)
LEMMA StartKeeps ==
    ASSUME NEW f, NEW at, NEW ends, Lies(f, at, ends), Start, pos = 1, got = EmptyModel
    PROVE  Lies(f, at, ends)'
<1> DEFINE y == ReadTag(Reader(1, <<>>), "MDLX")
<1>1. FileLies(f, model, at, ends) /\ Begins(f) /\ (~cut => Len(file) = Len(f))
  BY DEF Lies
<1>2. /\ outcome' = (IF y.out = "ok" THEN "reading" ELSE "thrown") /\ pos' = y.pos
      /\ UNCHANGED <<model, file, by, cut, got>>
  BY DEF Start
<1>3. f[1] = Tag("MDLX") /\ Len(f) \in Nat /\ Len(f) >= 1 /\ model = [s \in SectionSet |-> model[s]]
  BY <1>1 DEF FileLies
<1>4. IF Len(file) >= 1 THEN y.out = "ok" /\ y.pos = 2 ELSE y.out = "thrown"
  BY <1>1, <1>3, MagicIsRead
<1> HIDE DEF y
<1>5. FileLies(f, model', at, ends) /\ Begins(f)' /\ (~cut' => Len(file') = Len(f))
  BY <1>1, <1>2 DEF Begins
<1>6. CASE Len(file) >= 1
  <2>1. outcome' = "reading" /\ pos' = 2
    BY <1>2, <1>4, <1>6
  <2>2. ReadTo(model', at, ends, 1, pos', got')
    <3>1. 1 \in 1..Many + 1 /\ 1 - 1 = 0
      BY SectionsDiffer
    <3>2. ends[0] = 2 /\ 2 <= at[1]
      BY <1>1, <3>1, FileRises DEF FileLies
    <3>3. got' = Before(model', 1)
      BY <1>2, <1>3, BeforeGrows
    <3> QED BY <2>1, <3>1, <3>2, <3>3 DEF ReadTo
  <2> QED BY <1>5, <2>1, <2>2 DEF Lies
<1>7. CASE ~ (Len(file) >= 1)
  <2>1. outcome' = "thrown" /\ Len(file') # Len(f)
    BY <1>2, <1>3, <1>4, <1>7
  <2> QED BY <1>5, <2>1 DEF Lies
<1> QED BY <1>6, <1>7

(* A header that is there starts the next section, or no section.          *)
LEMMA HeaderIsNext ==
    ASSUME NEW f, NEW at, NEW ends, Lies(f, at, ends), AtHeader
    PROVE  /\ Len(file) \in Nat /\ Len(f) \in Nat /\ pos \in Nat /\ pos >= 2
           /\ \E j : /\ ReadTo(model, at, ends, j, pos, got)
                     /\ \/ pos < at[j] /\ \A s \in SectionSet : HeaderTag # Tag(s)
                        \/ /\ j \in 1..Many /\ pos = at[j]
                           /\ SectionLies(f, model, Sections[j], pos, ends[j])
                           /\ HeaderTag = Tag(Sections[j])
                           /\ HeaderLength = ends[j] - pos - HeaderSize
<1>1. FileLies(f, model, at, ends) /\ Begins(f) /\ outcome = "reading"
  BY DEF Lies, AtHeader
<1>2. PICK k : ReadTo(model, at, ends, k, pos, got)
  BY <1>1 DEF Lies
<1>3. PICK j : /\ ReadTo(model, at, ends, j, pos, got)
               /\ \/ pos < at[j]
                  \/ j = Many + 1
                  \/ j \in 1..Many /\ SectionLies(f, model, Sections[j], at[j], ends[j])
  BY <1>1, <1>2, NextIsThere
<1>4. /\ Len(file) \in Nat /\ Len(f) \in Nat /\ pos \in Nat /\ pos + 2 <= Len(file) + 1
      /\ Len(file) <= Len(f) /\ \A i \in 1..Len(file) : file[i] = f[i]
  BY <1>1, <1>2 DEF AtHeader, HeaderSize, Begins, ReadTo
<1>5. /\ j \in 1..Many + 1 /\ at[j] \in Nat /\ ends[j - 1] \in Nat /\ ends[j - 1] <= pos /\ pos <= at[j]
      /\ Many = 10 /\ at[Many + 1] = Len(f) + 1
  <2>1. j \in 1..Many + 1 /\ ends[j - 1] <= pos /\ pos <= at[j]
    BY <1>3 DEF ReadTo
  <2>2. at[j] \in Nat /\ ends[j - 1] \in Nat
    BY <1>1, <2>1, FileRises
  <2>3. at[Many + 1] = Len(f) + 1
    BY <1>1 DEF FileLies
  <2> QED BY <2>1, <2>2, <2>3, SectionsDiffer
<1>6. pos >= 2
  <2>1. CASE j = 1
    <3>1. ends[j - 1] = 2
      BY <1>1, <2>1 DEF FileLies
    <3> QED BY <1>4, <1>5, <3>1
  <2>2. CASE j # 1
    <3>1. j - 1 \in 1..Many + 1 /\ j - 1 \in 1..Many
      BY <1>5, <2>2
    <3>2. at[j - 1] >= 2 /\ at[j - 1] <= ends[j - 1] /\ at[j - 1] \in Nat
      BY <1>1, <3>1, FileRises
    <3> QED BY <1>4, <1>5, <3>2
  <2> QED BY <2>1, <2>2
<1>7. /\ pos \in 1..Len(file) /\ pos + 1 \in 1..Len(file)
      /\ HeaderTag = f[pos] /\ file[pos + 1] = f[pos + 1]
  BY <1>4, <1>6 DEF HeaderTag
<1>8. CASE pos < at[j]
  <2>1. pos \in ends[j - 1]..at[j] - 1
    BY <1>4, <1>5, <1>8
  <2>2. \A s \in SectionSet : f[pos] # Tag(s)
    BY <1>1, <1>5, <2>1 DEF FileLies
  <2> QED BY <1>3, <1>4, <1>6, <1>7, <1>8, <2>2
<1>9. CASE pos = at[j]
  <2>1. j # Many + 1
    BY <1>4, <1>5, <1>9
  <2>2. j \in 1..Many /\ SectionLies(f, model, Sections[j], pos, ends[j])
    BY <1>3, <1>4, <1>5, <1>9, <2>1
  <2>3. f[pos] = Tag(Sections[j]) /\ f[pos + 1] = Num(ends[j] - pos - HeaderSize)
    BY <2>2 DEF SectionLies
  <2>4. HeaderLength = ends[j] - pos - HeaderSize
    <3> DEFINE n == ends[j] - pos - HeaderSize
    <3>1. NumberIn(Num(n)) = n
      BY DEF NumberIn, Num
    <3> HIDE DEF n
    <3>2. HeaderLength = n
      BY <1>7, <2>3, <3>1 DEF HeaderLength, n
    <3> QED BY <3>2 DEF n
  <2> QED BY <1>3, <1>4, <1>6, <1>7, <1>9, <2>2, <2>3, <2>4
<1> QED BY <1>4, <1>5, <1>8, <1>9

(* A section is read.                                                      *)
LEMMA SectionKeeps ==
    ASSUME NEW f, NEW at, NEW ends, Lies(f, at, ends), ReadVersion \/ ReadModel \/ ReadSection
    PROVE  Lies(f, at, ends)' /\ outcome' \in {"reading", "thrown"}
<1>1. AtHeader /\ UNCHANGED <<model, file, by, cut>>
  BY SectionSteps
<1>2. PICK s \in SectionSet, x \in {SectionReader(t, pos, HeaderLength, got.VERS) : t \in SectionSet} :
        /\ HeaderTag = Tag(s) /\ x = SectionReader(s, pos, HeaderLength, got.VERS)
        /\ pos' = x.pos
        /\ IF x.out = "ok" THEN got' = [got EXCEPT ![s] = ValueOf(s, x)] /\ UNCHANGED outcome
           ELSE outcome' = "thrown" /\ UNCHANGED got
  BY SectionSteps
<1>3. /\ FileLies(f, model, at, ends) /\ Begins(f) /\ (~cut => Len(file) = Len(f))
      /\ outcome = "reading" /\ model = [t \in SectionSet |-> model[t]]
  BY <1>1 DEF Lies, AtHeader, FileLies
<1>4. FileLies(f, model', at, ends) /\ Begins(f)' /\ (~cut' => Len(file') = Len(f))
      /\ Len(file') = Len(file)
  BY <1>1, <1>3 DEF Begins
<1>5. pos \in Nat /\ pos >= 2
  BY <1>1, HeaderIsNext
<1>6. PICK j : /\ ReadTo(model, at, ends, j, pos, got)
               /\ \/ pos < at[j] /\ \A t \in SectionSet : HeaderTag # Tag(t)
                  \/ /\ j \in 1..Many /\ pos = at[j]
                     /\ SectionLies(f, model, Sections[j], pos, ends[j])
                     /\ HeaderTag = Tag(Sections[j])
                     /\ HeaderLength = ends[j] - pos - HeaderSize
  BY <1>1, HeaderIsNext
<1>7. /\ j \in 1..Many /\ pos = at[j] /\ SectionLies(f, model, Sections[j], pos, ends[j])
      /\ Tag(s) = Tag(Sections[j]) /\ HeaderLength = ends[j] - pos - HeaderSize
      /\ got = Before(model, j)
  BY <1>2, <1>6 DEF ReadTo
<1>8. s = Sections[j]
  BY <1>7 DEF Tag
<1>9. x = SectionReader(s, pos, ends[j] - pos - HeaderSize, model.VERS)
  <2>1. CASE j = 1
    <3>1. s = "VERS"
      BY <1>8, <2>1, SectionsDiffer
    <3> QED BY <1>2, <1>7, <3>1 DEF SectionReader
  <2>2. CASE j # 1
    <3>1. j \in 2..Many + 1
      BY <1>7, <2>2, SectionsDiffer
    <3>2. got.VERS = model.VERS
      BY <1>3, <1>7, <3>1, BeforeGrows
    <3> QED BY <1>2, <1>7, <3>2
  <2> QED BY <2>1, <2>2
<1>10. ends[j] <= Len(f) + 1 /\ ends[j] \in Nat
  BY <1>3, <1>7, FileRises
<1>11. SectionKept(x, f, model, s, ends[j])
  <2>1. pos \in Nat /\ pos >= 1 /\ SectionLies(f, model, s, pos, ends[j]) /\ ends[j] <= Len(f) + 1
    BY <1>5, <1>7, <1>8, <1>10
  <2>2. SectionKept(SectionReader(s, pos, ends[j] - pos - HeaderSize, model.VERS),
                    f, model, s, ends[j])
    BY <1>3, <2>1, SectionIsRead
  <2> QED BY <1>9, <2>2
<1>12. CASE x.out = "ok"
  <2>1. pos' = ends[j] /\ got' = [got EXCEPT ![s] = model[s]] /\ outcome' = "reading"
    BY <1>2, <1>3, <1>11, <1>12 DEF SectionKept
  <2>2. j + 1 \in 1..Many + 1 /\ (j + 1) - 1 = j
    BY <1>7, SectionsDiffer
  <2>3. Before(model, j + 1) = [Before(model, j) EXCEPT ![Sections[j]] = model[Sections[j]]]
    BY <1>3, <1>7, BeforeGrows
  <2>4. got' = Before(model', j + 1)
    BY <1>1, <1>7, <1>8, <2>1, <2>3
  <2>5. ends[j] <= at[j + 1]
    <3>1. ends[(j + 1) - 1] <= at[j + 1]
      BY <1>3, <2>2, FileRises
    <3> QED BY <2>2, <3>1
  <2>6. ReadTo(model', at, ends, j + 1, pos', got')
    <3>1. pos' \in Nat /\ ends[(j + 1) - 1] = pos' /\ pos' <= at[j + 1] /\ pos' <= pos'
      BY <1>10, <2>1, <2>2, <2>5
    <3> DEFINE i == j + 1
               place == pos'
               kept == got'
    <3>2. /\ i \in 1..Many + 1 /\ place \in Nat /\ ends[i - 1] <= place /\ place <= at[i]
          /\ kept = Before(model', i)
      BY <2>2, <2>4, <3>1
    <3> HIDE DEF i, place, kept
    <3>3. ReadTo(model', at, ends, i, place, kept)
      BY <3>2 DEF ReadTo
    <3> QED BY <3>3 DEF i, place, kept
  <2> QED BY <1>4, <2>1, <2>6 DEF Lies
<1>13. CASE x.out # "ok"
  <2>1. outcome' = "thrown" /\ Len(file) # Len(f)
    BY <1>2, <1>11, <1>13 DEF SectionKept
  <2> QED BY <1>4, <2>1 DEF Lies
<1> QED BY <1>12, <1>13

(* A unit that starts no section is skipped, or ends the file.             *)
LEMMA SkipKeeps ==
    ASSUME NEW f, NEW at, NEW ends, Lies(f, at, ends), SkipUnknown
    PROVE  Lies(f, at, ends)' /\ outcome' \in {"reading", "ok"}
<1>1. /\ AtHeader /\ \A s \in SectionSet : HeaderTag # Tag(s)
      /\ UNCHANGED <<model, file, by, cut, got>>
      /\ IF pos + HeaderSize <= Len(file) THEN pos' = pos + 1 /\ UNCHANGED outcome
         ELSE outcome' = "ok" /\ UNCHANGED pos
  BY DEF SkipUnknown
<1>2. /\ FileLies(f, model, at, ends) /\ Begins(f) /\ (~cut => Len(file) = Len(f))
      /\ outcome = "reading"
  BY <1>1 DEF Lies, AtHeader
<1>3. FileLies(f, model', at, ends) /\ Begins(f)' /\ (~cut' => Len(file') = Len(f))
      /\ Len(file') = Len(file)
  BY <1>1, <1>2 DEF Begins
<1>4. Len(file) \in Nat /\ Len(f) \in Nat /\ pos \in Nat /\ pos >= 2
  BY <1>1, HeaderIsNext
<1>5. PICK j : /\ ReadTo(model, at, ends, j, pos, got)
               /\ \/ pos < at[j] /\ \A t \in SectionSet : HeaderTag # Tag(t)
                  \/ /\ j \in 1..Many /\ pos = at[j]
                     /\ SectionLies(f, model, Sections[j], pos, ends[j])
                     /\ HeaderTag = Tag(Sections[j])
                     /\ HeaderLength = ends[j] - pos - HeaderSize
  BY <1>1, HeaderIsNext
<1>6. pos < at[j]
  BY <1>1, <1>5, SectionsDiffer
<1>7. j \in 1..Many + 1 /\ ends[j - 1] <= pos /\ got = Before(model, j)
  BY <1>5 DEF ReadTo
<1>8. at[j] \in Nat /\ ends[j - 1] \in Nat
  BY <1>2, <1>7, FileRises
<1>9. CASE pos + HeaderSize <= Len(file)
  <2>1. pos' = pos + 1 /\ outcome' = "reading" /\ got' = Before(model', j)
    BY <1>1, <1>2, <1>7, <1>9
  <2>2. pos' \in Nat /\ ends[j - 1] <= pos' /\ pos' <= at[j]
    BY <1>4, <1>6, <1>7, <1>8, <2>1
  <2>3. ReadTo(model', at, ends, j, pos', got')
    BY <1>7, <2>1, <2>2 DEF ReadTo
  <2> QED BY <1>3, <2>1, <2>3 DEF Lies
<1>10. CASE ~ (pos + HeaderSize <= Len(file))
  <2>1. outcome' = "ok" /\ got' = Before(model', j)
    BY <1>1, <1>7, <1>10
  <2>2. ASSUME Len(file) = Len(f) PROVE got' = model'
    <3>1. at[j] >= Len(f)
      BY <1>4, <1>6, <1>8, <1>10, <2>2 DEF HeaderSize
    <3>2. Before(model, j) = model
      BY <1>2, <1>7, <3>1, NoneIsLeft
    <3> QED BY <1>1, <2>1, <3>2
  <2> QED BY <1>3, <1>7, <2>1, <2>2 DEF Lies
<1> QED BY <1>9, <1>10

(* No geoset lies in such a file: a section of them is empty.              *)
LEMMA NoGeosetsLie ==
    ASSUME NEW f, NEW at, NEW ends, ReadOutOfRange
    PROVE  ~ Lies(f, at, ends)
<1> SUFFICES ASSUME Lies(f, at, ends) PROVE FALSE
  OBVIOUS
<1>1. AtHeader /\ HeaderTag = Tag("GEOS") /\ HeaderLength # 0
  BY DEF ReadOutOfRange
<1>2. "GEOS" \in SectionSet /\ Sections[7] = "GEOS"
  BY DEF SectionSet, Sections
<1>3. FileLies(f, model, at, ends) /\ Begins(f)
  BY DEF Lies
<1>4. pos \in Nat
  BY <1>1, HeaderIsNext
<1>5. PICK j \in 1..Many : /\ SectionLies(f, model, Sections[j], pos, ends[j])
                           /\ HeaderTag = Tag(Sections[j])
                           /\ HeaderLength = ends[j] - pos - HeaderSize
  BY <1>1, <1>2, HeaderIsNext
<1>6. Sections[j] = "GEOS"
  BY <1>1, <1>5 DEF Tag
<1>7. PICK b : /\ ObjectsLie(f, "GEOS", model["GEOS"], b, model.VERS)
               /\ b[0] = pos + HeaderSize /\ b[Len(model["GEOS"])] = ends[j]
  BY <1>5, <1>6 DEF SectionLies
<1> DEFINE list == model["GEOS"]
           n == Len(list)
<1>8. n \in Nat /\ \A k \in 1..n : ObjectLies(f, "GEOS", b[k - 1], b[k], list[k], model.VERS)
  BY <1>7 DEF ObjectsLie, IsList
<1>9. "GEOS" \notin Plain
  BY DEF Plain, FieldsRead
<1>10. \A p, e, object, version : ~ ObjectLies(f, "GEOS", p, e, object, version)
  BY <1>9 DEF ObjectLies
<1> HIDE DEF n, list
<1>11. n = 0
  <2>1. n \notin 1..n
    BY <1>8, <1>10
  <2> QED BY <1>8, <2>1
<1>12. ends[j] = pos + HeaderSize
  BY <1>7, <1>11 DEF n, list
<1> QED BY <1>1, <1>4, <1>5, <1>12 DEF HeaderSize

(* The file ends.                                                          *)
LEMMA FinishKeeps ==
    ASSUME NEW f, NEW at, NEW ends, Lies(f, at, ends), Finish
    PROVE  Lies(f, at, ends)'
<1>1. /\ outcome = "reading" /\ ~ AtHeader /\ outcome' = "ok"
      /\ UNCHANGED <<model, file, by, cut, pos, got>>
  BY DEF Finish
<1>2. FileLies(f, model, at, ends) /\ Begins(f) /\ (~cut => Len(file) = Len(f))
  BY DEF Lies
<1>3. FileLies(f, model', at, ends) /\ Begins(f)' /\ (~cut' => Len(file') = Len(f))
      /\ Len(file') = Len(file)
  BY <1>1, <1>2 DEF Begins
<1>4. PICK k : ReadTo(model, at, ends, k, pos, got)
  BY <1>1 DEF Lies
<1>5. k \in 1..Many + 1 /\ pos \in Nat /\ pos <= at[k] /\ got = Before(model, k)
  BY <1>4 DEF ReadTo
<1>6. at[k] \in Nat /\ Len(file) \in Nat /\ Len(f) \in Nat
  BY <1>2, <1>5, FileRises DEF Begins
<1>7. ASSUME Len(file) = Len(f) PROVE got' = model'
  <2>1. ~ (pos + 2 <= Len(file) + 1)
    BY <1>1 DEF AtHeader, HeaderSize
  <2>2. at[k] >= Len(f)
    BY <1>5, <1>6, <1>7, <2>1
  <2>3. Before(model, k) = model
    BY <1>2, <1>5, <2>2, NoneIsLeft
  <2> QED BY <1>1, <1>5, <2>3
<1>8. got' = Before(model', k)
  BY <1>1, <1>5
<1> QED BY <1>1, <1>3, <1>5, <1>7, <1>8 DEF Lies

(* The file loses its end.                                                 *)
LEMMA LoseKeeps ==
    ASSUME NEW f, NEW at, NEW ends, Lies(f, at, ends), Lose
    PROVE  Lies(f, at, ends)'
<1>1. /\ outcome = "none" /\ UNCHANGED <<model, by, pos, got, outcome>> /\ cut' = TRUE
  BY DEF Lose
<1>2. PICK k \in 0..(Len(file) - 1) : file' = SubSeq(file, 1, k)
  BY DEF Lose
<1>3. FileLies(f, model, at, ends) /\ Begins(f)
  BY DEF Lies
<1>4. Len(f) \in Nat /\ Len(file) \in 0..Len(f) /\ \A i \in 1..Len(file) : file[i] = f[i]
  BY <1>3 DEF Begins
<1>5. Len(file') = k /\ \A i \in 1..k : file'[i] = file[i]
  <2> DEFINE U == {file[i] : i \in 1..Len(file)}
             w == file
  <2>1. \A i \in 1..k : i \in 1..Len(file)
    BY <1>2, <1>4
  <2>2. \A i \in 1..k : w[i] \in U
    BY <2>1
  <2>3. k \in Int /\ 1 \in Int /\ k \in Nat
    BY <1>4
  <2> HIDE DEF U, w
  <2>4. /\ Len(SubSeq(w, 1, k)) = IF 1 <= k THEN k - 1 + 1 ELSE 0
        /\ \A i \in 1..k - 1 + 1 : SubSeq(w, 1, k)[i] = w[1 + i - 1]
    BY <2>2, <2>3, SubSeqProperties
  <2>5. Len(SubSeq(w, 1, k)) = k /\ k - 1 + 1 = k /\ \A i \in 1..k : 1 + i - 1 = i
    BY <2>3, <2>4
  <2> QED BY <1>2, <2>4, <2>5 DEF w
<1>6. Begins(f)'
  <2>1. k \in 0..Len(f) /\ \A i \in 1..k : i \in 1..Len(file)
    BY <1>2, <1>4
  <2> QED BY <1>4, <1>5, <2>1 DEF Begins
<1> QED BY <1>1, <1>3, <1>6 DEF Lies

\* Every file that one of these makes is one its model lies in.
FilesLie(known) ==
    /\ known \subseteq {"saved", "shipped"}
    /\ "saved" \in known =>
          \A m \in Models : \E at, ends : FileLies(File(m), m, at, ends)
    /\ "shipped" \in known =>
          \A s \in Shipped : \E at, ends : FileLies(s.file, s.model, at, ends)

(* A file that was not read yet lies in itself.                            *)
LEMMA WholeFileLies ==
    ASSUME NEW f, NEW m, NEW at, NEW ends, FileLies(f, m, at, ends),
           file' = f, model' = m, outcome' = "none"
    PROVE  Lies(f, at, ends)'
<1>1. Len(f) \in Nat
  BY DEF FileLies
<1>2. Begins(f)' /\ Len(file') = Len(f)
  BY <1>1 DEF Begins
<1> QED BY <1>2 DEF Lies

(* The invariant holds first.                                              *)
LEMMA ReadingInvInit ==
    ASSUME NEW known, FilesLie(known), Init
    PROVE  ReadingInv(known)
BY DEF Init, ReadingInv, FilesLie

(* Every step keeps it.                                                    *)
LEMMA ReadingInvNext ==
    ASSUME NEW known, FilesLie(known), ReadingInv(known), [Next]_vars
    PROVE  ReadingInv(known)'
<1>1. /\ outcome \in {"none", "reading", "ok", "thrown", "crashed"}
      /\ by = "none" => outcome = "none" /\ ~cut
      /\ cut => by \in {"saved", "shipped"}
      /\ outcome = "none" => pos = 1 /\ got = EmptyModel
      /\ by \in known => \E f, at, ends : Lies(f, at, ends)
      /\ "none" \notin known /\ "other" \notin known
  BY DEF ReadingInv, FilesLie
<1>2. CASE Save
  <2>1. /\ by = "none" /\ by' = "saved" /\ UNCHANGED <<cut, pos, got, outcome>>
    BY <1>2 DEF Save
  <2>2. PICK m \in Models : model' = m /\ file' = File(m)
    BY <1>2 DEF Save
  <2>3. ASSUME "saved" \in known PROVE \E f, at, ends : Lies(f, at, ends)'
    <3>1. PICK at, ends : FileLies(File(m), m, at, ends)
      BY <2>2, <2>3 DEF FilesLie
    <3>2. Lies(File(m), at, ends)'
      BY <1>1, <2>1, <2>2, <3>1, WholeFileLies
    <3> QED BY <3>2
  <2> QED BY <1>1, <2>1, <2>3 DEF ReadingInv
<1>3. CASE Ship
  <2>1. by = "none" /\ UNCHANGED <<cut, pos, got, outcome>>
    BY <1>3 DEF Ship
  <2>2. CASE by' = "other"
    BY <1>1, <2>1, <2>2 DEF ReadingInv
  <2>3. CASE by' # "other"
    <3>1. PICK s \in Shipped : model' = s.model /\ file' = s.file /\ by' = "shipped"
      BY <1>3, <2>3 DEF Ship
    <3>2. ASSUME "shipped" \in known PROVE \E f, at, ends : Lies(f, at, ends)'
      <4>1. PICK at, ends : FileLies(s.file, s.model, at, ends)
        BY <3>1, <3>2 DEF FilesLie
      <4>2. Lies(s.file, at, ends)'
        BY <1>1, <2>1, <3>1, <4>1, WholeFileLies
      <4> QED BY <4>2
    <3> QED BY <1>1, <2>1, <3>1, <3>2 DEF ReadingInv
  <2> QED BY <2>2, <2>3
<1>4. CASE Lose
  <2>1. by' = by /\ by \in {"saved", "shipped"} /\ UNCHANGED <<pos, got, outcome>>
    BY <1>4 DEF Lose
  <2>2. ASSUME NEW f, NEW at, NEW ends, Lies(f, at, ends) PROVE Lies(f, at, ends)'
    BY <1>4, <2>2, LoseKeeps
  <2> QED BY <1>1, <2>1, <2>2 DEF ReadingInv
<1>5. CASE Start
  <2>1. /\ by' = by /\ by # "none" /\ cut' = cut /\ outcome = "none"
        /\ outcome' \in {"reading", "thrown"}
    BY <1>5 DEF Start
  <2>2. ASSUME NEW f, NEW at, NEW ends, Lies(f, at, ends) PROVE Lies(f, at, ends)'
    BY <1>1, <1>5, <2>1, <2>2, StartKeeps
  <2> QED BY <1>1, <2>1, <2>2 DEF ReadingInv
<1>6. CASE ReadVersion \/ ReadModel \/ ReadSection
  <2>1. AtHeader /\ by' = by /\ cut' = cut /\ outcome' \in {"reading", "thrown"}
    BY <1>6, SectionSteps DEF AtHeader
  <2>2. ASSUME NEW f, NEW at, NEW ends, Lies(f, at, ends) PROVE Lies(f, at, ends)'
    BY <1>6, <2>2, SectionKeeps
  <2> QED BY <1>1, <2>1, <2>2 DEF ReadingInv, AtHeader
<1>7. CASE SkipUnknown
  <2>1. AtHeader /\ by' = by /\ cut' = cut /\ outcome' \in {"reading", "ok"}
    BY <1>7 DEF SkipUnknown, AtHeader
  <2>2. ASSUME NEW f, NEW at, NEW ends, Lies(f, at, ends) PROVE Lies(f, at, ends)'
    BY <1>7, <2>2, SkipKeeps
  <2> QED BY <1>1, <2>1, <2>2 DEF ReadingInv, AtHeader
<1>8. CASE Finish
  <2>1. outcome = "reading" /\ by' = by /\ cut' = cut /\ outcome' = "ok"
    BY <1>8 DEF Finish
  <2>2. ASSUME NEW f, NEW at, NEW ends, Lies(f, at, ends) PROVE Lies(f, at, ends)'
    BY <1>8, <2>2, FinishKeeps
  <2> QED BY <1>1, <2>1, <2>2 DEF ReadingInv
<1>9. CASE ReadOutOfRange
  <2>1. AtHeader /\ by' = by /\ cut' = cut /\ outcome' \in {"thrown", "crashed"}
    BY <1>9 DEF ReadOutOfRange, AtHeader
  <2>2. \A f, at, ends : ~ Lies(f, at, ends)
    BY <1>9, NoGeosetsLie
  <2> QED BY <1>1, <2>1, <2>2 DEF ReadingInv, AtHeader
<1>10. CASE UNCHANGED vars
  BY <1>1, <1>10 DEF vars, ReadingInv, Lies, Begins
<1> QED BY <1>2, <1>3, <1>4, <1>5, <1>6, <1>7, <1>8, <1>9, <1>10 DEF Next, Read

(* What the invariant says of a reader that is done.                       *)
LEMMA DoneReading ==
    ASSUME NEW known, ReadingInv(known), by \in known
    PROVE  /\ ~cut /\ Ended => Complete
           /\ CutLosesLastSections
<1>1. PICK f, at, ends : Lies(f, at, ends)
  BY DEF ReadingInv
<1>2. /\ (~cut => Len(file) = Len(f))
      /\ outcome = "ok" => /\ \E k \in 1..Many + 1 : got = Before(model, k)
                           /\ Len(file) = Len(f) => got = model
      /\ outcome = "thrown" => Len(file) # Len(f)
      /\ outcome # "crashed"
      /\ model = [s \in SectionSet |-> model[s]]
  BY <1>1 DEF Lies, FileLies
<1>3. ~cut /\ Ended => Complete
  BY <1>2 DEF Complete, Ended
<1>4. ASSUME cut, outcome = "ok"
      PROVE  \E n \in 0..Len(Sections) : \A k \in DOMAIN Sections :
                got[Sections[k]] = (IF k <= n THEN model ELSE EmptyModel)[Sections[k]]
  <2>1. PICK n \in 1..Many + 1 : got = Before(model, n)
    BY <1>2, <1>4
  <2>2. n - 1 \in 0..Len(Sections) /\ n \in Nat
    BY <2>1, SectionsDiffer DEF Many
  <2>3. ASSUME NEW k \in DOMAIN Sections
        PROVE  got[Sections[k]] = (IF k <= n - 1 THEN model ELSE EmptyModel)[Sections[k]]
    <3>1. k \in 1..Many /\ Sections[k] \in SectionSet /\ k \in Nat
      BY SectionsDiffer
    <3>2. CASE k <= n - 1
      <4>1. k \in 1..n - 1
        BY <2>2, <3>1, <3>2
      <4> QED BY <2>1, <3>1, <3>2, <4>1 DEF Before
    <3>3. CASE ~ (k <= n - 1)
      <4>1. \A i \in 1..n - 1 : i \in 1..Many /\ i # k
        BY <2>1, <2>2, <3>1, <3>3, SectionsDiffer
      <4>2. \A i \in 1..n - 1 : Sections[i] # Sections[k]
        BY <3>1, <4>1, SectionsDiffer
      <4> QED BY <2>1, <3>1, <3>3, <4>2 DEF Before
    <3> QED BY <3>2, <3>3
  <2> QED BY <2>2, <2>3
<1> QED BY <1>3, <1>4 DEF CutLosesLastSections

-----------------------------------------------------------------------------
(* What write() makes of a model.                                          *)

\* One sequence lies behind place p of another.
LiesBehind(f, p, u) == \A i \in 1..Len(u) : f[p + i] = u[i]

(* What lies in what lies there, lies there as well.                       *)
LEMMA Deeper ==
    ASSUME NEW f, NEW u, NEW v, NEW p \in Nat, NEW q \in Nat, Len(u) \in Nat, Len(v) \in Nat,
           LiesBehind(f, p, u), LiesBehind(u, q, v), q + Len(v) <= Len(u)
    PROVE  LiesBehind(f, p + q, v)
<1> SUFFICES ASSUME NEW i \in 1..Len(v) PROVE f[(p + q) + i] = v[i]
  BY DEF LiesBehind
<1>1. q + i \in 1..Len(u) /\ (p + q) + i = p + (q + i)
  OBVIOUS
<1> QED BY <1>1 DEF LiesBehind

\* Where the parts of a section end, behind its header.
PartsLie(g, u, s, parts, n, T) ==
    /\ g \in [0..n -> Nat] /\ g[0] = 0
    /\ \A k \in 1..n : g[k] = g[k - 1] + Len(parts[k].units)
    /\ u \in Seq(T) /\ Len(u) = HeaderSize + g[n] /\ u[1] = Tag(s) /\ u[2] = Num(g[n])
    /\ \A k \in 1..n : /\ g[k] <= g[n]
                       /\ LiesBehind(u, HeaderSize + g[k - 1], parts[k].units)

(* The parts of a section, one behind the other, and their sizes.          *)
LEMMA SectionPut ==
    ASSUME NEW T, NEW s, NEW parts, NEW n \in Nat, DOMAIN parts = 1..n,
           \A k \in 1..n : parts[k].units \in Seq(T) /\ parts[k].size = Len(parts[k].units),
           Tag(s) \in T, \A i \in Nat : Num(i) \in T
    PROVE  \E g : PartsLie(g, Section(s, parts), s, parts, n, T)
<1> DEFINE sizes == [k \in DOMAIN parts |-> parts[k].size]
           flat == [k \in DOMAIN parts |-> parts[k].units]
           total == Total(sizes)
           head == <<Tag(s), Num(total)>>
           u == Section(s, parts)
<1>1. Len(sizes) = n /\ \A k \in 1..n : sizes[k] = Len(parts[k].units)
  OBVIOUS
<1>2. flat \in Seq(Seq(T)) /\ Len(flat) = n /\ \A k \in 1..n : flat[k] = parts[k].units
  OBVIOUS
<1>3. u = head \o FlattenSeq(flat)
  BY DEF Section
<1> HIDE DEF sizes, flat, u
<1>4. PICK h : Flats(h, flat, T)
  BY <1>2, FlatsExist
<1>5. FlattenSeq(flat) = h[n] /\ h \in [0..n -> Seq(T)] /\ h[0] = <<>>
  BY <1>2, <1>4, FlatsEnd DEF Flats
<1> DEFINE g == [k \in 0..n |-> Len(h[k])]
<1>6. g \in [0..n -> Nat] /\ g[0] = 0 /\ 0 \in 0..n /\ n \in 0..n
  <2>1. \A k \in 0..n : Len(h[k]) \in Nat
    <3>1. \A k \in 0..n : h[k] \in Seq(T)
      BY <1>5
    <3> QED BY <3>1
  <2>2. 0 \in 0..n /\ n \in 0..n /\ Len(h[0]) = 0
    BY <1>5
  <2> QED BY <2>1, <2>2
<1>7. ASSUME NEW k \in 1..n
      PROVE  /\ g[k] = g[k - 1] + Len(parts[k].units) /\ g[k] <= g[n]
             /\ \A i \in 1..Len(parts[k].units) : h[n][g[k - 1] + i] = parts[k].units[i]
             /\ g[k] \in Nat /\ g[k - 1] \in Nat /\ Len(parts[k].units) \in Nat
  <2>1. k \in 0..n /\ k - 1 \in 0..n /\ n \in 0..n /\ k \in 1..Len(flat)
    BY <1>2
  <2>2. g[k] = Len(h[k]) /\ g[k - 1] = Len(h[k - 1]) /\ g[n] = Len(h[n])
    BY <2>1
  <2> HIDE DEF g
  <2>3. /\ Len(h[k - 1]) \in Nat /\ Len(h[k]) \in Nat
        /\ Len(h[k]) = Len(h[k - 1]) + Len(flat[k]) /\ Len(h[k]) <= Len(h[Len(flat)])
        /\ \A i \in 1..Len(flat[k]) : h[Len(flat)][Len(h[k - 1]) + i] = flat[k][i]
    <3>1. flat \in Seq(Seq(T)) /\ Flats(h, flat, T) /\ k \in 1..Len(flat)
      BY <1>2, <1>4, <2>1
    <3>2. /\ Len(h[k - 1]) \in Nat /\ Len(h[k]) \in Nat
          /\ Len(h[k]) = Len(h[k - 1]) + Len(flat[k]) /\ Len(h[k]) <= Len(h[Len(flat)])
      <4>1. Len(h[k - 1]) \in Nat /\ Len(h[k]) \in Nat
        BY <1>5, <2>1
      <4>2. Len(h[k]) = Len(h[k - 1]) + Len(flat[k])
        <5> DEFINE x == h[k - 1]
                   y == flat[k]
        <5>1. h[k] = x \o y /\ x \in Seq(T) /\ y \in Seq(T)
          BY <1>2, <1>4, <1>5, <2>1, <3>1 DEF Flats
        <5> HIDE DEF x, y
        <5>2. Len(x \o y) = Len(x) + Len(y)
          BY <5>1, ConcatProperties
        <5> QED BY <5>1, <5>2 DEF x, y
      <4>3. Len(h[k]) <= Len(h[Len(flat)])
        BY <3>1, FlatsParts, Zenon
      <4> QED BY <4>1, <4>2, <4>3
    <3>3. \A i \in 1..Len(flat[k]) : h[Len(flat)][Len(h[k - 1]) + i] = flat[k][i]
      BY <3>1, FlatsCells
    <3> QED BY <3>2, <3>3
  <2>4. flat[k] = parts[k].units /\ parts[k].units \in Seq(T)
    BY <1>2
  <2>5. Len(parts[k].units) \in Nat
    BY <2>4
  <2> QED BY <1>2, <2>2, <2>3, <2>4, <2>5
<1>8. PICK t : Runs(t, TotalLoop(sizes), 0, n) /\ total = t[n]
  BY <1>1, TotalRun
<1> HIDE DEF total, g
<1>9. total = g[n]
  <2> DEFINE Good == {k \in 0..n : t[k] = g[k]}
  <2>1. /\ t[0] = 0
        /\ \A k \in 1..n : t[k] = t[k - 1] + sizes[k]
    <3>1. \A k \in 0..n : t[k] = IF k = 0 THEN 0 ELSE Round(TotalLoop(sizes), t[k - 1], k)
      BY <1>8 DEF Runs
    <3>2. \A x, k : Round(TotalLoop(sizes), x, k) = x + sizes[k]
      BY DEF Round, TotalLoop
    <3>3. \A k \in 1..n : k \in 0..n /\ k # 0
      OBVIOUS
    <3> QED BY <1>6, <3>1, <3>2, <3>3
  <2>2. 0 \in Good
    BY <1>6, <2>1
  <2>3. ASSUME NEW k \in 0..n - 1, k \in Good PROVE k + 1 \in Good
    <3>1. k + 1 \in 1..n /\ k + 1 \in 0..n /\ (k + 1) - 1 = k
      OBVIOUS
    <3>2. t[k + 1] = t[k] + sizes[k + 1] /\ g[k + 1] = g[k] + Len(parts[k + 1].units)
      BY <1>7, <2>1, <3>1
    <3> QED BY <1>1, <2>3, <3>1, <3>2
  <2> HIDE DEF Good
  <2>4. \A k \in 0..n : k \in Good
    BY <2>2, <2>3, InductionTo
  <2> QED BY <1>6, <1>8, <2>4 DEF Good
<1> DEFINE all == h[n]
           end == g[n]
<1>10. all \in Seq(T) /\ Len(all) = end /\ end \in Nat
  BY <1>5, <1>6 DEF g
<1>11. head \in Seq(T) /\ Len(head) = 2 /\ head[1] = Tag(s) /\ head[2] = Num(end)
  BY <1>9, <1>10
<1>12. u = head \o all
  BY <1>3, <1>5
<1> HIDE DEF head, all, end
<1>13. /\ u \in Seq(T) /\ Len(u) = Len(head) + Len(all)
       /\ \A i \in 1..Len(head) + Len(all) : u[i] = IF i <= Len(head) THEN head[i] ELSE all[i - Len(head)]
  BY <1>10, <1>11, <1>12, ConcatProperties
<1>14. /\ Len(u) = 2 + end /\ u[1] = Tag(s) /\ u[2] = Num(end)
       /\ \A i \in 1..end : u[2 + i] = all[i]
  <2>1. Len(head) + Len(all) = 2 + end /\ 1 \in 1..2 + end /\ 2 \in 1..2 + end
    BY <1>10, <1>11
  <2>2. ASSUME NEW i \in 1..end PROVE u[2 + i] = all[i]
    <3>1. 2 + i \in 1..2 + end /\ ~(2 + i <= 2) /\ (2 + i) - 2 = i
      BY <1>10
    <3> QED BY <1>11, <1>13, <2>1, <3>1
  <2> QED BY <1>11, <1>13, <2>1, <2>2
<1>15. ASSUME NEW k \in 1..n
       PROVE  g[k] <= g[n] /\ LiesBehind(u, HeaderSize + g[k - 1], parts[k].units)
  <2> DEFINE v == parts[k].units
             a == g[k - 1]
  <2>1. /\ g[k] = a + Len(v) /\ g[k] <= end /\ a \in Nat /\ Len(v) \in Nat /\ g[k] \in Nat
        /\ \A i \in 1..Len(v) : all[a + i] = v[i]
    BY <1>7 DEF all, end
  <2> HIDE DEF v, a
  <2>2. ASSUME NEW i \in 1..Len(v) PROVE u[(2 + a) + i] = v[i]
    <3>1. a + i \in 1..end /\ (2 + a) + i = 2 + (a + i)
      BY <1>10, <2>1
    <3> QED BY <1>14, <2>1, <3>1
  <2> QED BY <2>1, <2>2 DEF LiesBehind, HeaderSize, v, a, end
<1>16. Len(u) = HeaderSize + g[n] /\ u[1] = Tag(s) /\ u[2] = Num(g[n])
  BY <1>14 DEF HeaderSize, end
<1>17. PartsLie(g, u, s, parts, n, T)
  BY <1>6, <1>7, <1>13, <1>15, <1>16 DEF PartsLie
<1> QED BY <1>17 DEF u

\* What its file is made of.
Covers(T, m) ==
    /\ Tag("MDLX") \in T /\ Num(m["VERS"]) \in T
    /\ \A s \in SectionSet : Tag(s) \in T
    /\ \A i \in Nat : Num(i) \in T
    /\ \A x \in Range(FieldsRead["MODL"]) : m["MODL"][x] \in T
    /\ \A s \in Plain \ {"MODL"}, k \in Nat : \A x \in Range(FieldsRead[s]) : m[s][k][x] \in T

(* There is a set that covers the units of a file, and so the sequences of  *)
(* units of a model are sequences over a set.                              *)
LEMMA UnitsExist ==
    ASSUME NEW m
    PROVE  \E T : Covers(T, m)
<1> DEFINE A == {Tag("MDLX"), Num(m["VERS"])}
           B == {Tag(s) : s \in SectionSet}
           C == {Num(i) : i \in Nat}
           D == {m["MODL"][x] : x \in Range(FieldsRead["MODL"])}
           E(s, k) == {m[s][k][x] : x \in Range(FieldsRead[s])}
           F == UNION {E(p[1], p[2]) : p \in (Plain \ {"MODL"}) \X Nat}
           T == A \union B \union C \union D \union F
<1>1. Tag("MDLX") \in T /\ Num(m["VERS"]) \in T
  BY DEF Num, Tag
<1>2. \A s \in SectionSet : Tag(s) \in T
  OBVIOUS
<1>3. \A i \in Nat : Num(i) \in T
  OBVIOUS
<1>4. \A x \in Range(FieldsRead["MODL"]) : m["MODL"][x] \in T
  OBVIOUS
<1>5. ASSUME NEW s \in Plain \ {"MODL"}, NEW k \in Nat, NEW x \in Range(FieldsRead[s])
      PROVE  m[s][k][x] \in T
  <2>1. <<s, k>> \in (Plain \ {"MODL"}) \X Nat /\ <<s, k>>[1] = s /\ <<s, k>>[2] = k
    OBVIOUS
  <2>2. m[s][k][x] \in E(s, k)
    OBVIOUS
  <2>3. E(s, k) = E(<<s, k>>[1], <<s, k>>[2])
    BY <2>1
  <2> HIDE DEF E
  <2>4. m[s][k][x] \in F
    BY <2>1, <2>2, <2>3
  <2> QED BY <2>4
<1> HIDE DEF T
<1>6. Covers(T, m)
  BY <1>1, <1>2, <1>3, <1>4, <1>5 DEF Covers
<1> QED BY <1>6

(* The values of an object are its fields.                                 *)
LEMMA PutLies ==
    ASSUME NEW T, NEW fields, IsList(fields), NEW object, IsObject(object, fields),
           \A x \in Range(fields) : object[x] \in T
    PROVE  /\ Put(object, fields) \in Seq(T) /\ Len(Put(object, fields)) = Len(fields)
           /\ \A f : \A p \in Nat : LiesBehind(f, p, Put(object, fields)) =>
                FieldsLie(f, p + 1, p + 1 + Len(fields), object, fields)
<1> DEFINE u == Put(object, fields)
           n == Len(fields)
<1>1. n \in Nat /\ DOMAIN fields = 1..n
  BY DEF IsList
<1>2. u = [k \in 1..n |-> object[fields[k]]]
  BY <1>1 DEF Put
<1>3. \A k \in 1..n : fields[k] \in Range(fields)
  BY <1>1 DEF Range
<1> HIDE DEF u, n
<1>4. u \in Seq(T) /\ Len(u) = n
  BY <1>1, <1>2, <1>3
<1>5. ASSUME NEW f, NEW p \in Nat, LiesBehind(f, p, u)
      PROVE  FieldsLie(f, p + 1, p + 1 + n, object, fields)
  <2>1. ASSUME NEW x \in Range(fields) PROVE f[(p + 1) - 1 + Place(x, fields)] = object[x]
    <3> DEFINE k == Place(x, fields)
    <3>1. k \in DOMAIN fields /\ fields[k] = x
      BY DEF Place, Range
    <3> HIDE DEF k
    <3>2. k \in 1..Len(u) /\ (p + 1) - 1 + k = p + k
      BY <1>1, <1>4, <3>1
    <3>3. f[p + k] = u[k]
      BY <1>5, <3>2 DEF LiesBehind
    <3>4. u[k] = object[x]
      BY <1>1, <1>2, <3>1
    <3> QED BY <3>2, <3>3, <3>4 DEF k
  <2>2. ObjectIn(f, p + 1, fields) = [x \in Range(fields) |-> object[x]]
    BY <2>1 DEF ObjectIn
  <2>3. object = ObjectIn(f, p + 1, fields)
    BY <2>2 DEF IsObject
  <2> QED BY <2>3 DEF FieldsLie, n
<1> QED BY <1>4, <1>5 DEF u, n

\* What one section becomes lies where it is found again.
SectionFound(u, m, s, T) ==
    /\ u \in Seq(T) /\ Len(u) \in Nat
    /\ \A f : \A p \in Nat : LiesBehind(f, p, u) =>
          SectionLies(f, m, s, p + 1, p + 1 + Len(u))

(* A section of objects.                                                   *)
LEMMA ListFound ==
    ASSUME NEW m, IsPlain(m), NEW T, Covers(T, m), NEW s \in SectionSet \ {"VERS", "MODL"}
    PROVE  SectionFound(PutSection(m, s), m, s, T)
<1> DEFINE list == m[s]
           n == Len(list)
           parts == [k \in DOMAIN list |-> PutObject(s, list[k], m.VERS)]
           u == PutSection(m, s)
           fields == FieldsRead[s]
<1>1. s \in {"MTLS", "TXAN", "GEOS"} \/ s \in Plain \ {"MODL"}
  BY PlainFields DEF SectionSet, Sections
<1>2. n \in Nat /\ DOMAIN list = 1..n /\ list = Firsts(list, n) /\ IsList(list)
  <2>1. CASE s \in {"MTLS", "TXAN", "GEOS"}
    <3>1. list = <<>>
      BY <2>1 DEF IsPlain
    <3> QED BY <3>1 DEF Firsts, IsList
  <2>2. CASE s \in Plain \ {"MODL"}
    <3>1. IsList(list) /\ list = Firsts(list, n)
      BY <2>2 DEF IsPlain
    <3> QED BY <3>1 DEF IsList
  <2> QED BY <1>1, <2>1, <2>2
<1>3. u = Section(s, parts)
  BY DEF PutSection
<1>4. ASSUME NEW k \in 1..n
      PROVE  /\ s \in Plain \ {"MODL"} /\ IsObject(list[k], fields) /\ IsList(fields)
             /\ parts[k].units = Put(list[k], fields)
             /\ parts[k].size = Len(Put(list[k], fields))
  <2>1. s \notin {"MTLS", "TXAN", "GEOS"}
    <3> SUFFICES ASSUME s \in {"MTLS", "TXAN", "GEOS"} PROVE FALSE
      OBVIOUS
    <3>1. list = <<>>
      BY DEF IsPlain
    <3> QED BY <3>1
  <2>2. s \in Plain \ {"MODL"}
    BY <1>1, <2>1
  <2>3. IsObject(list[k], fields)
    BY <2>2 DEF IsPlain
  <2>4. IsList(fields) /\ fields = FieldsWritten[s]
    BY <2>2, PlainFields
  <2>5. parts[k] = PutObject(s, list[k], m.VERS)
    BY <1>2
  <2>6. PutObject(s, list[k], m.VERS) = Written(Put(list[k], FieldsWritten[s]))
    BY <2>1 DEF PutObject
  <2> HIDE DEF fields, parts
  <2>7. parts[k] = Written(Put(list[k], fields))
    BY <2>4, <2>5, <2>6
  <2> QED BY <2>2, <2>3, <2>4, <2>7 DEF Written
<1> HIDE DEF fields
<1>5. ASSUME NEW k \in 1..n
      PROVE  /\ Put(list[k], fields) \in Seq(T) /\ Len(Put(list[k], fields)) = Len(fields)
             /\ \A f : \A p \in Nat : LiesBehind(f, p, Put(list[k], fields)) =>
                   FieldsLie(f, p + 1, p + 1 + Len(fields), list[k], fields)
  <2>1. k \in Nat
    BY <1>2
  <2>2. \A x \in Range(fields) : list[k][x] \in T
    BY <1>4, <2>1 DEF Covers, fields
  <2> HIDE DEF list
  <2> QED BY <1>4, <2>2, PutLies
<1>6. DOMAIN parts = 1..n
  BY <1>2
<1> HIDE DEF list, n, parts, u
<1>7. \A k \in 1..n : parts[k].units \in Seq(T) /\ parts[k].size = Len(parts[k].units)
  BY <1>4, <1>5
<1>8. Tag(s) \in T /\ \A i \in Nat : Num(i) \in T
  BY DEF Covers
<1>90. PICK g : PartsLie(g, u, s, parts, n, T)
  BY <1>2, <1>3, <1>6, <1>7, <1>8, SectionPut
<1>9. /\ g \in [0..n -> Nat] /\ g[0] = 0
      /\ \A k \in 1..n : g[k] = g[k - 1] + Len(parts[k].units)
      /\ u \in Seq(T) /\ Len(u) = HeaderSize + g[n] /\ u[1] = Tag(s) /\ u[2] = Num(g[n])
      /\ \A k \in 1..n : /\ g[k] <= g[n]
                         /\ LiesBehind(u, HeaderSize + g[k - 1], parts[k].units)
  BY <1>90 DEF PartsLie
<1>10. g[n] \in Nat /\ Len(u) \in Nat /\ Len(u) = 2 + g[n] /\ 0 \in 0..n /\ n \in 0..n
  BY <1>2, <1>9 DEF HeaderSize
<1>11. ASSUME NEW f, NEW p \in Nat, LiesBehind(f, p, u)
       PROVE  SectionLies(f, m, s, p + 1, p + 1 + Len(u))
  <2> DEFINE b == [k \in 0..n |-> p + 3 + g[k]]
             e == p + 1 + Len(u)
  <2>1. /\ f[p + 1] = Tag(s) /\ f[p + 2] = Num(g[n])
    <3>1. 1 \in 1..Len(u) /\ 2 \in 1..Len(u)
      BY <1>10
    <3> QED BY <1>9, <1>11, <3>1 DEF LiesBehind
  <2>2. b \in [0..n -> Nat] /\ b[0] = (p + 1) + HeaderSize /\ b[n] = e /\ b[0] >= 1
    <3>1. \A k \in 0..n : p + 3 + g[k] \in Nat
      BY <1>9
    <3>2. p + 3 + g[0] = (p + 1) + HeaderSize /\ p + 3 + g[n] = e
      BY <1>9, <1>10 DEF HeaderSize
    <3>3. b[0] = p + 3 + g[0] /\ b[n] = p + 3 + g[n]
      BY <1>10
    <3>4. b \in [0..n -> Nat]
      BY <3>1
    <3> HIDE DEF b, e
    <3> QED BY <3>2, <3>3, <3>4 DEF HeaderSize
  <2>3. ASSUME NEW k \in 1..n
        PROVE  ObjectLies(f, s, b[k - 1], b[k], list[k], m.VERS)
    <3> DEFINE v == Put(list[k], fields)
               a == g[k - 1]
               w == Len(fields)
    <3>1. k \in 0..n /\ k - 1 \in 0..n
      BY <1>2
    <3>2. /\ b[k - 1] = p + 3 + a /\ b[k] = p + 3 + g[k] /\ a \in Nat /\ g[k] \in Nat
          /\ g[k] = a + w /\ g[k] <= g[n] /\ w \in Nat /\ Len(v) = w
          /\ LiesBehind(u, 2 + a, v)
      BY <1>4, <1>5, <1>9, <3>1 DEF HeaderSize, IsList
    <3> HIDE DEF v, a, w, b
    <3>3. (2 + a) + Len(v) <= Len(u) /\ 2 + a \in Nat /\ Len(u) \in Nat /\ Len(v) \in Nat
      BY <1>10, <3>2
    <3>4. LiesBehind(f, p + (2 + a), v)
      BY <1>11, <3>2, <3>3, Deeper
    <3>5. p + (2 + a) \in Nat
      BY <3>2
    <3>6. FieldsLie(f, (p + (2 + a)) + 1, (p + (2 + a)) + 1 + w, list[k], fields)
      BY <1>5, <3>4, <3>5 DEF v, w
    <3>7. b[k - 1] = (p + (2 + a)) + 1 /\ b[k] = (p + (2 + a)) + 1 + w
      BY <3>2
    <3>8. FieldsLie(f, b[k - 1], b[k], list[k], fields)
      BY <3>6, <3>7
    <3> QED BY <1>4, <3>8 DEF ObjectLies, fields
  <2> HIDE DEF b
  <2>4. ObjectsLie(f, s, list, b, m.VERS)
    BY <1>2, <2>2, <2>3 DEF ObjectsLie, n
  <2>5. e \in Nat /\ e >= (p + 1) + HeaderSize /\ f[(p + 1) + 1] = Num(e - (p + 1) - HeaderSize)
    <3>1. (p + 1) + 1 = p + 2 /\ e - (p + 1) - HeaderSize = g[n]
      BY <1>10 DEF HeaderSize
    <3>2. e \in Nat /\ e >= (p + 1) + HeaderSize
      BY <1>10 DEF HeaderSize
    <3> QED BY <2>1, <3>1, <3>2
  <2> HIDE DEF e
  <2>6. SectionLies(f, m, s, p + 1, e)
    BY <2>1, <2>2, <2>4, <2>5 DEF SectionLies, list, n
  <2> QED BY <2>6 DEF e
<1> QED BY <1>9, <1>10, <1>11 DEF SectionFound, u

(* The version.                                                            *)
LEMMA VersionFound ==
    ASSUME NEW m, NEW T, Covers(T, m)
    PROVE  SectionFound(PutSection(m, "VERS"), m, "VERS", T)
<1> DEFINE u == PutSection(m, "VERS")
<1>1. u = <<Tag("VERS"), Num(1), Num(m.VERS)>>
  BY DEF PutSection
<1>2. Tag("VERS") \in T /\ Num(1) \in T /\ Num(m.VERS) \in T
  <2>1. "VERS" \in SectionSet
    BY DEF SectionSet, Sections
  <2> QED BY <2>1 DEF Covers
<1>3. u \in Seq(T) /\ Len(u) = 3 /\ u[1] = Tag("VERS") /\ u[2] = Num(1) /\ u[3] = Num(m.VERS)
  BY <1>1, <1>2
<1> HIDE DEF u
<1>4. ASSUME NEW f, NEW p \in Nat, LiesBehind(f, p, u)
      PROVE  SectionLies(f, m, "VERS", p + 1, p + 1 + Len(u))
  <2> DEFINE e == p + 1 + Len(u)
  <2>1. 1 \in 1..Len(u) /\ 2 \in 1..Len(u) /\ 3 \in 1..Len(u)
    BY <1>3
  <2>2. f[p + 1] = Tag("VERS") /\ f[p + 2] = Num(1) /\ f[p + 3] = Num(m.VERS)
    BY <1>3, <1>4, <2>1 DEF LiesBehind
  <2>3. /\ e = p + 4 /\ e \in Nat /\ e >= (p + 1) + HeaderSize /\ e >= (p + 1) + 3
        /\ (p + 1) + 1 = p + 2 /\ (p + 1) + HeaderSize = p + 3 /\ e - (p + 1) - HeaderSize = 1
    BY <1>3 DEF HeaderSize
  <2>4. NumberIn(Num(m.VERS)) = m.VERS
    BY DEF NumberIn, Num
  <2> HIDE DEF e
  <2>5. SectionLies(f, m, "VERS", p + 1, e)
    BY <2>2, <2>3, <2>4 DEF SectionLies
  <2> QED BY <2>5 DEF e
<1> QED BY <1>3, <1>4 DEF SectionFound, u

(* The model.                                                              *)
LEMMA ModelFound ==
    ASSUME NEW m, IsPlain(m), NEW T, Covers(T, m)
    PROVE  SectionFound(PutSection(m, "MODL"), m, "MODL", T)
<1> DEFINE fields == FieldsRead["MODL"]
           object == m.MODL
           v == Put(object, fields)
           parts == <<PutObject("MODL", object, m.VERS)>>
           u == PutSection(m, "MODL")
<1>1. u = Section("MODL", parts)
  BY DEF PutSection
<1>2. "MODL" \in Plain /\ IsList(fields) /\ fields = FieldsWritten["MODL"]
  BY PlainFields
<1>3. IsObject(object, fields) /\ \A x \in Range(fields) : object[x] \in T
  BY DEF IsPlain, Covers
<1>4. PutObject("MODL", object, m.VERS) = Written(v)
  <2>1. PutObject("MODL", object, m.VERS) = Written(Put(object, FieldsWritten["MODL"]))
    BY DEF PutObject
  <2> HIDE DEF fields
  <2> QED BY <1>2, <2>1
<1> HIDE DEF fields, object
<1>5. /\ v \in Seq(T) /\ Len(v) = Len(fields)
      /\ \A f : \A p \in Nat : LiesBehind(f, p, v) =>
            FieldsLie(f, p + 1, p + 1 + Len(fields), object, fields)
  BY <1>2, <1>3, PutLies
<1> HIDE DEF v
<1>6. DOMAIN parts = 1..1 /\ parts[1].units = v /\ parts[1].size = Len(v)
  <2> DEFINE one == PutObject("MODL", object, m.VERS)
  <2>1. one = Written(v)
    BY <1>4
  <2> HIDE DEF one
  <2>2. DOMAIN parts = 1..1 /\ parts[1] = one
    BY DEF one
  <2> QED BY <2>1, <2>2 DEF Written
<1> HIDE DEF parts, u
<1>7. \A k \in 1..1 : parts[k].units \in Seq(T) /\ parts[k].size = Len(parts[k].units)
  <2>1. \A k \in 1..1 : k = 1
    OBVIOUS
  <2> QED BY <1>5, <1>6, <2>1
<1>8. Tag("MODL") \in T /\ \A i \in Nat : Num(i) \in T
  <2>1. "MODL" \in SectionSet
    BY DEF SectionSet, Sections
  <2> QED BY <2>1 DEF Covers
<1>9. PICK g : PartsLie(g, u, "MODL", parts, 1, T)
  <2>1. 1 \in Nat
    OBVIOUS
  <2> QED BY <1>1, <1>6, <1>7, <1>8, <2>1, SectionPut
<1>10. /\ g[1] = Len(v) /\ u \in Seq(T) /\ Len(u) = 2 + Len(v)
       /\ u[1] = Tag("MODL") /\ u[2] = Num(Len(v)) /\ LiesBehind(u, 2, v)
       /\ Len(v) \in Nat /\ Len(v) = Len(fields) /\ Len(u) \in Nat
  <2>1. /\ g \in [0..1 -> Nat] /\ g[0] = 0
        /\ \A k \in 1..1 : g[k] = g[k - 1] + Len(parts[k].units)
        /\ u \in Seq(T) /\ Len(u) = 2 + g[1] /\ u[1] = Tag("MODL") /\ u[2] = Num(g[1])
        /\ \A k \in 1..1 : LiesBehind(u, 2 + g[k - 1], parts[k].units)
    BY <1>9 DEF PartsLie, HeaderSize
  <2>2. 1 \in 1..1 /\ 1 - 1 = 0 /\ 2 + 0 = 2 /\ Len(v) \in Nat
    BY <1>5
  <2>3. g[1] = 0 + Len(v) /\ LiesBehind(u, 2, v)
    BY <1>6, <2>1, <2>2
  <2>4. g[1] = Len(v)
    BY <2>2, <2>3
  <2> QED BY <1>5, <2>1, <2>2, <2>3, <2>4
<1>11. ASSUME NEW f, NEW p \in Nat, LiesBehind(f, p, u)
       PROVE  SectionLies(f, m, "MODL", p + 1, p + 1 + Len(u))
  <2> DEFINE e == p + 1 + Len(u)
             n == Len(v)
  <2>1. f[p + 1] = Tag("MODL") /\ f[p + 2] = Num(n)
    <3>1. 1 \in 1..Len(u) /\ 2 \in 1..Len(u)
      BY <1>10
    <3> QED BY <1>10, <1>11, <3>1 DEF LiesBehind
  <2>2. LiesBehind(f, p + 2, v)
    <3>1. 2 + Len(v) <= Len(u) /\ 2 \in Nat
      BY <1>10
    <3> QED BY <1>10, <1>11, <3>1, Deeper
  <2>3. FieldsLie(f, (p + 2) + 1, (p + 2) + 1 + Len(fields), object, fields)
    <3>1. p + 2 \in Nat
      OBVIOUS
    <3> QED BY <1>5, <2>2, <3>1
  <2>4. /\ e \in Nat /\ e >= (p + 1) + HeaderSize /\ e - (p + 1) - HeaderSize = n
        /\ (p + 1) + 1 = p + 2 /\ (p + 2) + 1 = (p + 1) + HeaderSize
        /\ (p + 2) + 1 + Len(fields) = e
    BY <1>10 DEF HeaderSize
  <2> HIDE DEF e, n
  <2>5. FieldsLie(f, (p + 1) + HeaderSize, e, m.MODL, FieldsRead.MODL)
    BY <2>3, <2>4 DEF object, fields
  <2>6. e <= e
    BY <2>4
  <2>7. SectionLies(f, m, "MODL", p + 1, e)
    BY <2>1, <2>4, <2>5, <2>6 DEF SectionLies
  <2> QED BY <2>7 DEF e
<1> QED BY <1>10, <1>11 DEF SectionFound, u

(* A model lies in the file that write() makes of it.                      *)
LEMMA SavedLies ==
    ASSUME NEW m, IsPlain(m)
    PROVE  \E at, ends : FileLies(File(m), m, at, ends)
<1>1. PICK T : Covers(T, m)
  BY UnitsExist
<1> DEFINE flat == [k \in DOMAIN Sections |-> PutSection(m, Sections[k])]
           f == File(m)
           head == <<Tag("MDLX")>>
<1>2. f = head \o FlattenSeq(flat)
  BY DEF File
<1>3. ASSUME NEW k \in 1..Many
      PROVE  SectionFound(PutSection(m, Sections[k]), m, Sections[k], T)
  <2>1. Sections[k] \in SectionSet
    BY SectionsDiffer
  <2> DEFINE s == Sections[k]
  <2> HIDE DEF s
  <2>2. CASE s = "VERS"
    BY <1>1, <2>2, VersionFound DEF s
  <2>3. CASE s = "MODL"
    BY <1>1, <2>3, ModelFound DEF s
  <2>4. CASE s \notin {"VERS", "MODL"}
    <3>1. s \in SectionSet \ {"VERS", "MODL"}
      BY <2>1, <2>4 DEF s
    <3> QED BY <1>1, <3>1, ListFound DEF s
  <2> QED BY <2>2, <2>3, <2>4
<1>4. Many \in Nat /\ Many = 10 /\ DOMAIN Sections = 1..Many
  BY SectionsDiffer
<1>5. /\ flat \in Seq(Seq(T)) /\ Len(flat) = Many
      /\ \A k \in 1..Many : flat[k] = PutSection(m, Sections[k])
  <2>1. \A k \in 1..Many : PutSection(m, Sections[k]) \in Seq(T)
    BY <1>3 DEF SectionFound
  <2> QED BY <1>4, <2>1
<1>6. head \in Seq(T) /\ Len(head) = 1 /\ head[1] = Tag("MDLX")
  <2>1. Tag("MDLX") \in T
    BY <1>1 DEF Covers
  <2> QED BY <2>1
<1> HIDE DEF flat, f, head
<1>7. PICK h : Flats(h, flat, T)
  BY <1>5, FlatsExist
<1>8. FlattenSeq(flat) = h[Many] /\ h \in [0..Many -> Seq(T)] /\ h[0] = <<>>
  BY <1>5, <1>7, FlatsEnd DEF Flats
<1> DEFINE all == h[Many]
<1>9. all \in Seq(T) /\ f = head \o all /\ Len(all) \in Nat
  <2>1. Many \in 0..Many
    BY <1>4
  <2> QED BY <1>2, <1>8, <2>1
<1> HIDE DEF all
<1>10. /\ Len(f) = 1 + Len(all) /\ f[1] = Tag("MDLX")
       /\ \A i \in 1..Len(all) : f[1 + i] = all[i]
  <2>1. /\ Len(f) = Len(head) + Len(all)
        /\ \A i \in 1..Len(head) + Len(all) :
              f[i] = IF i <= Len(head) THEN head[i] ELSE all[i - Len(head)]
    BY <1>6, <1>9, ConcatProperties
  <2>2. 1 \in 1..1 + Len(all)
    BY <1>9
  <2>3. ASSUME NEW i \in 1..Len(all) PROVE f[1 + i] = all[i]
    <3>1. 1 + i \in 1..1 + Len(all) /\ ~(1 + i <= 1) /\ (1 + i) - 1 = i
      BY <1>9
    <3> QED BY <1>6, <2>1, <3>1
  <2> QED BY <1>6, <2>1, <2>2, <2>3
<1> DEFINE ends == [k \in 0..Many |-> 2 + Len(h[k])]
           at == [k \in 1..Many + 1 |-> 2 + Len(h[k - 1])]
<1>11. \A k \in 0..Many : Len(h[k]) \in Nat
  <2>1. \A k \in 0..Many : h[k] \in Seq(T)
    BY <1>8
  <2> QED BY <2>1
<1>12. /\ ends \in [0..Many -> Nat] /\ at \in [1..Many + 1 -> Nat]
       /\ \A k \in 1..Many + 1 : at[k] = ends[k - 1]
       /\ \A k \in 1..Many : at[k] = 2 + Len(h[k - 1]) /\ ends[k] = 2 + Len(h[k])
       /\ ends[0] = 2 /\ at[Many + 1] = Len(f) + 1
  <2>1. \A k \in 1..Many + 1 : k - 1 \in 0..Many
    BY <1>4
  <2>2. \A k \in 1..Many : k \in 0..Many /\ k \in 1..Many + 1
    BY <1>4
  <2>3. 0 \in 0..Many /\ Many + 1 \in 1..Many + 1 /\ (Many + 1) - 1 = Many /\ Len(h[0]) = 0
    BY <1>4, <1>8
  <2>4. 2 + Len(h[Many]) = Len(f) + 1
    BY <1>9, <1>10 DEF all
  <2>5. ends \in [0..Many -> Nat]
    BY <1>11
  <2>6. at \in [1..Many + 1 -> Nat]
    BY <1>11, <2>1
  <2>7. \A k \in 1..Many + 1 : at[k] = ends[k - 1]
    BY <2>1
  <2>8. \A k \in 1..Many : at[k] = 2 + Len(h[k - 1]) /\ ends[k] = 2 + Len(h[k])
    BY <2>2
  <2>9. ends[0] = 2 + Len(h[0]) /\ at[Many + 1] = 2 + Len(h[(Many + 1) - 1])
    BY <2>3
  <2>10. ends[0] = 2
    BY <2>3, <2>9
  <2>11. at[Many + 1] = Len(f) + 1
    BY <2>3, <2>4, <2>9
  <2> QED BY <2>5, <2>6, <2>7, <2>8, <2>10, <2>11
<1> HIDE DEF ends, at
<1>13. ASSUME NEW k \in 1..Many
       PROVE  SectionLies(f, m, Sections[k], at[k], ends[k])
  <2> DEFINE u == flat[k]
             a == Len(h[k - 1])
  <2>1. SectionFound(u, m, Sections[k], T)
    BY <1>3, <1>5
  <2>2. k \in 1..Len(flat) /\ k - 1 \in 0..Many /\ k \in 0..Many
    BY <1>4, <1>5
  <2>3. Len(u) \in Nat /\ u \in Seq(T) /\ a \in Nat
    BY <1>11, <2>1, <2>2 DEF SectionFound
  <2>4. Len(h[k]) = a + Len(u)
    <3> DEFINE x == h[k - 1]
    <3>1. h[k] = x \o u /\ x \in Seq(T) /\ u \in Seq(T)
      BY <1>7, <1>8, <2>2, <2>3 DEF Flats
    <3> HIDE DEF x, u
    <3>2. Len(x \o u) = Len(x) + Len(u)
      BY <3>1, ConcatProperties
    <3> QED BY <3>1, <3>2 DEF x
  <2>5. Len(h[k]) <= Len(all)
    <3>1. Len(h[k]) <= Len(h[Len(flat)])
      BY <1>5, <1>7, <2>2, FlatsParts, Zenon
    <3> QED BY <1>5, <3>1 DEF all
  <2>6. ASSUME NEW i \in 1..Len(u) PROVE f[(1 + a) + i] = u[i]
    <3>1. all[a + i] = u[i]
      <4>1. flat \in Seq(Seq(T)) /\ i \in 1..Len(flat[k])
        BY <1>5
      <4>2. h[Len(flat)][Len(h[k - 1]) + i] = flat[k][i]
        BY <1>7, <2>2, <4>1, FlatsCells
      <4> QED BY <1>5, <4>2 DEF all
    <3> HIDE DEF u, a
    <3>2. a + i \in 1..Len(all) /\ (1 + a) + i = 1 + (a + i)
      BY <1>9, <2>3, <2>4, <2>5
    <3> QED BY <1>10, <3>1, <3>2
  <2> HIDE DEF u, a
  <2>7. LiesBehind(f, 1 + a, u) /\ 1 + a \in Nat
    BY <2>3, <2>6 DEF LiesBehind
  <2>8. SectionLies(f, m, Sections[k], (1 + a) + 1, (1 + a) + 1 + Len(u))
    BY <2>1, <2>7 DEF SectionFound
  <2>9. at[k] = (1 + a) + 1 /\ ends[k] = (1 + a) + 1 + Len(u)
    <3>1. at[k] = 2 + a /\ ends[k] = 2 + Len(h[k])
      BY <1>12 DEF a
    <3> QED BY <2>3, <2>4, <3>1
  <2> QED BY <2>8, <2>9
<1>14. ASSUME NEW k \in 1..Many + 1
       PROVE  /\ ends[k - 1] <= at[k]
              /\ \A p \in ends[k - 1]..at[k] - 1, s \in SectionSet : f[p] # Tag(s)
  <2>1. at[k] = ends[k - 1] /\ at[k] \in Nat
    BY <1>12
  <2> QED BY <2>1
<1>15. Len(f) \in Nat /\ Len(f) >= 1 /\ m = [s \in SectionSet |-> m[s]]
  BY <1>9, <1>10 DEF IsPlain
<1>16. FileLies(f, m, at, ends)
  BY <1>10, <1>12, <1>13, <1>14, <1>15 DEF FileLies
<1> QED BY <1>16 DEF f

-----------------------------------------------------------------------------
(* The theorems.                                                           *)

\* What is asked of the models that are saved, and of the files that other programs made.
ModelsArePlain == \A m \in Models : IsPlain(m)
ShippedLie == \A s \in Shipped : \E at, ends : FileLies(s.file, s.model, at, ends)

(* Mdlx::write() and Mdlx::read() fit together: whatever names, sequences,  *)
(* textures, sound tracks and pivot points a model without materials,       *)
(* texture animations and geosets has, and however many, what was saved and *)
(* not cut is read to the end without an exception and as it was.           *)
THEOREM SavedModelsAreRead ==
    ASSUME ModelsArePlain
    PROVE  Spec => []SavedReadsBack
<1>1. FilesLie({"saved"})
  <2>1. \A m \in Models : \E at, ends : FileLies(File(m), m, at, ends)
    BY SavedLies DEF ModelsArePlain
  <2> QED BY <2>1 DEF FilesLie
<1>2. Init => ReadingInv({"saved"})
  BY <1>1, ReadingInvInit
<1>3. ReadingInv({"saved"}) /\ [Next]_vars => ReadingInv({"saved"})'
  BY <1>1, ReadingInvNext
<1>4. ReadingInv({"saved"}) => SavedReadsBack
  <2> SUFFICES ASSUME ReadingInv({"saved"}), by = "saved", ~cut, Ended
               PROVE  Complete
    BY DEF SavedReadsBack
  <2>1. by \in {"saved"}
    OBVIOUS
  <2> QED BY <2>1, DoneReading
<1> QED BY <1>2, <1>3, <1>4, PTL DEF Spec

(* The files of other programs are read whole: sections may be left out,    *)
(* and what is between two sections, or behind the last, may be anything    *)
(* that is not the tag of a section; it is passed over unit by unit, and    *)
(* neither taken for a section nor the reason to miss one.  Files with      *)
(* geosets, and layers with texture ids, are not among those ShippedLie     *)
(* names: they are not read.                                                *)
THEOREM ShippedModelsAreRead ==
    ASSUME ShippedLie
    PROVE  Spec => []ShippedIsRead
<1>1. FilesLie({"shipped"})
  BY DEF FilesLie, ShippedLie
<1>2. Init => ReadingInv({"shipped"})
  BY <1>1, ReadingInvInit
<1>3. ReadingInv({"shipped"}) /\ [Next]_vars => ReadingInv({"shipped"})'
  BY <1>1, ReadingInvNext
<1>4. ReadingInv({"shipped"}) => ShippedIsRead
  <2> SUFFICES ASSUME ReadingInv({"shipped"}), by = "shipped", ~cut, Ended
               PROVE  Complete
    BY DEF ShippedIsRead
  <2>1. by \in {"shipped"}
    OBVIOUS
  <2> QED BY <2>1, DoneReading
<1> QED BY <1>2, <1>3, <1>4, PTL DEF Spec

(* Where the end of such a file was lost and the reader does not throw, the *)
(* model it returns is the one that was written up to some section and has  *)
(* nothing of the ones behind: no section is half read, or read from the    *)
(* units of another.                                                        *)
THEOREM CutModelsLoseTheirEnd ==
    ASSUME ModelsArePlain, ShippedLie
    PROVE  Spec => []CutLosesLastSections
<1> DEFINE both == {"saved", "shipped"}
<1>1. FilesLie(both)
  <2>1. \A m \in Models : \E at, ends : FileLies(File(m), m, at, ends)
    BY SavedLies DEF ModelsArePlain
  <2> QED BY <2>1 DEF FilesLie, ShippedLie
<1>2. Init => ReadingInv(both)
  BY <1>1, ReadingInvInit
<1>3. ReadingInv(both) /\ [Next]_vars => ReadingInv(both)'
  BY <1>1, ReadingInvNext
<1>4. ReadingInv(both) => CutLosesLastSections
  <2> SUFFICES ASSUME ReadingInv(both) PROVE CutLosesLastSections
    OBVIOUS
  <2>1. CASE cut
    <3>1. by \in both
      BY <2>1 DEF ReadingInv
    <3> HIDE DEF both
    <3> QED BY <3>1, DoneReading
  <2>2. CASE ~cut
    BY <2>2 DEF CutLosesLastSections
  <2> QED BY <2>1, <2>2
<1> QED BY <1>2, <1>3, <1>4, PTL DEF Spec
=============================================================================
