---------------------------- MODULE MCMapFormats ----------------------------
(***************************************************************************)
(* Files for MapFormats, made from what each class reads: a file has the    *)
(* first of the choices everywhere but in at most Changes places.          *)
(***************************************************************************)
EXTENDS MapFormats, FiniteSets
LOCAL INSTANCE FiniteSetsExt

MCTriggerData ==
    (0 :> (<<"MapInit">> :> <<"nothing">>)) @@ (1 :> (<<"IsOn">> :> <<"trigger">>))
    @@ (2 :> ((<<"DoNothing">> :> <<>>) @@ (<<"Set">> :> <<"variable", "value">>)))
    @@ (3 :> ((<<"Now">> :> <<"real", "nothing">>) @@ (<<"Add">> :> <<"real", "real", "real">>)))

\* A choice: its value, whether read() takes it and whether write() gives it back.
Choice(v) == [v |-> v, valid |-> TRUE, canonical |-> TRUE]
Refused(v) == [v |-> v, valid |-> FALSE, canonical |-> FALSE]
Rewritten(v) == [v |-> v, valid |-> TRUE, canonical |-> FALSE]
Plain(values) == [k \in DOMAIN values |-> Choice(values[k])]

TextChoices(path, class) ==
    LET own == Plain(<<path>>)
    IN  IF class \in {"Camera", "Info", "Path", "MapTitle"}
        THEN own \o <<Choice(<<>>), Refused(Append(path, "long"))>> ELSE own

\* The first stored value of each member is the one written.
CodeChoices(i) ==
    LET stored == FoldSet(LAMBDA s, list : Append(list, s), <<>>, DOMAIN i.code)
        Written(s) == s = (CHOOSE r \in DOMAIN i.code : i.code[r] = i.code[s])
    IN  [k \in DOMAIN stored |->
            IF Written(stored[k]) THEN Choice(stored[k]) ELSE Rewritten(stored[k])]
        \o <<IF i.other = {} THEN Refused(IF i.n = 0 THEN "none" ELSE 7)
             ELSE Rewritten(IF i.n = 0 THEN "none" ELSE 7)>>

\* What the rest of the file depends on; after a code that is refused, nothing.
Member(i, stored) ==
    IF stored \in DOMAIN i.code THEN i.code[stored]
    ELSE CHOOSE m \in i.other \union {i.code[s] : s \in DOMAIN i.code} :
            i.other # {} => m \in i.other

NumChoices(f, class) ==
    CASE f = "version" -> Plain(<<3, 2, 1>>)
      [] f = "valueType" -> Plain(<<3, 0, 2, 4, 5, 6, 21>>) \o <<Rewritten(99)>>
      [] f = "type" -> Plain(<<2, 0, 1, 3>>) \o <<Refused(4)>>
      [] OTHER -> Plain(<<1, 2, 0>>)
CountChoices(class, depth) ==
    CASE class = "TriggerFunctionParameter" -> Plain(IF depth < 8 THEN <<0, 1>> ELSE <<0>>)
      [] class \in {"Info", "CampaignInfo"} -> Plain(<<0, 1, 2>>)
      [] OTHER -> Plain(<<1, 0, 2>>)
FunctionNames(env) ==
    CASE env.type = <<2>> -> Plain(<< <<"Set">>, <<"DoNothing">> >>) \o <<Refused(<<"Gone">>)>>
      [] env.type = <<0>> -> Plain(<< <<"MapInit">> >>)
      [] env.type = <<1>> -> Plain(<< <<"IsOn">> >>)
      [] env.type = <<3>> -> Plain(<< <<"Add">>, <<"Now">> >>)
      [] OTHER -> Plain(<< <<"Set">> >>)

\* A file in the making.
Draft(cells, env, changes) ==
    [cells |-> cells, env |-> env, changes |-> changes, valid |-> TRUE, canonical |-> TRUE]

\* Every choice for the next cell; f is what the values that follow depend on.
Take(d, f, choices, CellOf(_)) ==
    LET Took(k) ==
          [cells |-> d.cells \o CellOf(choices[k].v),
           env |-> (f :> choices[k].v) @@ d.env,
           changes |-> d.changes - (IF k = 1 THEN 0 ELSE 1),
           valid |-> d.valid /\ choices[k].valid,
           canonical |-> d.canonical /\ choices[k].canonical]
    IN  {Took(k) : k \in {j \in DOMAIN choices : j = 1 \/ d.changes > 0}}

TakeNum(d, f, n, choices) ==
    Take(d, f, [k \in DOMAIN choices |-> [choices[k] EXCEPT !.v = <<@>>]],
         LAMBDA v : <<Cell("num", n, v)>>)
TakeText(d, f, choices) == Take(d, f, choices, LAMBDA v : <<TextCell(v)>>)

\* The value of a modification, by its type.
MakeValue(d, i, path) ==
    LET stored == StoredAs(NumOf(d.env.valueType))
    IN  CASE stored \in {"word", "unknown"} -> {[d EXCEPT !.cells = Append(@, Cell("raw", 4, path))]}
          [] stored = "byte" -> {[d EXCEPT !.cells = Append(@, Cell("raw", 1, path))]}
          [] stored = "bool" -> TakeNum(d, i.f, 4, Plain(<<1, 0>>) \o <<Rewritten(7)>>)
          [] stored = "text" ->
                TakeText(d, i.f, Plain(<<path, <<>> >>) \o <<Refused(Append(path, "long"))>>)
          [] stored = "list" ->
                TakeText(d, i.f, Plain(<< <<"join", path, path>>, <<>>, <<"join", path>> >>))

RECURSIVE Make(_, _, _, _, _)
RECURSIVE MakeMany(_, _, _, _, _)
RECURSIVE MakeItem(_, _, _, _)

\* The objects of a list differ in their paths only through their number.
MakeMany(d, class, given, n, path) ==
    IF n = 0 THEN {d}
    ELSE UNION {MakeMany([e EXCEPT !.env = d.env], class, given, n - 1, path) :
                e \in Make([d EXCEPT !.env = given], ReadOf[class], class,
                           Append(path, ToString(n)), 1)}

Make(d, items, class, path, k) ==
    IF k > Len(items) THEN {d}
    ELSE UNION {Make(e, items, class, path, k + 1) : e \in MakeItem(d, items[k], class, path)}

MakeItem(d, i, class, path) ==
    LET own == IF i.t \in {"raw", "text"} THEN Append(path, i.f) ELSE path
        Sub(c, given, n) == MakeMany(d, c, given, n, Append(path, i.f))
    IN
    CASE i.t = "raw" -> {[d EXCEPT !.cells = Append(@, Cell("raw", i.n, own))]}
      [] i.t = "text" /\ class = "TriggerFunction" -> TakeText(d, i.f, FunctionNames(d.env))
      [] i.t = "text" -> TakeText(d, i.f, TextChoices(own, class))
      [] i.t = "num" -> TakeNum(d, i.f, i.n, NumChoices(i.f, class))
      [] i.t = "coded" /\ i.n = 0 ->
            Take(d, i.f, CodeChoices(i),
                 LAMBDA v : <<TextCell(IF v = "empty" THEN <<>> ELSE <<v>>)>>)
      [] i.t = "coded" ->
            {[e EXCEPT !.env[i.f] = Member(i, @[1])] :
                e \in TakeNum(d, i.f, i.n, CodeChoices(i))}
      [] i.t = "count" -> TakeNum(d, i.f, 4, CountChoices(class, Len(path)))
      [] i.t = "list" -> Sub(i.class, Inherited(d.env, i.inherit), NumOf(d.env[i.f]))
      [] i.t = "one" -> Sub(i.class, i.given, 1)
      [] i.t = "area" -> Sub(i.class, <<>>, NumOf(d.env[i.w]) * NumOf(d.env[i.h]))
      [] i.t = "when" -> IF d.env[i.f] \in i.in THEN Make(d, i.items, class, path, 1) ELSE {d}
      [] i.t = "magic" -> {[d EXCEPT !.cells = Append(@, Cell("raw", i.n, <<"magic", i.id>>))]}
      [] i.t = "end" -> {[d EXCEPT !.cells = Append(@, NumCell(i.n, 0))]}
      [] i.t = "lookup" -> {d}
      [] i.t = "arguments" ->
            IF d.valid THEN Sub("TriggerFunctionParameter", <<>>, Arguments(d.env)) ELSE {d}
      [] i.t = "single" -> Sub("Set", Inherited(d.env, {"version", "type"}), 1)
      [] i.t = "value" -> MakeValue(d, i, Append(path, i.f))
      [] i.t = "lengths" ->
            LET Text(n, t) == <<NumCell(4, n), TextCell(t)>>
                value == Append(path, i.f)
            IN  Take(d, i.f,
                     Plain(<< Text(2, value), <<>>, Text(2, value) \o <<NumCell(4, 0)>> \o Text(2, value) >>)
                     \o <<Rewritten(Text(1, <<>>)),
                          Refused(Text(MaxText + 1, Append(value, "long")))>>,
                     LAMBDA v : <<NumCell(4, Cardinality({k \in DOMAIN v : v[k].k = "num"}))>> \o v)
      [] i.t = "rows" ->
            LET Row(n) == [k \in 1..(NumOf(d.env.columns) + 1) |->
                              Cell("raw", 4, path \o <<i.f, ToString(n), ToString(k)>>)]
            IN  Take(d, i.f, Plain(<< Row(1), <<>>, Row(1) \o Row(2) >>),
                     LAMBDA v : <<NumCell(4, Len(v) \div (NumOf(d.env.columns) + 1))>> \o v)

FilesOf(f, changes, given) ==
    {[cells |-> d.cells, given |-> given, valid |-> d.valid, canonical |-> d.canonical] :
        d \in Make(Draft(<<>>, given, changes), ReadOf[f], f, <<f>>, 1)}

\* What the constructors are given: the size of the shadow, the type of the custom
\* objects.
Given(f) ==
    CASE f = "Shadow" -> {("width" :> <<2>>) @@ ("height" :> <<1>>)}
      [] f = "CustomUnits" -> {"type" :> <<"none">>, "type" :> <<"Abilities">>}
      [] OTHER -> {<<>>}

CONSTANT Changes   \* in the files of a format

MCFormats ==
    {"Environment", "Shadow", "Pathmap", "Trees", "Rects", "Cameras", "Sounds",
     "ImportedFiles", "MenuMinimap", "Info", "CampaignInfo", "Triggers",
     "CustomTextTriggers", "CustomUnits"}
MCFiles ==
    [f \in MCFormats \union {"UnitsAndItems"} |-> UNION {FilesOf(f, Changes, g) : g \in Given(f)}]
    @@ [f \in {"CustomObjectsCollection"} |-> FilesOf(f, 0, <<>>)]
=============================================================================
