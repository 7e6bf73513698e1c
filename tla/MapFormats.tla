----------------------------- MODULE MapFormats -----------------------------
(***************************************************************************)
(* The binary file formats of a map (src/src/map): every class reads and   *)
(* writes itself with two functions of its own, which have to agree on     *)
(* the fields, their widths and their order, although nothing makes them.  *)
(*                                                                         *)
(* Each function is translated into a sequence of items, one per value it  *)
(* reads or writes, loops and conditions included.  Get and Put interpret  *)
(* the items over a file that is a sequence of cells: one cell per value   *)
(* written, with its width in bytes.  A value nobody branches on is the    *)
(* path of field names that leads to it, so that two fields in the wrong   *)
(* order are told apart.  A read of another width than the cell has is     *)
(* "garbled": the program goes on with shifted bytes from there.           *)
(***************************************************************************)
EXTENDS Naturals, Sequences, TLC
LOCAL INSTANCE SequencesExt

CONSTANTS
    TriggerData,   \* per function type, the parameter kinds of each function
    MaxText        \* maxLength of readString: 1024

-----------------------------------------------------------------------------
(* The items.                                                              *)

\* Values of n bytes each that the code only stores.
Raw(n, fields) == [i \in DOMAIN fields |-> [t |-> "raw", f |-> fields[i], n |-> n]]
\* Zero-terminated strings.
Texts(fields) == [i \in DOMAIN fields |-> [t |-> "text", f |-> fields[i]]]
\* A number of n bytes the code computes with.
Num(f, n) == <<[t |-> "num", f |-> f, n |-> n]>>
\* A number or string that stands for a member: code gives the member of each
\* stored value, other the one of every other stored value, none for an exception.
Coded(f, n, code, other) ==
    <<[t |-> "coded", f |-> f, n |-> n, code |-> code, other |-> other]>>
\* A count and as many objects of a class; fields of inherit are handed to their
\* constructor.
Many(f, class, inherit) ==
    <<[t |-> "count", f |-> f], [t |-> "list", f |-> f, class |-> class, inherit |-> inherit]>>
\* The count, or the objects, alone.
Count(f) == <<[t |-> "count", f |-> f]>>
List(f, class) == <<[t |-> "list", f |-> f, class |-> class, inherit |-> {}]>>
\* Exactly one object, without a count, and what its constructor is given.
One(f, class, given) == <<[t |-> "one", f |-> f, class |-> class, given |-> given]>>
\* w times h objects, one row (first = "y") or one column (first = "x") after
\* the other.
Area(f, w, h, class, first) ==
    <<[t |-> "area", f |-> f, w |-> w, h |-> h, class |-> class, first |-> first]>>
\* Items only present if the member f is in a set.
When(f, in, items) == <<[t |-> "when", f |-> f, in |-> in, items |-> items]>>
\* A constant the reader compares (Magic) or ignores (End).
Magic(n, id) == <<[t |-> "magic", n |-> n, id |-> id]>>
End(n) == <<[t |-> "end", n |-> n]>>
\* The remaining ones stand for one place in the code each.
Special(t, f) == <<[t |-> t, f |-> f]>>

-----------------------------------------------------------------------------
(* Cells and the primitive functions of utilities.hpp.                     *)

Cell(k, n, v) == [k |-> k, n |-> n, v |-> v]

\* The number of characters of a text value.
TextLength(v) ==
    CASE v = <<>> -> 0
      [] v # <<>> /\ v[Len(v)] = "long" -> MaxText
      [] OTHER -> 1

TextCell(v) == Cell("text", TextLength(v) + 1, v)

\* The reader's state: the outcome so far, the object and what is left to read.
Reader(object, cells) == [out |-> "ok", object |-> object, rest |-> cells]

Stop(st, out) == [st EXCEPT !.out = out]

Store(st, f, v) ==
    [st EXCEPT !.object = (f :> v) @@ @, !.rest = Tail(@)]

\* read(): throws unless all bytes are there.
ReadRaw(st, n, f) ==
    CASE st.rest = <<>> -> Stop(st, "thrown")
      [] st.rest # <<>> /\ Head(st.rest).n # n -> Stop(st, "garbled")
      [] OTHER -> Store(st, f, Head(st.rest).v)

\* A mutant for WellFormedLoads: a text of any length.
ReadLongText(st, f) ==
    CASE st.rest = <<>> -> Stop(st, "thrown")
      [] st.rest # <<>> /\ Head(st.rest).k # "text" -> Stop(st, "garbled")
      [] OTHER -> Store(st, f, Head(st.rest).v)
\* A mutant for CutIsRefused: the end of the file ends a text.
ReadTextToEnd(st, f) ==
    CASE st.rest = <<>> -> [st EXCEPT !.object = (f :> <<>>) @@ @]
      [] st.rest # <<>> /\ Head(st.rest).k # "text" -> Stop(st, "garbled")
      [] st.rest # <<>> /\ TextLength(Head(st.rest).v) >= MaxText -> Stop(st, "thrown")
      [] OTHER -> Store(st, f, Head(st.rest).v)

\* readString(): throws at the end of the stream and as soon as maxLength
\* characters are read.
ReadText(st, f) ==
    CASE st.rest = <<>> -> Stop(st, "thrown")
      [] st.rest # <<>> /\ Head(st.rest).k # "text" -> Stop(st, "garbled")
      [] st.rest # <<>> /\ TextLength(Head(st.rest).v) >= MaxText -> Stop(st, "thrown")
      [] OTHER -> Store(st, f, Head(st.rest).v)

\* A number: a stored value that is none is shifted bytes.
ReadNum(st, n, f) ==
    LET next == ReadRaw(st, n, f)
    IN  IF next.out = "ok" /\ Head(st.rest).k # "num" THEN Stop(st, "garbled") ELSE next

\* boost::algorithm::join and split with token_compress_on: no element and one
\* empty element are the same text.
Join(list) == IF list \in {<<>>, << <<>> >>} THEN <<>> ELSE <<"join">> \o list
Split(text) == IF text = <<>> THEN << <<>> >> ELSE Tail(text)

\* Members that are numbers are kept as tuples of one, to be comparable.
NumOf(v) == v[1]
NumCell(n, number) == Cell("num", n, <<number>>)

-----------------------------------------------------------------------------
(* What the classes read.                                                  *)

\* FileFormat::read
FileFormatRead == Magic(4, "fileId") \o Raw(4, <<"m_version">>)
FileFormatWrite == Magic(4, "fileId") \o Raw(4, <<"m_version">>)

IntBool == (0 :> 0) @@ (1 :> 1)

EnvironmentRead ==
    FileFormatRead \o Raw(1, <<"mainTileset">>) \o Coded("customized", 4, IntBool, {1})
    \o Many("groundTilesetsIds", "TilesetId", {}) \o Many("cliffTilesetsIds", "TilesetId", {})
    \o Num("maxX", 4) \o Num("maxY", 4) \o Raw(4, <<"centerOffsetX", "centerOffsetY">>)
    \o Area("tilepoints", "maxX", "maxY", "Tilepoint", "y")
EnvironmentWrite ==
    FileFormatWrite \o Raw(1, <<"mainTileset">>) \o Coded("customized", 4, IntBool, {1})
    \o Many("groundTilesetsIds", "TilesetId", {}) \o Many("cliffTilesetsIds", "TilesetId", {})
    \o Num("maxX", 4) \o Num("maxY", 4) \o Raw(4, <<"centerOffsetX", "centerOffsetY">>)
    \o Area("tilepoints", "maxX", "maxY", "Tilepoint", "y")

\* The seven bytes of a tilepoint are a struct of bit fields; the shadow
\* boundary is a bit of its own next to the other four flags.
TilepointRead ==
    Raw(2, <<"groundHeight">>) \o Coded("shadowBoundary", 1, IntBool, {1})
    \o Raw(1, <<"waterLevel", "flags", "groundTextureType", "textureDetails",
                "cliffTextureType", "layerHeight">>)
TilepointWrite ==
    Raw(2, <<"groundHeight">>) \o Coded("shadowBoundary", 1, IntBool, {1})
    \o Raw(1, <<"waterLevel", "flags", "groundTextureType", "textureDetails",
                "cliffTextureType", "layerHeight">>)

\* The shadow has its size from the constructor, not from the file; the
\* sixteen points of a tile are one object here.
ShadowRead == Area("tilepoints", "width", "height", "ShadowPoint", "x")
ShadowWrite == Area("tilepoints", "width", "height", "ShadowPoint", "x")

PathmapRead ==
    Magic(4, "fileId") \o Raw(4, <<"m_version">>) \o Num("width", 4) \o Num("height", 4)
    \o Area("tilepoints", "width", "height", "PathPoint", "x")
PathmapWrite ==
    Magic(4, "fileId") \o Raw(4, <<"m_version">>) \o Num("width", 4) \o Num("height", 4)
    \o Area("tilepoints", "width", "height", "PathPoint", "x")

TreesRead == FileFormatRead \o Raw(4, <<"subVersion">>) \o Many("trees", "Tree", {})
TreesWrite == FileFormatWrite \o Raw(4, <<"subVersion">>) \o Many("trees", "Tree", {})

TreeRead ==
    Raw(4, <<"treeId", "variation">>) \o Raw(12, <<"position">>) \o Raw(4, <<"angle">>)
    \o Raw(12, <<"scale">>) \o Raw(1, <<"flags", "life">>) \o Raw(4, <<"customId">>)
TreeWrite ==
    Raw(4, <<"treeId", "variation">>) \o Raw(12, <<"position">>) \o Raw(4, <<"angle">>)
    \o Raw(12, <<"scale">>) \o Raw(1, <<"flags", "life">>) \o Raw(4, <<"customId">>)

RectsRead == Raw(4, <<"m_version">>) \o Many("rects", "Rect", {})
RectsWrite == Raw(4, <<"m_version">>) \o Many("rects", "Rect", {})

RectRead ==
    Raw(4, <<"left", "bottom", "right", "top">>) \o Texts(<<"name">>)
    \o Raw(4, <<"index", "weatherEffectId">>) \o Texts(<<"soundName">>)
    \o Raw(3, <<"color">>) \o End(1)
RectWrite ==
    Raw(4, <<"left", "bottom", "right", "top">>) \o Texts(<<"name">>)
    \o Raw(4, <<"index", "weatherEffectId">>) \o Texts(<<"soundName">>)
    \o Raw(3, <<"color">>) \o End(1)

CamerasRead == Raw(4, <<"m_version">>) \o Many("cameras", "Camera", {})
CamerasWrite == Raw(4, <<"m_version">>) \o Many("cameras", "Camera", {})

CameraRead ==
    Raw(4, <<"targetX", "targetY", "zOffset", "rotation", "angleOfAttack", "distance",
             "roll", "fieldOfView", "farZ", "unknown">>) \o Texts(<<"name">>)
CameraWrite ==
    Raw(4, <<"targetX", "targetY", "zOffset", "rotation", "angleOfAttack", "distance",
             "roll", "fieldOfView", "farZ", "unknown">>) \o Texts(<<"name">>)

SoundsRead == Raw(4, <<"m_version">>) \o Many("sounds", "Sound", {})
SoundsWrite == Raw(4, <<"m_version">>) \o Many("sounds", "Sound", {})

\* The effect is stored as text; eight are known and any other is an exception.
EaxEffects ==
    [empty |-> "UseDefault", DefaultEAXON |-> "Default", CombatSoundsEAX |-> "Combat",
     KotoDrumsEAX |-> "Drums", SpellsEAX |-> "Spells", MissilesEAX |-> "Missiles",
     HeroAcksEAX |-> "HeroSpeech", DoodadsEAX |-> "Doodads"]
SoundRead ==
    Texts(<<"name", "file">>) \o Coded("eaxEffects", 0, EaxEffects, {})
    \o Raw(4, <<"flags", "fadeInRate", "fadeOutRate", "volume", "pitch", "unknown0", "unknown1",
                "channel", "minDistance", "maxDistance", "distanceCutoff", "unknown2",
                "unknown3", "unknown4", "unknown5", "unknown6", "unknown7">>)
SoundWrite ==
    Texts(<<"name", "file">>) \o Coded("eaxEffects", 0, EaxEffects, {})
    \o Raw(4, <<"flags", "fadeInRate", "fadeOutRate", "volume", "pitch", "unknown0", "unknown1",
                "channel", "minDistance", "maxDistance", "distanceCutoff", "unknown2",
                "unknown3", "unknown4", "unknown5", "unknown6", "unknown7">>)

ImportedFilesRead == Raw(4, <<"m_version">>) \o Many("paths", "Path", {})
ImportedFilesWrite == Raw(4, <<"m_version">>) \o Many("paths", "Path", {})

\* Four bytes say whether a path has the prefix, two of them each way, and every
\* other one counts as none.
PathRead ==
    Coded("hasPrefix", 1, (5 :> 1) @@ (8 :> 1) @@ (10 :> 0) @@ (13 :> 0), {0})
    \o Texts(<<"path">>)
PathWrite == Coded("hasPrefix", 1, (5 :> 1) @@ (10 :> 0), {0}) \o Texts(<<"path">>)

MenuMinimapRead == Raw(4, <<"m_version">>) \o Many("marks", "Mark", {})
MenuMinimapWrite == Raw(4, <<"m_version">>) \o Many("marks", "Mark", {})

MarkRead == Raw(4, <<"iconType">>) \o Raw(8, <<"vertex">>) \o Raw(4, <<"color">>)
MarkWrite == Raw(4, <<"iconType">>) \o Raw(8, <<"vertex">>) \o Raw(4, <<"color">>)

\* The arrays of plain values, by what one element is.
ElementRead ==
    [TilesetId |-> Raw(4, <<"id">>), ShadowPoint |-> Raw(16, <<"points">>),
     PathPoint |-> Raw(1, <<"type">>)]

PlayerRead ==
    Raw(4, <<"number", "type", "race">>) \o Coded("hasFixedStartPosition", 4, IntBool, {1})
    \o Texts(<<"name">>)
    \o Raw(8, <<"position">>) \o Raw(4, <<"allowLowPriorityFlags", "allowHighPriorityFlags">>)
PlayerWrite ==
    Raw(4, <<"number", "type", "race">>) \o Coded("hasFixedStartPosition", 4, IntBool, {1})
    \o Texts(<<"name">>)
    \o Raw(8, <<"position">>) \o Raw(4, <<"allowLowPriorityFlags", "allowHighPriorityFlags">>)

ForceRead == Raw(4, <<"flags", "playerMask">>) \o Texts(<<"name">>)
ForceWrite == Raw(4, <<"flags", "playerMask">>) \o Texts(<<"name">>)

UpgradeAvailabilityRead == Raw(4, <<"playerMask", "upgrade", "level", "availability">>)
UpgradeAvailabilityWrite == Raw(4, <<"playerMask", "upgrade", "level", "availability">>)

TechAvailabilityRead == Raw(4, <<"playerMask", "tech">>)
TechAvailabilityWrite == Raw(4, <<"playerMask", "tech">>)

RandomUnitTableRead == Many("groups", "Group", {})
RandomUnitTableWrite == Many("groups", "Group", {})

\* One row after the other: its chance, then its id in every column.
GroupRead ==
    Raw(4, <<"number">>) \o Texts(<<"name">>) \o Many("columns", "Column", {})
    \o Special("rows", "chances")
GroupWrite ==
    Raw(4, <<"number">>) \o Texts(<<"name">>) \o Many("columns", "Column", {})
    \o Special("rows", "chances")
ColumnRead == Raw(4, <<"type">>)
ColumnWrite == Raw(4, <<"type">>)

InfoRead ==
    Raw(4, <<"m_version", "mapVersion", "editorVersion">>)
    \o Texts(<<"name", "author", "description", "playersRecommended">>)
    \o Raw(32, <<"cameraBoundsJass">>) \o Raw(16, <<"cameraBounds">>)
    \o Raw(4, <<"playableWidth", "playableHeight", "flags">>) \o Raw(1, <<"mainGroundType">>)
    \o Raw(4, <<"campaignBackgroundIndex">>)
    \o Texts(<<"loadingScreenText", "loadingScreenTitle", "loadingScreenSubtitle">>)
    \o Raw(4, <<"loadingScreenIndex">>)
    \o Texts(<<"prologueScreenText", "prologueScreenTitle", "prologueScreenSubtitle">>)
    \o Many("players", "Player", {}) \o Many("forces", "Force", {})
    \o Many("upgradeAvailabilities", "UpgradeAvailability", {})
    \o Many("techAvailabilities", "TechAvailability", {})
    \o Many("randomUnitTables", "RandomUnitTable", {})
InfoWrite ==
    Raw(4, <<"m_version", "mapVersion", "editorVersion">>)
    \o Texts(<<"name", "author", "description", "playersRecommended">>)
    \o Raw(32, <<"cameraBoundsJass">>) \o Raw(16, <<"cameraBounds">>)
    \o Raw(4, <<"playableWidth", "playableHeight", "flags">>) \o Raw(1, <<"mainGroundType">>)
    \o Raw(4, <<"campaignBackgroundIndex">>)
    \o Texts(<<"loadingScreenText", "loadingScreenTitle", "loadingScreenSubtitle">>)
    \o Raw(4, <<"loadingScreenIndex">>)
    \o Texts(<<"prologueScreenText", "prologueScreenTitle", "prologueScreenSubtitle">>)
    \o Many("players", "Player", {}) \o Many("forces", "Force", {})
    \o Many("upgradeAvailabilities", "UpgradeAvailability", {})
    \o Many("techAvailabilities", "TechAvailability", {})
    \o Many("randomUnitTables", "RandomUnitTable", {})

\* One number is the kind of difficulty and whether there are maps of the
\* expansion.
CampaignFlags == [n \in 0..3 |-> [variable |-> n % 2 = 1, hasW3x |-> n >= 2]]

MapTitleRead ==
    Coded("isVisible", 4, IntBool, {1}) \o Texts(<<"chapterTitle", "mapTitle", "path">>)
MapTitleWrite ==
    Coded("isVisible", 4, IntBool, {1}) \o Texts(<<"chapterTitle", "mapTitle", "path">>)
CampaignMapRead == Texts(<<"unknown", "path">>)
CampaignMapWrite == Texts(<<"unknown", "path">>)

\* Both counts come before the objects of the first list.
CampaignInfoRead ==
    Raw(4, <<"m_version", "campaignVersion", "editorVersion">>)
    \o Texts(<<"name", "difficulty", "author", "description">>)
    \o Coded("difficultyType", 4, CampaignFlags, {})
    \o Raw(4, <<"backgroundScreenIndex">>) \o Texts(<<"backgroundScreen", "minimapPicture">>)
    \o Raw(4, <<"ambientSoundIndex">>) \o Texts(<<"ambientSound">>)
    \o Raw(4, <<"terrainFogIndex", "fogStartZHeight", "fogEndZHeight", "fogDensity",
                "fogColor", "race">>)
    \o Count("mapTitles") \o Count("maps")
    \o List("mapTitles", "MapTitle") \o List("maps", "CampaignMap")
CampaignInfoWrite ==
    Raw(4, <<"m_version", "campaignVersion", "editorVersion">>)
    \o Texts(<<"name", "difficulty", "author", "description">>)
    \o Coded("difficultyType", 4, CampaignFlags, {})
    \o Raw(4, <<"backgroundScreenIndex">>) \o Texts(<<"backgroundScreen", "minimapPicture">>)
    \o Raw(4, <<"ambientSoundIndex">>) \o Texts(<<"ambientSound">>)
    \o Raw(4, <<"terrainFogIndex", "fogStartZHeight", "fogEndZHeight", "fogDensity",
                "fogColor", "race">>)
    \o Count("mapTitles") \o Count("maps")
    \o List("mapTitles", "MapTitle") \o List("maps", "CampaignMap")

TriggersRead ==
    FileFormatRead \o Many("categories", "TriggerCategory", {}) \o Raw(4, <<"unknown0">>)
    \o Many("variables", "Variable", {}) \o Many("triggers", "Trigger", {})
TriggersWrite ==
    FileFormatWrite \o Many("categories", "TriggerCategory", {}) \o Raw(4, <<"unknown0">>)
    \o Many("variables", "Variable", {}) \o Many("triggers", "Trigger", {})

TriggerCategoryRead == Raw(4, <<"index">>) \o Texts(<<"name">>)
TriggerCategoryWrite == Raw(4, <<"index">>) \o Texts(<<"name">>)

VariableRead ==
    Texts(<<"name", "type">>) \o Raw(4, <<"number">>) \o Coded("isArray", 4, IntBool, {1})
    \o Coded("isInitialized", 4, IntBool, {1}) \o Texts(<<"initialValue">>)
VariableWrite ==
    Texts(<<"name", "type">>) \o Raw(4, <<"number">>) \o Coded("isArray", 4, IntBool, {1})
    \o Coded("isInitialized", 4, IntBool, {1}) \o Texts(<<"initialValue">>)

\* lexical_cast<bool> of a number takes 0 and 1 and throws for any other one.
\* The file has whether a trigger is initially off.
TriggerRead ==
    Texts(<<"name", "description">>) \o Coded("isEnabled", 4, IntBool, {})
    \o Coded("isCustomText", 4, IntBool, {})
    \o Coded("isInitiallyOn", 4, (0 :> 1) @@ (1 :> 0), {})
    \o Raw(4, <<"unknown", "category">>) \o Many("functions", "TriggerFunction", {})
\* A mutant for SaveKeepsFile: what read() inverts is not inverted back.
TriggerWriteAsIs ==
    Texts(<<"name", "description">>) \o Coded("isEnabled", 4, IntBool, {})
    \o Coded("isCustomText", 4, IntBool, {}) \o Coded("isInitiallyOn", 4, IntBool, {})
    \o Raw(4, <<"unknown", "category">>) \o Many("functions", "TriggerFunction", {})

TriggerWrite ==
    Texts(<<"name", "description">>) \o Coded("isEnabled", 4, IntBool, {})
    \o Coded("isCustomText", 4, IntBool, {})
    \o Coded("isInitiallyOn", 4, (0 :> 1) @@ (1 :> 0), {})
    \o Raw(4, <<"unknown", "category">>) \o Many("functions", "TriggerFunction", {})

\* The number of parameters is in TriggerData, not in the file.
TriggerFunctionRead ==
    Num("type", 4) \o Texts(<<"name">>) \o Special("lookup", "name")
    \o Coded("isEnabled", 4, IntBool, {1}) \o Special("arguments", "parameters")
TriggerFunctionWrite ==
    Num("type", 4) \o Texts(<<"name">>) \o Coded("isEnabled", 4, IntBool, {1})
    \o List("parameters", "TriggerFunctionParameter")

TriggerFunctionParameterRead ==
    Raw(4, <<"type">>) \o Texts(<<"value">>) \o Many("functions", "TriggerFunction", {})
    \o Many("parameters", "TriggerFunctionParameter", {})
TriggerFunctionParameterWrite ==
    Raw(4, <<"type">>) \o Texts(<<"value">>) \o Many("functions", "TriggerFunction", {})
    \o Many("parameters", "TriggerFunctionParameter", {})

\* Every text has its length before it, the terminating zero included, and an
\* empty text is the length 0 alone.
CustomTextTriggersRead == Raw(4, <<"m_version">>) \o Special("lengths", "triggerTexts")
CustomTextTriggersWrite == Raw(4, <<"m_version">>) \o Special("lengths", "triggerTexts")

UnitsAndItemsRead ==
    FileFormatRead \o Raw(4, <<"subVersion">>) \o Many("unitsAndItems", "UnitAndItem", {})
UnitsAndItemsWrite ==
    FileFormatWrite \o Raw(4, <<"subVersion">>) \o Many("unitsAndItems", "UnitAndItem", {})

\* The flag after the abilities chooses what follows and is not kept.
UnitAndItemRead ==
    Raw(4, <<"typeId", "variation">>) \o Raw(12, <<"position">>) \o Raw(4, <<"angle">>)
    \o Raw(12, <<"scale">>) \o Raw(4, <<"typeId2">>) \o Raw(1, <<"flags">>)
    \o Raw(4, <<"unknownX", "playerNumber">>) \o Raw(1, <<"unknown0", "unknown1">>)
    \o Raw(4, <<"hitPoints", "manaPoints", "itemTableIndex">>)
    \o Many("droppedItemSets", "DroppedItemSet", {})
    \o Raw(4, <<"gold", "targetAcquisition", "heroLevel", "strength", "agility",
                "intelligence">>)
    \o Many("inventoryItems", "InventoryItem", {})
    \o Many("abilityModifications", "AbilityModification", {})
    \o Coded("randomFlag", 4, [n \in 0..2 |-> n], {})
    \o When("randomFlag", {0}, Raw(3, <<"level">>) \o Raw(1, <<"itemClass">>))
    \o When("randomFlag", {1}, Raw(4, <<"unitGroupNumber", "positionNumber">>))
    \o When("randomFlag", {2}, Many("randomUnits", "RandomUnit", {}))
    \o Raw(4, <<"customColor", "waygateDestination", "creationNumber", "unknown2">>)
\* What follows the index of the item table is not implemented.
UnitAndItemWrite ==
    Raw(4, <<"typeId", "variation">>) \o Raw(12, <<"position">>) \o Raw(4, <<"angle">>)
    \o Raw(12, <<"scale">>) \o Raw(4, <<"typeId2">>) \o Raw(1, <<"flags">>)
    \o Raw(4, <<"unknownX", "playerNumber">>) \o Raw(1, <<"unknown0", "unknown1">>)
    \o Raw(4, <<"hitPoints", "manaPoints", "itemTableIndex">>)

DroppedItemSetRead == Many("dropableItems", "DropableItem", {})
DroppedItemSetWrite == Many("dropableItems", "DropableItem", {})
DropableItemRead == Raw(4, <<"itemId", "dropChance">>)
DropableItemWrite == Raw(4, <<"itemId", "dropChance">>)
InventoryItemRead == Raw(4, <<"inventorySlot", "itemId">>)
InventoryItemWrite == Raw(4, <<"inventorySlot", "itemId">>)
AbilityModificationRead == Raw(4, <<"abilityId", "active", "level">>)
AbilityModificationWrite == Raw(4, <<"abilityId", "active", "level">>)
RandomUnitRead == Raw(4, <<"unitId", "chance">>)
RandomUnitWrite == Raw(4, <<"unitId", "chance">>)

\* From version 3 on (Reforged) an object has sets of modifications.
SetVersions == {<<3>>}
CustomUnitsRead ==
    Num("version", 4) \o Many("originalTable", "Unit", {"version", "type"})
    \o Many("customTable", "Unit", {"version", "type"})
CustomUnitsWrite ==
    Num("version", 4) \o Many("originalTable", "Unit", {"version", "type"})
    \o Many("customTable", "Unit", {"version", "type"})

\* The unit of an older version has one set and no count.
UnitRead ==
    Raw(4, <<"originalId", "customId">>)
    \o When("version", SetVersions, Many("sets", "Set", {"version", "type"}))
    \o When("version", {<<1>>, <<2>>}, Special("single", "sets"))
\* A mutant for RoundTrip: the version is forgotten.
UnitWriteAlwaysSets == Raw(4, <<"originalId", "customId">>) \o Count("sets") \o List("sets", "Set")

UnitWrite ==
    Raw(4, <<"originalId", "customId">>) \o When("version", SetVersions, Count("sets"))
    \o List("sets", "Set")

SetRead ==
    When("version", SetVersions, Raw(4, <<"flag">>))
    \o Many("modifications", "Modification", {"type"})
SetWrite ==
    When("version", SetVersions, Raw(4, <<"flag">>))
    \o Many("modifications", "Modification", {"type"})

\* The modifications of doodads, abilities and upgrades have a level and a
\* pointer; those of CustomUnits are of no type.
LevelTypes == {<<"Doodads">>, <<"Abilities">>, <<"Upgrades">>}
ModificationRead ==
    Raw(4, <<"id">>) \o Num("valueType", 4)
    \o When("type", LevelTypes, Raw(4, <<"level", "data">>))
    \o Special("value", "value") \o End(4)
ModificationWrite ==
    Raw(4, <<"id">>) \o Num("valueType", 4)
    \o When("type", LevelTypes, Raw(4, <<"level", "data">>))
    \o Special("value", "value") \o End(4)

\* How the value of each type is stored; the value of an unknown type becomes an
\* integer.
StoredAs(valueType) ==
    CASE valueType \in {0, 1, 2} -> "word"
      [] valueType = 4 -> "bool"
      [] valueType = 5 -> "byte"
      [] valueType \in {3} \union (8..14) \union (19..21) -> "text"
      [] valueType \in {6, 7} \union (15..18) -> "list"
      [] OTHER -> "unknown"

\* Seven tables, each after a word that says whether it is there; write() stores
\* the tables alone.
CollectionTypes ==
    <<"Units", "Items", "Destructibles", "Doodads", "Abilities", "Buffs", "Upgrades">>
CustomObjectsCollectionRead ==
    Raw(4, <<"version">>)
    \o FlattenSeq([i \in DOMAIN CollectionTypes |->
          LET type == CollectionTypes[i] IN
          Coded("has" \o type, 4, IntBool, {1})
          \o When("has" \o type, {1}, One(type, "CustomUnits", "type" :> <<type>>))])
CustomObjectsCollectionWrite ==
    Raw(4, <<"version">>)
    \o FlattenSeq([i \in DOMAIN CollectionTypes |->
          LET type == CollectionTypes[i] IN
          When("has" \o type, {1}, One(type, "CustomUnits", "type" :> <<type>>))])

-----------------------------------------------------------------------------
(* Which class reads and writes what.                                      *)

ReadOf ==
    [Environment |-> EnvironmentRead, Tilepoint |-> TilepointRead, Shadow |-> ShadowRead,
     Pathmap |-> PathmapRead, Trees |-> TreesRead, Tree |-> TreeRead, Rects |-> RectsRead,
     Rect |-> RectRead, Cameras |-> CamerasRead, Camera |-> CameraRead,
     Sounds |-> SoundsRead, Sound |-> SoundRead, ImportedFiles |-> ImportedFilesRead,
     Path |-> PathRead, MenuMinimap |-> MenuMinimapRead, Mark |-> MarkRead,
     Info |-> InfoRead, Player |-> PlayerRead, Force |-> ForceRead,
     UpgradeAvailability |-> UpgradeAvailabilityRead,
     TechAvailability |-> TechAvailabilityRead, RandomUnitTable |-> RandomUnitTableRead,
     Group |-> GroupRead, Column |-> ColumnRead, CampaignInfo |-> CampaignInfoRead,
     MapTitle |-> MapTitleRead, CampaignMap |-> CampaignMapRead, Triggers |-> TriggersRead,
     TriggerCategory |-> TriggerCategoryRead, Variable |-> VariableRead,
     Trigger |-> TriggerRead, TriggerFunction |-> TriggerFunctionRead,
     TriggerFunctionParameter |-> TriggerFunctionParameterRead,
     CustomTextTriggers |-> CustomTextTriggersRead, UnitsAndItems |-> UnitsAndItemsRead,
     UnitAndItem |-> UnitAndItemRead, DroppedItemSet |-> DroppedItemSetRead,
     DropableItem |-> DropableItemRead, InventoryItem |-> InventoryItemRead,
     AbilityModification |-> AbilityModificationRead, RandomUnit |-> RandomUnitRead,
     CustomUnits |-> CustomUnitsRead, Unit |-> UnitRead, Set |-> SetRead,
     Modification |-> ModificationRead,
     CustomObjectsCollection |-> CustomObjectsCollectionRead] @@ ElementRead
WriteOf ==
    [Environment |-> EnvironmentWrite, Tilepoint |-> TilepointWrite, Shadow |-> ShadowWrite,
     Pathmap |-> PathmapWrite, Trees |-> TreesWrite, Tree |-> TreeWrite,
     Rects |-> RectsWrite, Rect |-> RectWrite, Cameras |-> CamerasWrite,
     Camera |-> CameraWrite, Sounds |-> SoundsWrite, Sound |-> SoundWrite,
     ImportedFiles |-> ImportedFilesWrite, Path |-> PathWrite,
     MenuMinimap |-> MenuMinimapWrite, Mark |-> MarkWrite, Info |-> InfoWrite,
     Player |-> PlayerWrite, Force |-> ForceWrite,
     UpgradeAvailability |-> UpgradeAvailabilityWrite,
     TechAvailability |-> TechAvailabilityWrite, RandomUnitTable |-> RandomUnitTableWrite,
     Group |-> GroupWrite, Column |-> ColumnWrite, CampaignInfo |-> CampaignInfoWrite,
     MapTitle |-> MapTitleWrite, CampaignMap |-> CampaignMapWrite,
     Triggers |-> TriggersWrite, TriggerCategory |-> TriggerCategoryWrite,
     Variable |-> VariableWrite, Trigger |-> TriggerWrite,
     TriggerFunction |-> TriggerFunctionWrite,
     TriggerFunctionParameter |-> TriggerFunctionParameterWrite,
     CustomTextTriggers |-> CustomTextTriggersWrite, UnitsAndItems |-> UnitsAndItemsWrite,
     UnitAndItem |-> UnitAndItemWrite, DroppedItemSet |-> DroppedItemSetWrite,
     DropableItem |-> DropableItemWrite, InventoryItem |-> InventoryItemWrite,
     AbilityModification |-> AbilityModificationWrite, RandomUnit |-> RandomUnitWrite,
     CustomUnits |-> CustomUnitsWrite, Unit |-> UnitWrite, Set |-> SetWrite,
     Modification |-> ModificationWrite,
     CustomObjectsCollection |-> CustomObjectsCollectionWrite] @@ ElementRead

-----------------------------------------------------------------------------
(* read()                                                                  *)

RECURSIVE GetItem(_, _)
RECURSIVE Get(_, _)
RECURSIVE Repeat(_, _, _)

Get(items, st) ==
    IF items = <<>> \/ st.out # "ok" THEN st ELSE Get(Tail(items), GetItem(st, Head(items)))

\* n steps of a loop, which an exception ends.
Repeat(n, Step(_), st) ==
    IF n = 0 \/ st.out # "ok" THEN st ELSE Repeat(n - 1, Step, Step(st))

\* One object of a class, made with what its constructor is given, and then the
\* next: the objects read so far are the object of this reader.
GetNext(st, class, given) ==
    LET one == Get(ReadOf[class], Reader(given, st.rest))
    IN  [out |-> one.out, object |-> Append(st.object, one.object), rest |-> one.rest]

GetMany(st, f, n, class, given) ==
    LET all == Repeat(n, LAMBDA list : GetNext(list, class, given), Reader(<<>>, st.rest))
    IN  [out |-> all.out, object |-> (f :> all.object) @@ st.object, rest |-> all.rest]

\* Where the k-th object of an area is.
Place(k, w, h, first) ==
    IF first = "y" THEN <<(k - 1) % w, (k - 1) \div w>> ELSE <<(k - 1) \div h, (k - 1) % h>>

GetArea(st, i) ==
    LET w == NumOf(st.object[i.w])
        h == NumOf(st.object[i.h])
        all == GetMany(st, i.f, w * h, i.class, <<>>)
        At(p) == CHOOSE k \in 1..(w * h) : Place(k, w, h, i.first) = p
    IN  IF all.out # "ok" THEN all
        ELSE [all EXCEPT !.object[i.f] =
                [p \in (0..(w - 1)) \X (0..(h - 1)) |-> all.object[i.f][At(p)]]]

GetCoded(st, i) ==
    LET next == IF i.n = 0 THEN ReadText(st, i.f) ELSE ReadNum(st, i.n, i.f)
        stored == IF next.object[i.f] = <<>> THEN "empty" ELSE next.object[i.f][1]
    IN  CASE next.out # "ok" -> next
          [] next.out = "ok" /\ stored \in DOMAIN i.code ->
                [next EXCEPT !.object[i.f] = i.code[stored]]
          [] OTHER -> IF i.other = {} THEN Stop(next, "thrown")
                      ELSE [next EXCEPT !.object[i.f] = CHOOSE m \in i.other : TRUE]

\* TriggerFunction::read: a function TriggerData does not have is an exception.
Known(object) ==
    /\ NumOf(object.type) \in DOMAIN TriggerData
    /\ object.name \in DOMAIN TriggerData[NumOf(object.type)]

\* The types of a call begin with the one it returns; "nothing" alone is none.
CallType == 3
Arguments(object) ==
    LET types == TriggerData[NumOf(object.type)][object.name]
        own == IF NumOf(object.type) = CallType THEN Tail(types) ELSE types
    IN  IF own = <<"nothing">> THEN 0 ELSE Len(own)

\* Modification::readData
GetValue(st, i) ==
    LET stored == StoredAs(NumOf(st.object.valueType))
        text == ReadText(st, i.f)
    IN  CASE stored = "word" -> ReadRaw(st, 4, i.f)
          [] stored = "bool" -> GetCoded(st, Coded(i.f, 4, IntBool, {1})[1])
          [] stored = "byte" -> ReadRaw(st, 1, i.f)
          [] stored = "text" -> text
          [] stored = "list" ->
                IF text.out # "ok" THEN text
                ELSE [text EXCEPT !.object[i.f] = Split(@)]
          [] stored = "unknown" ->
                [ReadRaw(st, 4, i.f) EXCEPT !.object.valueType = <<0>>]

\* One entry of CustomTextTriggers: the length 0 has no text, the length 1 only
\* its zero, which is read as a byte.
GetLengthText(st) ==
    LET length == ReadNum(st, 4, "length")
        zero == ReadRaw(length, 1, "text")
        text == ReadText(length, "text")
    IN  CASE length.out # "ok" -> length
          [] length.out = "ok" /\ NumOf(length.object.length) = 0 ->
                [length EXCEPT !.object = ("text" :> <<>>) @@ @]
          [] length.out = "ok" /\ NumOf(length.object.length) = 1 ->
                IF zero.out = "ok" THEN [zero EXCEPT !.object.text = <<>>] ELSE zero
          [] OTHER -> text

NextText(st) ==
    LET one == GetLengthText(Reader(<<>>, st.rest))
    IN  [out |-> one.out, rest |-> one.rest,
         object |-> IF one.out = "ok" THEN Append(st.object, one.object.text) ELSE st.object]

\* Group::read: one row is a chance and an id per column.
NextRow(st, columns) ==
    LET here == Len(st.rest) > columns
        cells == IF here THEN SubSeq(st.rest, 1, columns + 1) ELSE st.rest
    IN  CASE \E k \in DOMAIN cells : cells[k].n # 4 -> Stop(st, "garbled")
          [] ~here -> Stop(st, "thrown")
          [] OTHER -> [out |-> "ok", rest |-> SubSeq(st.rest, columns + 2, Len(st.rest)),
                       object |-> Append(st.object, [k \in DOMAIN cells |-> cells[k].v])]

\* A count and as many steps that fill a list of plain values.
GetCounted(st, f, Step(_)) ==
    LET count == ReadNum(st, 4, f)
        n == NumOf(count.object[f])
        all == Repeat(n, Step, Reader(<<>>, count.rest))
    IN  IF count.out # "ok" THEN count
        ELSE [out |-> all.out, object |-> (f :> all.object) @@ count.object, rest |-> all.rest]

Inherited(object, inherit) == [g \in inherit |-> object[g]]

GetItem(st, i) ==
    CASE i.t = "raw" -> ReadRaw(st, i.n, i.f)
      [] i.t = "text" -> ReadText(st, i.f)
      [] i.t = "num" -> ReadNum(st, i.n, i.f)
      [] i.t = "coded" -> GetCoded(st, i)
      [] i.t = "count" -> ReadNum(st, 4, i.f)
      [] i.t = "list" ->
            GetMany(st, i.f, NumOf(st.object[i.f]), i.class, Inherited(st.object, i.inherit))
      [] i.t = "one" ->
            LET one == Get(ReadOf[i.class], Reader(i.given, st.rest))
            IN  [one EXCEPT !.object = (i.f :> @) @@ st.object]
      [] i.t = "area" -> GetArea(st, i)
      [] i.t = "when" -> IF st.object[i.f] \in i.in THEN Get(i.items, st) ELSE st
      [] i.t = "magic" ->
            LET next == ReadRaw(st, i.n, i.id)
            IN  IF next.out = "ok" /\ next.object[i.id] # <<"magic", i.id>>
                THEN Stop(next, "thrown") ELSE next
      [] i.t = "end" -> ReadRaw(st, i.n, "end")
      [] i.t = "lookup" -> IF Known(st.object) THEN st ELSE Stop(st, "thrown")
      [] i.t = "arguments" ->
            GetMany(st, i.f, Arguments(st.object), "TriggerFunctionParameter", <<>>)
      [] i.t = "single" ->
            GetMany(st, i.f, 1, "Set", Inherited(st.object, {"version", "type"}))
      [] i.t = "value" -> GetValue(st, i)
      [] i.t = "lengths" -> GetCounted(st, i.f, NextText)
      [] i.t = "rows" ->
            GetCounted(st, i.f, LAMBDA list : NextRow(list, Len(st.object.columns)))

-----------------------------------------------------------------------------
(* write()                                                                 *)

RECURSIVE PutItem(_, _)

Put(items, object) == FlattenSeq([k \in DOMAIN items |-> PutItem(items[k], object)])

PutAll(class, objects) ==
    FlattenSeq([k \in DOMAIN objects |-> Put(WriteOf[class], objects[k])])

PutCoded(i, v) ==
    LET stored == CHOOSE s \in DOMAIN i.code : i.code[s] = v
    IN  IF i.n > 0 THEN NumCell(i.n, stored)
        ELSE TextCell(IF stored = "empty" THEN <<>> ELSE <<stored>>)

PutArea(i, object) ==
    LET w == NumOf(object[i.w])
        h == NumOf(object[i.h])
    IN  PutAll(i.class, [k \in 1..(w * h) |-> object[i.f][Place(k, w, h, i.first)]])

\* Modification::writeData
PutValue(object, v) ==
    LET stored == StoredAs(NumOf(object.valueType))
    IN  CASE stored \in {"word", "unknown"} -> Cell("raw", 4, v)
          [] stored = "bool" -> NumCell(4, v)
          [] stored = "byte" -> Cell("raw", 1, v)
          [] stored = "text" -> TextCell(v)
          [] stored = "list" -> TextCell(Join(v))

PutLengthText(v) ==
    IF v = <<>> THEN <<NumCell(4, 0)>> ELSE <<NumCell(4, TextLength(v) + 1), TextCell(v)>>

PutItem(i, object) ==
    CASE i.t = "raw" -> <<Cell("raw", i.n, object[i.f])>>
      [] i.t = "text" -> <<TextCell(object[i.f])>>
      [] i.t = "num" -> <<Cell("num", i.n, object[i.f])>>
      [] i.t = "coded" -> <<PutCoded(i, object[i.f])>>
      [] i.t = "count" -> <<NumCell(4, Len(object[i.f]))>>
      [] i.t = "list" -> PutAll(i.class, object[i.f])
      [] i.t = "one" -> Put(WriteOf[i.class], object[i.f])
      [] i.t = "area" -> PutArea(i, object)
      [] i.t = "when" -> IF object[i.f] \in i.in THEN Put(i.items, object) ELSE <<>>
      [] i.t = "magic" -> <<Cell("raw", i.n, <<"magic", i.id>>)>>
      [] i.t = "end" -> <<NumCell(i.n, 0)>>
      [] i.t = "value" -> <<PutValue(object, object[i.f])>>
      [] i.t = "lengths" ->
            <<NumCell(4, Len(object[i.f]))>>
            \o FlattenSeq([k \in DOMAIN object[i.f] |-> PutLengthText(object[i.f][k])])
      [] i.t = "rows" ->
            <<NumCell(4, Len(object[i.f]))>>
            \o FlattenSeq([k \in DOMAIN object[i.f] |->
                  [j \in DOMAIN object[i.f][k] |-> Cell("raw", 4, object[i.f][k][j])]])

-----------------------------------------------------------------------------
(* A file another program wrote is loaded and saved again and again; before  *)
(* a load its end may get lost.                                            *)

CONSTANTS
    Files,      \* per format, records of the cells, what the constructor of the
                \* object is given, whether it is well-formed and canonical
    Saving,     \* the formats that are saved
    MaxSaves

ASSUME FormatsAssumption == /\ Saving \subseteq DOMAIN Files /\ DOMAIN Files \subseteq DOMAIN ReadOf
                            /\ MaxSaves \in Nat /\ MaxText \in Nat

VARIABLES
    format,
    source,     \* the rest of its record in Files
    file,       \* the cells there are now
    object,     \* the last object loaded
    first,      \* and the first one
    outcome,    \* "none", "ok", "thrown", "garbled": of the last load
    left,       \* the cells it did not read
    saves,
    cut         \* the end of the file was lost

vars == <<format, source, file, object, first, outcome, left, saves, cut>>

None == "none"

Init ==
    /\ format \in DOMAIN Files
    /\ \E w \in Files[format] :
          /\ file = w.cells
          /\ source = [given |-> w.given, valid |-> w.valid, canonical |-> w.canonical]
    /\ object = <<>> /\ first = <<>>
    /\ outcome = None /\ left = 0
    /\ saves = 0 /\ cut = FALSE

Loaded == outcome # None

\* The client makes an object and lets it read the file.
Load ==
    /\ ~Loaded
    /\ LET r == Get(ReadOf[format], Reader(source.given, file))
       IN  /\ outcome' = r.out
           /\ object' = r.object
           /\ left' = Len(r.rest)
           /\ first' = IF saves = 0 THEN r.object ELSE first
    /\ UNCHANGED <<format, source, file, saves, cut>>

Save ==
    /\ outcome = "ok" /\ ~cut
    /\ format \in Saving /\ saves < MaxSaves
    /\ file' = Put(WriteOf[format], object)
    /\ saves' = saves + 1
    /\ outcome' = None
    /\ UNCHANGED <<format, source, object, first, left, cut>>

\* The end of the file is lost, from anywhere on.
Lose ==
    /\ ~Loaded /\ ~cut
    /\ \E k \in 0..(Len(file) - 1) : file' = SubSeq(file, 1, k)
    /\ cut' = TRUE
    /\ UNCHANGED <<format, source, object, first, outcome, left, saves>>

Next == Load \/ Save \/ Lose

Spec == Init /\ [][Next]_vars

-----------------------------------------------------------------------------
(* Properties                                                              *)

\* The whole of a well-formed file is read, and one that is not (a text of 1024
\* characters, a number or a name that stands for nothing) is refused.
WellFormedLoads ==
    outcome # None /\ saves = 0 /\ ~cut =>
        IF source.valid THEN outcome = "ok" /\ left = 0 ELSE outcome = "thrown"

\* What write() stores is what read() of the same class gives back, all of it.
RoundTrip ==
    outcome # None /\ saves > 0 /\ ~cut => outcome = "ok" /\ left = 0 /\ object = first

\* A file that lost its end is refused: its rest never passes for a file, and no
\* value is taken for another.
CutIsRefused == outcome # None /\ cut => outcome = "thrown"

\* Saving what was loaded leaves a file as it was, up to codes that mean the same
\* (the files Files calls canonical have none).
SaveKeepsFile ==
    [][saves = 0 /\ saves' = 1 /\ source.canonical => file' = file]_vars
=============================================================================
