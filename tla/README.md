# wc3lib in TLA+

wc3lib is a C++ library for the file formats of Warcraft III together with an
editor built on it.  This directory holds TLA+ models of the parts of it that
keep state over a sequence of calls and of its binary file formats, TLC runs that
check them on small instances, and proofs, checked by the TLA+ proof system, of what
the archive tables, the sectors of files, the KIO slave, the sources, the resources and
the objects of the editor and the reader of models keep for all instances.

## 1. The system

| part | state | operations | what makes it correct |
|---|---|---|---|
| `src/mpq`: archive tables (`Archive`, `Hash`, `Block`, `File`) | block table, hash table (a multimap by hashed path), offsets, `m_size`, `File` objects that point into the tables | `create`, `open`, `close`, `addFile`, `removeFile`, `findFile` | a path finds its file, files own their blocks, nothing but `removeFile` takes a file away, data and tables do not overlap |
| `src/mpq`: archive file | header, tables and data in a file | the writes of the calls above, `read` | the file is what memory is; what opens is complete |
| `src/mpq`: sectors, codec | sector table of a file, sector data | `addFile`, `File::sectors`, `File::decompress`, `Sector::*` | what was written is read back; what is delivered is the beginning of the data |
| `src/mpq`: algorithm | the encryption table | hashing, encryption | decrypting inverts encrypting |
| `src/mpq`: listfile, attributes, signature | none of their own: formats of three special files | reading and writing them | every path once; check sums of the right blocks |
| `src/editor`: `MpqPriorityList`, `Resource`, `WarcraftIIIShared`, `SourcesDialog` | sources ordered by priority, registered resources, temporary files, shared resources | adding, removing, configuring sources; download, upload; registering and refreshing resources | a path resolves to the source of highest priority; resources and list never outlive their links |
| `src/editor`: `ObjectData` and its subclasses | changed and new objects with their fields | creating, changing, resetting, copying objects, import and export | what is shown is the change, or else the default; nothing is left of what was reset |
| `src/editor`: `MetaData` | a table of strings with indices of its rows and columns | `load`, `value`, `setValue` | indices and table agree |
| `src/editor`: modules, windows, MPQ/trigger/texture/model/terrain editors | widgets | slots of widgets | they call the parts above |
| `src/editor/kio_mpq` | one open archive per process with its attributes, one file and a position | `open`, `read`, `seek`, `close`, `get`, `stat`, `listDir`, `put`, `mkdir` | answers are of the archive and file asked for |
| `src/map`: the binary files of a map | records | `read`, `write` of each class | reading inverts writing; a file that is cut off is refused |
| `src/map`: text files, archives of maps | records | grammars; a map opens an archive | - |
| `src/mdlx`: binary models | a model of ten kinds of sections | `Mdlx::read`, `write` | every section is read, the reader ends, reading inverts writing |
| `src/mdlx` text, `src/blp`, `src/json`, `src/game`, `src/w3g` | records | `read`, `write` | reading inverts writing |
| `src/jass` | syntax tree | parse, report | - |
| `src/app` | none | command line tools | they call the library |
| `lib` | - | third-party codecs | - |

Everything runs in one thread: an `Archive` or a list has no locks and must not be used
from two.  Other programs change the archives on the disk meanwhile.  What interleaves
are the calls of several holders of `File`, `Resource` or `ObjectData` objects that
share the state behind them, and calls that end half-way: an exception out of the middle
of a call leaves its object in a state nobody tested, and a killed process leaves a file
half-written.

## 2. Modules

| module | models | extends |
|---|---|---|
| `MpqTables` | the tables of an opened `Archive` and the `File` objects of its clients | - |
| `MpqFiles` | what an archive promises: a map from paths to files | - |
| `MpqTablesRefines` | that `MpqTables` implements `MpqFiles` | `MpqTables`, instantiates `MpqFiles` |
| `MpqArchive` | an `Archive` together with the file it lives in | `MpqTables` |
| `MpqArchiveRefines` | that `MpqArchive` implements `MpqFiles` | `MpqArchive`, `MpqTablesRefines` |
| `MpqTablesProofs` | theorems about `MpqTables`, `MpqArchive` and their refinement of `MpqFiles` | `MpqArchiveRefines`, `FoldLemmas` |
| `MpqSectors` | the data of one file: how `addFile()` or another program lays it out in sectors, and how `File::decompress()` gets it back | - |
| `MpqSectorsProofs` | theorems about `MpqSectors` | `MpqSectors`, `FoldLemmas` |
| `MpqSlave` | the KIO slave over commands, sessions and changes of the disk, with the directories of `Listfile` and the reading of `Attributes` | - |
| `MpqSlaveProofs` | theorems about `MpqSlave` | `MpqSlave`, `FoldLemmas` |
| `EditorSources` | `MpqPriorityList` and its sources, `SourcesDialog`, the settings | - |
| `EditorSourcesProofs` | theorems about `EditorSources` | `EditorSources`, `FoldLemmas` |
| `EditorResources` | `Resource`, the list of resources, who holds and replaces them | - |
| `EditorResourcesProofs` | theorems about `EditorResources` | `EditorResources` |
| `EditorObjects` | `ObjectData` and the `ObjectTreeModel` that follows its signals | - |
| `EditorObjectsProofs` | theorems about `EditorObjects` | `EditorObjects`, `FoldLemmas` |
| `MapFormats` | `read()` and `write()` of the classes of `src/map`, and a file that is loaded, saved and cut off | - |
| `Mdx` | `Mdlx::read`, section by section, and `Mdlx::write` | - |
| `MdxProofs` | theorems about `Mdx` | `Mdx`, `FoldLemmas` |
| `FoldLemmas` | what the folds and sums of the community modules compute, and induction over numbers | - |
| `MC...` | instances for TLC | the module of that name |

Definitions named in a comment "A mutant for P" are small changes of the
definition that follows them, each a plausible mistake.  No other definition
uses them; they are there to see that P notices the mistake.

**`MpqTables`.**  `blocks` is `m_blocks`, `hashes` the `Hash` objects of
`m_hashes`, `head` what `find()` of the multimap returns for a key, `bto`,
`hto`, `size` and `isOpen` the members of these names, `held` the `File` each
client has.  A path is its `HashData`; two paths that collide are one key.  One
action per outcome of a call: `Create`/`CreateThrows`, `Open`/`OpenThrows`,
`Close`, `Add`/`AddThrows`/`AddDataThrows`/`AddTooSmall`/`AddCrashes`,
`RemoveEntry`/`RemoveRefused`/`RemoveCrashes`, `Find`, `CloseFile`.  The order of
`boost::ptr_unordered_multimap` is left open wherever the code iterates over it;
what is kept is that equal keys form a group, that `insert()` adds behind the
first of the group and that `find()` returns the first.  What the data of a file
takes in the archive is a `Layout` (a file stored as it is, or one in sectors,
of which `addFile()` does not set the file size).

**`MpqArchive`** adds `disk` (header, tables and data in the file), `pending`
(the writes of the running call that did not reach it yet) and `start` (the
position of the archive in the file).  A call changes the memory and queues its
writes in program order; `WriteStep` does one of them, a call that throws queues
only the first few, and `Kill` ends the process between any two.  `threw` tells
whether the last such call threw: what memory and file have in common is then
open until the next one succeeds.  A table is written as the code writes it: the
last entry that was copied, and `Garbage` behind it; `open()` of a file with garbage
is not followed, nor is an `addFile()` on an `Archive` that is closed because its
`create()` has thrown.

**`MpqSectors`.**  `file` is the `Block` of one file with its author and its path,
`stored` the bytes from the block offset on, `lost` whether the archive has lost its
end; `offsets`, `sectors`, `newOffset` and `remaining` are the locals of
`File::sectors()` of these names, `next` and `out` how far `File::decompress()` is
and what it has written.  `AddFile` is the layout of `addFile()`, `Author` that of
another program (the format as the comments of `sectors()` and `decompress()`
describe it), `Open...` the branches of `sectors()`, `List...` the turns of its
loops, `Read...` the turns of `decompress()`.  A byte is a cell that says what it
stands for; encryption wraps it with the key and its place, so that another key, or
another place, or a word before it that is wrong, gives junk.  A codec is what undoes
itself.

**`MpqSlave`.**  `archive` is `m_archive` together with what the archive held when it
was opened, which is what its tables still say when `disk` has changed;
`archiveName`, `hasAttributes`, `timesPresent`, `fileTimes`, `file` and `seekPos` are
the members, `sent` the answers to the last command.  `halfRead` is no member: it tells
whether an archive failed to open because of its attributes since the one that is open
was taken, which `TimesOfNamed` speaks of.  A command has three steps,
`Receive` (`parseUrl()`), `OpenArchive` (`openArchive()`, with an action for each of
its outcomes) and its answer (`Stat`, `Get`, `Put`, `ListDir`, `Open`); another program
may `Change` the disk between them.  `Read`, `Seek` and `Close` belong to the session
`Open` begins.  A byte of the answer names the archive, the block and the position it
is from; bytes that are read with tables that are no longer those of the disk are
junk, or throw.

**`EditorSources`.**  `sources` is `m_sources` in the order of the multiset,
`dialog` the list of the dialog from top to bottom, `settings` the array in
`QSettings`, `state` what is found at each URL; `running` tells whether a process
runs.  Archives may be missing or broken at any time (`Change`), and the process
may be killed (`Kill`).

**`EditorResources`.**  `live` are the `Resource` objects, `attached` those whose
`m_source` is the list, `listed` is `m_resources`, `open` is `Editor::maps()`,
`list` the life of the `MpqPriorityList` (its destructor has two steps: its body,
and the members that are destroyed afterwards in the reverse order of their
declaration).  Resources are grouped by how their holder replaces them:
`Refreshed` (load, then swap), `Objects` (reset, then load, file after file),
`Textures`, `Maps`, and `Clients` for every other holder.

**`EditorObjects`.**  `objects` is `m_objects`, `tree` the children of each class
folder of `ObjectTreeModel`, `found` its two hashes from IDs to items.  Signals
are direct: an operation of the data is an operator on a record of these three,
and the slot of the tree is applied inside of it at the place of the `emit`.
The loop of `compress()` and the references `clearModifications()` passes on are
undefined behaviour; their outcomes are choices (entries missed, a crash).

**`MapFormats`.**  Every class has a `...Read` and a `...Write`: the values its
`read()` and `write()` handle, one item for each, in the order of the code, with
their widths, the loops (`Many`, `Area`), the conditions (`When`) and the codes
(`Coded`).  The two are translated separately and nothing makes them agree but the
code.  `Get` and `Put` interpret the items over a file, which is a sequence of
cells, one per value; a value nobody branches on is the path of the field it was
made for, so that two fields exchanged are told apart.  A read of another width
than the cell has is "garbled".  What one place of the code does alone is an item
of its own (`GetValue`, `GetLengthText`, `NextRow`, `Arguments`).

**`Mdx`.**  A file is a sequence of units: tags, numbers and values that are only
stored.  `Mdlx::read` is a state machine with one action per kind of section
(`ReadVersion`, `ReadModel`, `ReadSection`, `SkipUnknown`, `Finish`); `ReadOutOfRange`
is a geoset that asks for values behind its vectors, which goes on, throws or crashes.
Within a section the readers of the objects are operators that pass on the position, the
size they return and the object.  A loop that reads is a function from the number of its
rounds to the reader after them; every round takes a unit, throws or was the last, so
that there are no more rounds than units left (`Rounds`).  `Mdlx::write` is `File`, with
the sizes each object returns and the room it keeps, or does not keep, for them.

**How they interact.**  An entry of `EditorSources` holds an `mpq::Archive`; it is
only read there, so that all it needs of `MpqTables` is that an archive opens or
throws.  A load of `EditorResources` succeeds or throws, whatever the sources
hold; `EditorObjects` begins where `load()` has succeeded, and what it imports and
exports are the `CustomUnits` of `MapFormats`.  `MpqSectors` is what the data of an
entry of `MpqTables` looks like inside; `MpqSlave` takes from both that a file of an
archive whose tables are those of the disk is read, and no more.  `MpqArchive` and
`MpqTablesRefines` extend `MpqTables` and take its actions as they are;
`MpqArchiveRefines` puts the two together.

## 3. Runs

A run is given as configuration, what it shows, and its instance.

| run | configuration | what it shows | bounds |
|---|---|---|---|
| `tables` | `MCMpqTables.cfg` | `TypeOK`, `OnlyHeadsFree`, `NoSharedBlock`, `HandlesLead`: only the first of a path can be free, no two files share a block, a valid `File` leads its path | 2 clients, 2 paths, tables of 1 or 3 entries, four archives of other programs (with a free entry, a deleted one, both, tables behind the data), calls that throw at creation, data or tables |
| `space` | `MCMpqSpace.cfg` | `NoLostBlock`, `NoOverlap` (no two files share a byte), `SizeAdds`, `FilesKept`: space and sizes, and that a call leaves the entries of other files alone | 2 clients, 2 paths, tables of 2, archives of other programs with their tables in front of the data and behind it, a stored file and one in sectors, `m_size` with 128 values, writes fail at the header only |
| `archive` | `MCMpqArchive.cfg` | `FileNeverStale`: after each call that succeeds, whatever failed before, the file has the header of memory and no entry memory does not have; `OpensComplete`: whatever interrupts `create()` or `addFile()`, what opens lists only files whose data is there; `TablesApart`: no table lies over data; `ImplementsFiles`: memory and file are a map from paths to files | 1 client that keeps to one entry per path, 2 paths, tables of one and two entries, archives at the start of the file and at 512, kills between any two writes, every write may throw |
| `archive_written` | `MCMpqArchiveWritten.cfg` | violates `ChangesAreWritten`: of a table only the last entry is written | as `archive`, no failures |
| `mpq_sectors` | `MCMpqSectors.cfg` | `SectorsCover`: the sectors lie one behind the other and end where the file does; `AuthoredIsRead`: what other programs wrote is delivered from its beginning, all of it or with an exception; `OwnReadsBack`: so is what `addFile()` wrote, for the layouts named there; `KeylessDeliversNothing` | sectors of 4 bytes, words of 2, sizes from 0 to 11 around the multiples of the sector, a modulus of 256 |
| `slave` | `MCMpqSlave.cfg` | `OpenFileLives`, `AnswersFromNamed`, `RootListed`, `TimesOfNamed` (each file is shown with its own time), `ReadsFromPosition` | 2 archives, each with a full content, one without listfile and attributes, one without times, one with cut attributes, missing or broken; a file and the root; reads of 2 bytes up to position 1 |
| `sources` | `MCEditorSources.cfg` | `HighestPriorityServes`, `RestartKeepsSources`, `DialogKeepsOrder` | 2 archives, 1 directory, 2 entries in the list and the dialog, one priority of others that ties with those of the dialog |
| `resources` | `MCEditorResources.cfg` | `TypeOK`, `RegistryNeverDangles`, `SoleOwnersAreListed`, `SharedDataIsLoaded`, `RequestLoads` | one shared file, one texture, two `ObjectData` with a common file, a resource with the URL of the texture, a map |
| `objects` | `MCEditorObjects.cfg` | `TreeShowsObjects`, `EditMovesItem`, `ImportReplaces` | 1 original, 2 custom IDs, 2 classes, a plain and a hidden field, two files to import, 3 items of custom objects (`MaxItems`) |
| `formats` | `MCMapFormats.cfg` | `WellFormedLoads`, `RoundTrip`, `CutIsRefused`, `SaveKeepsFile` | for each of 16 formats small files (lists of 0 to 2) and what a change of up to two values makes of them, cut anywhere, saved once (but for the two formats of section 5 that cannot be) |
| `mdx` | `MCMdx.cfg` | `SavedReadsBack`, `ShippedIsRead`, `CutLosesLastSections`, `EveryReadEnds` | models of the versions 800, 801 and 901, saved ones with each section but materials, texture animations and geosets, those of others with each but geosets and with layers without texture ids, cut anywhere; all streams of up to four units, and some with geosets |
| `mdx_models` | `MCMdxModels.cfg` | violates `ModelsAreRead`: materials that are saved do not come back | models with a material, saved, and files of others with geosets or layers with texture ids |

**Bounds.**  Two paths and two clients are what the table properties speak about (each
relates two entries, or an entry and a handle); three entries leave room for a group
with a file, one freed and one never used.  `MaxEntries` also bounds how often a failing
`create()` piles up entries, `MaxData` the space used (files that are removed do not
give theirs back), `MaxSources` the lists.  `SizeModulus` stands for 2^64 and is small
so that `m_size` may wrap; where sizes do not matter it is 1.  Two generations per
holder (`gen`) suffice for `EditorResources` since a refresh has at most the old and the
new resource at once.  `MaxItems` leaves one item more than there are custom objects,
for the one that stays behind.  `MaxText` stands for the 1024 characters of
`readString()`: a text has none, one or that many.  `Changes` is how many values of a
file differ from the simplest one; two are what a condition and the value behind it
need.  Tables of two entries are the least of which an entry is lost, 512 is where
archives in other files start.  One save (`MaxSaves`) suffices, since the file it makes
is again one the same reader reads.  `Garbage` is what a unit that is no number counts
as, larger than any file.  Four units (`MaxStream`) are two headers, the least for a
section and what follows it.  `SectorSize` and `UIntModulus` are small so that files
have up to three sectors and differences wrap; a word of two bytes distinguishes whole
words from the rest, which is all that encryption knows of words.  Two objects (`id` of
`archive`) suffice for the slave, since an `Archive` is destroyed when the next is
taken.  `Clients` are symmetric in `tables` and `space`, `Archives` in `slave`; they
check no liveness.  Where a module has no type invariant, the types are in the comments
of its variables: the check of its operators over all states is TLC's own.

**Deadlock** is checked for the archive, its sectors, the slave and the sources, where
another call is always possible.  It is not for `EditorResources`, where nothing follows
the end of a process that crashed, and `EditorObjects`, where the same holds for a crash
in `Export`, `Import`, `Compress` or `UseDangling`; nor for the formats, where a file
that was read is the end.

**Fairness.**  The library is called, it does not run: no call must ever happen,
and the modules of archive, editor and map files assume none.  The exception is
what runs inside of one call: `Mdlx::read` is a loop that ends only at the end of
the file or by an exception, so that `WF_vars(Read)` holds of the process, and
`EveryReadEnds` says that the loop comes to its end for any content of the file.

## 4. Proofs

The modules named `...Proofs` hold what is proved for all values of the constants that
satisfy the assumptions their modules name.  The properties of a module are proved
together where none of them is inductive alone.

**Archive tables.**  The inductive invariant is `TypeOK /\ HeadsLeadGroups /\
OnlyHeadsFree /\ NoSharedBlock /\ HandlesLead`.  `addFile()` takes the key of some
free hash and then replaces the entry `find()` returns for that key.  That this
entry is free, and not that of a file with the same path, is `OnlyHeadsFree`; it
needs `HeadsLeadGroups` (the entry stores the key at all), and, to survive
`removeFile()`, `HandlesLead` (what is freed is the first of its group).
`NoSharedBlock` needs that the block taken is free while those of files are not,
which is where empty files are excluded.  The assumptions are the named ones of
`MpqTables` and two about what comes from outside: `ImagesHoldFiles` (archives of
other programs have sound tables: no two entries of one block, no free entry
under a path) and `FilesNotEmpty` (see section 5).  `FilesKept` follows step by
step from the invariant; it is an action property, so no step but the removal of
the very file changes its entries.

| theorem | statement |
|---|---|
| `TablesTypeCorrect` | `TypeOK` |
| `FreeEntriesAreFound` | `HeadsLeadGroups`, `OnlyHeadsFree` |
| `HandlesAlwaysLead` | `HandlesLead` |
| `BlocksAreNotShared` | `NoSharedBlock` |
| `OtherFilesAreKept` | `FilesKept` |
| `NoBlockIsLost` | `NoLostBlock` |
| `DataIsApart` | `NoOverlap` |
| `SizeIsSum` | `SizeAdds` |

**Space.**  The last three build on the invariant above, and each on one more.
`OwnInv`: every taken block has its file, and only a block with data has an offset.
`SpaceInv`: a block has an offset exactly if it has data, and the data of two blocks is
apart; `nextBlockOffset()` takes the end of the block of greatest offset, which is the
end of all data then, so that a new file is behind all others (`FirstGreatest`),
wherever the tables are.  Whether it is behind the tables is another question,
`TablesApart`, which the archives of `create()` keep (`TablesAreApart`, among the
theorems about the archive file) and those with tables behind the data do not (section 5).  `SizeInv`: `m_size` is the sum, which changes by the block that
`addFile()` fills or `removeFile()` frees; a sum that wraps stays the sum modulo the
width (`AddRemainder`).  They assume of the archives of others what the code assumes:
`ImagesOwnBlocks` (no block without a file), `ImagesDataApart` (the data of two files
does not overlap) or `ImagesSizeAdds`.  They also name the calls that may fail, since
the code does not keep these properties over every failure: a write of data that fails
leaves flags and offset in a block nobody owns, so `"data"` is no failure for
`NoBlockIsLost` and `DataIsApart`; a failed write of the tables comes before `m_size` is
counted; and a failed `create()` leaves a closed archive with entries, to which the next
`create()` adds (section 5).  The instance of `space` satisfies all of them, which
`InstanceAssumption` checks.

**Refinement.**  `TablesImplementFiles` proves `SpecOneEntry => ImplementsFiles`: the
initial states map to initial states, and each action to one of `MpqFiles` or to a
stutter.  The map from paths to files is what `find()` leads to; that adding and
removing changes it at one path only needs the whole invariant of the tables, and that
no path has two entries (`OneInv`), which is what the clients of `SpecOneEntry` see to.
`ArchiveImplementsFiles` proves the same of the archive with its file
(`ArchiveOneEntry => ImplementsFiles`, which the run `archive` checks): the writes of a
call are not seen, a kill drops what was shown, and `open()` brings back what the file
holds, which the invariant of the archive file (below) says is sound.

| theorem | statement |
|---|---|
| `TablesImplementFiles` | `ImplementsFiles`, of tables with the archives of other programs |
| `ArchiveImplementsFiles` | `ImplementsFiles`, of memory and file |

**Archive file.**  Of memory and file there is no invariant between two writes of a
call, so `ArchiveInv` speaks of the stages the pending writes lead to, from the file as
it is to the last one: each stage is what a killed process may leave and is `Sound`
(what has a header has whole tables and the data they list, except within
`removeFile()`, which writes the header first), and the last `Shows` what memory holds
when the call does not throw.  A write leads from one stage to the next (`WritesOn`); a
call starts a new row of stages, all sound (`CreateWritten`, `AddWritten`,
`RemoveWritten`); `open()` brings back the memory a sound file shows.  Of a table
with several entries the file holds one and garbage (section 5), which the properties
account for: `Shows` and `Sound` speak of the header, the lengths of the tables and the
entries that are no garbage, and an archive that opens has one entry in each table
(`Holds`), since longer ones are never complete.  The part about the memory (`MemInv`)
says that block table, hash table and data lie in this order while the archive is open,
which gives `TablesApart`, and that a `create()` that threw leaves no data.  Nothing is
assumed but that neither files nor tables are empty (`FilesNotEmpty`,
`StartAssumption`): tables of any length, any start position, paths, clients, layouts,
failures and width of `m_size`.  What is not true of longer tables or other starts, that
*all* entries and *all* data are in the file, is `ChangesAreWritten`, which
`archive_written` shows violated.  What is true of the data is that of the file
`addFile()` wrote last (`AddedReadable`, proved and in no run).

| theorem | statement |
|---|---|
| `FileIsNeverStale` | `FileNeverStale` |
| `AddedIsReadable` | `AddedReadable` |
| `OpensOnlyComplete` | `OpensComplete` |
| `TablesAreApart` | `TablesApart` |

**Sources.**  `m_sources` is sorted: `Insert` puts an entry behind the last that is not
greater, which keeps the order, and every operation is a sequence of insertions and
removals.  A search from the end of a sorted list finds the highest priority.  Writing
the settings keeps the order; reading them back inserts ever greater or equal
priorities, each behind the others, so that the list is what it was.  The dialog ranks
its items downwards: each insertion is at the front, and the list comes out turned
around, as it was turned around when shown.

| theorem | statement |
|---|---|
| `HighestPriority` | `HighestPriorityServes` |
| `RestartKeeps` | `RestartKeepsSources` |
| `DialogKeeps` | `DialogKeepsOrder` |

**Resources.**  The inductive invariant adds to the properties that the list is
empty once its destructor ran, and that of each holder that destroys before it
attaches there is one resource at a time (`OneEach`).  The latter gives that a new
resource is none that exists, so that it cannot be mistaken for the one listed,
and that removing by URL takes out the resource itself if no other holder has its
URL.  No assumption is made on which holders share URLs, except that one
`ObjectData` reads no file twice.

| theorem | statement |
|---|---|
| `ResourcesTypeCorrect` | `TypeOK` |
| `NoDanglingResource` | `RegistryNeverDangles` |
| `SoleOwnersStayListed` | `SoleOwnersAreListed` |
| `SharedDataStaysLoaded` | `SharedDataIsLoaded` |
| `RequestsAnswerTruly` | `RequestLoads` |

**Objects.**  The invariant `Good` is one of data and tree together, and of the states
within a call as well: every operation is a sequence of `createObject()`,
`modifyField()` and `deleteObject()`, with the slots of the tree inside of them.  It is
not enough that items are shown for all entries: the hash must lead from each object to
an item *of that object* (else a deletion, which takes the item the hash leads to, could
take another object's), and the lists of children must be apart, so that an item that is
moved is not left behind and the folder it is searched in is the one it is in.  An
object may still have two items, one left from before `resetField()` erased it and one
of its new creation: `TreeShowsObjects` says that no *item* is in the tree twice and
that the hash leads to one of the object's.  An item the hash leads to may be gone if
its object has no entry; that is what `UseDangling` is about, and nothing in the
invariant excludes it.  `removeAll()` and the loops of the import are folds, with a
stage after each element (`WithoutStages`, `DeleteStages`, `ImportStages`).  The import
first clears, whatever the order of the hash is (`ClearedKeeps`), and then reads: after
k modifications the data holds the last value of every field among those k (`ReadStep`,
`ImportedKeeps`).  `MaxItems`, which bounds the items that exist at once, may be any
number; the guards that keep to it (`CanCreate`, the first of `Import`) leave a number
for each item that is made (`FewItemsLeaveRoom`).  `ImportsAssumption` says that files
hold modifications, of which the one of the class has a class as its value; there are
finitely many originals.

| theorem | statement |
|---|---|
| `TreeIsComplete` | `TreeShowsObjects` |
| `EditsMoveItems` | `EditMovesItem` |
| `ImportsReplace` | `ImportReplaces` |

**Sectors.**  That decryption inverts encryption is proved for sequences of any length:
a cell of a whole word fits if all cells of the words before it do, and the rest is not
touched.  For `SectorsCover` the inductive invariant (`CoverInv` with `Listed`) says
what the loops of `sectors()` have reached: the sectors found lie end to end,
`newOffset` is the end of the last, and `remaining` is what is left of the file, so that
the unsigned subtraction does not wrap.  `KeylessDeliversNothing` needs that a reader
without a path never gets to a sector it could read.

`AuthoredIsRead` and `OwnReadsBack` follow from one invariant, `ReadInv`, in which writer
and reader meet.  `Laid` says what a file must be like to be read: its parts (`Parts`,
`Upto`: the sectors of its uncompressed size, or one) end at places the reader finds, by
adding up sectors, in the sector offset table, or in the block size (`EndsAreFound`); and
the bytes between two of them are the part itself or what one algorithm made of it, and
fewer (`HoldsPart`: `decompress()` tells the two apart by their size).  The archive holds
a beginning of what was written, and all of it unless it lost its end; and the reader has
found the first k parts, or delivered them (`Progress`).  That each step keeps this is
one lemma per action (`ListsPlain` to `Finishes`): a sector behind the end throws, any
other lies in the beginning that is left, is decrypted with the key of its number, and is
the next part.  The rest is that the writers lay a file out so.  For `Author`
(`AuthorLays`) the sums of the lengths before each sector are where `FlattenSeq()` puts it
(`FlatsParts`), the numbers of the table are found word by word (`NumberIsFound`), and the
one encrypted run of a single unit is read in at most two sectors, the second shorter than
a word (`FirstSector`, the bound of `ReadableByOthers`).  For `addFile()`
(`AddFileLays`) the byte too much must not change a quotient or fill a word (`OneLess`,
the other two conditions of `WrittenWell`).  Both rest on `SectorsAssumption`: sectors
are of whole words, as `512 << shift` is with words of 4 bytes.

| theorem | statement |
|---|---|
| `EncryptionIsUndone` | `DecryptData(EncryptData(cells, key), key) = cells` |
| `SectorsCoverFiles` | `SectorsCover` |
| `KeylessIsSafe` | `KeylessDeliversNothing` |
| `AuthoredReads` | `AuthoredIsRead` |
| `OwnReads` | `OwnReadsBack` |

**KIO slave.**  The inductive invariant has four parts: the disk holds archives; what is
open has the name of the command that uses it (`ArchiveInv`, which keeps the members
together through every way `openArchive()` fails); the file of a session is one of
that archive (`SessionInv`); and the position is the sum of what `seek()` was called
with since `open()`, or a session was dropped (`PositionInv`).  For `TimesOfNamed`,
`TimesInv` says that the times in the members are those of all files of the archive
that is open, if it has attributes and no other failed to open since (`TimesRead`): every
`openArchive()` that takes an archive with attributes replaces them, one that finds it open
already leaves them, and what a command shows of a file is looked up in them by the
block `findFile()` returns.  Without either condition the code shows other times (section 5).
For `AnswersFromNamed` a fifth part (`DataInv`) says that nothing is left of the answers to
the command before; what `Get` and `Read` send is of the file the others give, and a
listing sends entries and no data.
`RootListed` is about one step: the loops of `Listfile` push back exactly what passes
their conditions (`ThoseProperties`), each directory once (`EachOnceProperties`).

| theorem | statement |
|---|---|
| `FileOfSessionLives` | `OpenFileLives` |
| `TimesAreOfNamed` | `TimesOfNamed` |
| `ReadsAreAtPosition` | `ReadsFromPosition` |
| `DataIsOfNamed` | `AnswersFromNamed` |
| `RootIsListed` | `RootListed` |

**Models.**  `FileLies(f, m, at, ends)` says how a model `m` lies in a whole file `f`:
the section of number k of `write()` is at `at[k]` and ends at `ends[k]`, with the
header, the size and the objects `read()` expects, or is missing and is what a new
`Mdlx` has; between the end of one section and the next are units that no section starts
with.  The inductive invariant (`ReadingInv`) is that the file is a beginning of such a
file, all of it unless its end is lost; that the reader is between the end of one
section and the start of the next; and that it holds the sections of the model before
that place and the empty ones of a new `Mdlx` after it.  The properties alone are not
inductive: they say nothing of a reader that is halfway.  With it, the next header the
reader finds is that of the next section there is (`NextIsThere`, since what is in
between starts none), so that `Finish` and the end of `SkipUnknown` are only reached
behind the last section, or behind the last the cut file still holds (`NoneIsLeft`).  A
section whose end is missing throws: its loop counts the size of the header down, and
its objects end exactly where the size is used up (`ObjectsAreRead`: after k rounds the
reader has the first k objects, and an object behind the end of the file throws).

Two hypotheses name the files.  `ModelsArePlain`: what is saved has no materials, texture
animations and geosets, since those do not come back (section 5).  That what `write()`
makes of such a model lies as `FileLies` says is proved (`SavedLies`): the size
in each header is the sum of the sizes the objects return, and is where the next section
starts.  `ShippedLie`: so do the files of other programs, whose sections may hold
materials of any number of layers (each with its alphas or without, and with the tagged
values of newer versions) and texture animations with their blocks in any order, of any
number of frames (`ObjectLies`).  That the files of `MCMdx` are such files is seen
from `AuthoredMaterial` and `AuthoredAnimation`.  Such an object names its own size: what
the reader counted is that size, so that `SkipInclusive` has nothing left to skip
(`NothingSkipped`), and each part of it is read up to the place where the next one starts
or throws behind the end of the file (`Reached`, `RoundsReach`, `ObjectIsRead`).  Not
among these files are those with geosets or with layers that have texture ids, which are not
read (section 5), and layers with nothing behind the last
one.

| theorem | statement |
|---|---|
| `SavedModelsAreRead` | `SavedReadsBack` |
| `ShippedModelsAreRead` | `ShippedIsRead` |
| `CutModelsLoseTheirEnd` | `CutLosesLastSections` |

**Loops.**  A loop of the code is a fold here.  `FoldLemmas` shows once that a fold over
a sequence has a stage after each element, each made of the one before it
(`SeqFoldStages`), and that a sum over a finite set takes its terms one by one
(`SumProperties`).  What a loop does for lists of any length then follows by induction
over its stages, stated as "the least stage at which it fails" (`LeastNat`,
`InductionTo`), since the induction theorems of the library take an operator as
a parameter.  The same stages say what `FlattenSeq()` makes of sequences of bytes, and which
algorithms the loops over a compression use (`OnlyOne`, `UsedBothWays`).

**Only model-checked**: all of `MapFormats`, an interpreter of nested formats with
recursive operators, which the prover does not handle; and of `Mdx` the liveness property
`EveryReadEnds` and all of a file with geosets.

## 5. Where the code differs from what it says

Two runs each show a violation of what a comment or a test states.  Paths are relative to
`src/src/`; what is quoted is in `PROJECT.json` under `findings`.

- `archive_written`: `archive.hpp:157` says that changes are "written directly into the
  corresponding file".  `writeBlockTable()` and `writeHashTable()` (`mpq/archive.cpp:499`)
  copy every entry to the start of the buffer, so that of several only the last is
  written: a new archive with two entries shows it.  The other half of
  `ChangesAreWritten`, the data of the files (`FilesReadable`), would be violated in the
  same instance were the tables written well.  `addFile()` and `removeFile()` open the
  archive with an `ofstream` that truncates it (`archive.cpp:694`), so that the second
  file destroys the data of the first, against "Write data to the end of the archive."
  (line 692); and sectors are written without the start position they are read with
  (`archive.cpp:696`, against `archive.hpp:136`).
- `mdx_models`: `Material::write()` (`mdlx/material.cpp:65`) keeps no room for the size of a
  material, which replaces its first value.  `mdlx/test/mdlxfiletest.cpp` writes a model
  with 26 materials and asserts that it comes back.  The files of other programs in this
  instance violate `ModelsAreRead` as well, without the models that are saved.
  `Geoset::read()` skips at its end as much as it has read, and takes for the bounds what
  lies before them (`mdlx/geoset.cpp:184`); the test reads `Orc_Exp.mdx`, which has
  geosets, and asserts that this succeeds.  Of a layer with `KMTF` alone a tag is
  swallowed that is not counted, of one with `KMTF` and `KMTA` one tag is not counted
  (`mdlx/layer.cpp:68`), though both are "optional" and the reader means to "move back".

What holds of the code as it is are their weaker companions in the passing runs
(`FileNeverStale`, `OpensComplete`, `SavedReadsBack` and `ShippedIsRead` for the models
of `mdx`).

What else was met while modelling, and is in the models as the code has it:

*Archive.*
In an archive with its tables behind the data, which is what other programs write, the
next offset points into them (`mpq/archive.hpp:612`; `archive.cpp:677`: "should be the end of
the archive"): such archives are in `tables` and `space`, and keep `NoOverlap`, which is
about the data of files, but not `TablesApart`.  An `addFile()` that cannot write the data
leaves offset and flags in the block (`archive.cpp:686`), from which the next offsets are
counted, so that `NoOverlap` and `NoLostBlock` do not hold with `"data"` among the
failures.  `mpq/hash.cpp:236` lacks an `else`; a deleted entry reaches `block()->index()`, a null
pointer (`AddCrashes`, `RemoveCrashes`), although `archive.hpp:211` allows "free or
deleted" entries.  `addFile()` of a path that exists adds a second entry
(`archive.cpp:777`, `archive.hpp:213` promises an exception).  `create()` ignores the
size of the hash table (`archive.cpp:104`).  A `create()` after a failed `create()`
keeps the entries of the failed one (`archive.cpp:76`).  A `File` stays valid after its
file was removed (`file.hpp:314`), and `containsListfileFile()` stays true
(`archive.hpp:437`). `size()` says it returns the size of the whole file
(`archive.hpp:263`); what a removal takes off `m_size` stays in the file.  The block of
an empty file is handed out again (`block.hpp:194`).

*Sectors.*
A sector with several compressions is decompressed by each of them from the data as
it was stored, not one after the other (`sector.cpp:555`).  An imploded file is never
decompressed: `m_compression` of a sector that was read is `Uncompressed`
(`sector.cpp:537`).  `addFile()` counts a byte in front of the data that is written only
if the file is compressed (`archive.cpp:671`), and forgets it where `Uncompressed` meets
a compressed file; a file with a sector table gets a `fileSize` of 0
(`archive.cpp:661`), so that nothing of it is read back; an encrypted file is written
with one key and read with one per sector; the key adjusted by the file size uses the
size before the file was written, and the name it is made of includes the directory.
`OwnReadsBack` names what remains.

*KIO slave.*
"exception safety" (`kio_mpq.cpp:192`) holds for the archive, not for the attributes, which
are read into the members before (line 179): after an archive that failed to open because
its attributes are cut off, the one that stays open shows its times.  `m_hasAttributes` is
never reset (`kio_mpq.cpp:164`), so that an archive without attributes shows the times of
the one before, though "attributes data is required for file time stamps" (line 179).
`TimesOfNamed` leaves out both.  The archive that is open is known by its name only (`kio_mpq.cpp:144`), `m_modified` is
never used: after another program has changed the archive, its old tables read the new
data.  `listDir()` of a directory other than the root appends the separator twice and
lists nothing (`kio_mpq.cpp:338`, `394`).  `existingEntries()` exchanges the arguments
of `find()` (`listfile.cpp:239`), without which the root would have no directories.
`stat()` of a file that exists ends with `finished()` and then `error()`
(`kio_mpq.cpp:605`, `629`). `read()` sends as many bytes as it was asked for, also
behind the end, and does not advance the position; `seek()` adds to it; after an error
the next session starts where the last one was.  `put()` warns "Not supported yet!"  and
finishes.  An exception of the listfile in `listDir()` ends the process.

*Sources.*
A directory that is missing when the editor starts is dropped at the next exit; a
broken archive in the settings ends every start, since `readSettings()` is called
outside of any handler.  `addSource()` takes the same URL twice
(`mpqprioritylist.cpp:93`).  `restoreDefaults()` puts `war3.mpq` first, which is the
highest priority (`sourcesdialog.cpp:242`, against `mpqprioritylist.hpp:161`), with URLs
`addSource()` refuses because they lack the scheme.  The dialog of a stand-alone
module writes a group `Module::readSettings()` never reads (`sourcesdialog.cpp:297`).
`upload()` goes on at the next source when one fails (`mpqprioritylist.cpp:433`).

*Resources.*
After two refreshes of a shared file (`editor/warcraftiiishared.cpp:90`) its resource is
attached without being listed, while `resource.hpp:67` promises that it can be accessed
via the list.  `loadOnRequest()` (`editor/objectdata.cpp:170`) asks for the first file only:
after a load that failed the next request returns true, against `objectdata.hpp:251`;
`RequestLoads` is about the request that loads.  `~MpqPriorityList()` (`editor/mpqprioritylist.cpp:66`) reaches only what is listed and
erases the entry its iterator is at.  A resource that was refreshed twice is destroyed
after the list it then asks to remove it; a failed refresh even takes the old data out
of the list.  `closeMap()` neither detaches nor deletes the map (`editor.cpp:275`).
`MetaData::load()` rethrows with `throw e`, which slices (`metadata.cpp:476`), and
`MetaData::save()` always throws (`metadata.cpp:501`).

*Objects.*
`customUnits()`, `customObjects()` and `customObject()` use the set after it was moved
from (`objectdata.cpp:943`, `986`, `1018`): exporting any modified object dereferences a
null pointer.  `pasteObject()` casts to the wrong kind of set and indexes with the wrong
variable (`objecteditor/objecteditortab.cpp:706`).  `removeRows()` removes a row only if
it is the first (`objecteditor/objecttreemodel.cpp:255`), and the hash of the model
keeps deleted items: a deleted object stays in the tree or is found though it is gone;
if a new item has got its memory by then, the row of that item is removed, which
`UseDangling` leaves out (its outcomes are no effect and a crash).  `resetField()` and
`resetObject()` do not move an item back to the folder of its default class.
`resetField()` and `compress()` erase custom objects without a signal.
`clearModifications()` passes references into the entry it erases
(`objectdata.cpp:549`), and `compress()` erases the entry its iterator is at
(`objectdata.cpp:1298`).  `nextCustomObjectId()` iterates over an unordered set, and
overwrites a gap it found with 0 (`objectdata.cpp:1093`).  Imports drop objects without
a modification.

*Files of maps.*
`CustomObjectsCollection::write()` leaves out the flags `read()` expects before each
table (`customobjectscollection.cpp:120`): nothing it writes can be read.
`UnitAndItem::write()` stops in the middle (`unitanditem.cpp:136`, "TODO Implement").
Texts of 1024 characters or more are written and not read (`utilities.hpp:232`).
`CustomTextTriggers::read()` keeps the old text of an empty entry, and several classes
append to what they hold (`customtexttriggers.cpp:47`).  `Environment::read()` leaves
pointers that were never set if it throws (`environment.cpp:81`).  The shadows of a map
get no size (`w3m.cpp:91`).

*Models.*
Besides materials: `TextureAnimation::write()` keeps no room for its size either and
writes `KTAT` with five bytes; `Geoset::write()` writes its size with eight bytes, over
the first tag, and no counts.  `Geoset::read()` indexes its counts and triangles by what
its types ask for, also beyond their ends (`geoset.cpp:120`, `125`: `ReadOutOfRange`).
`KFC3` and `KFCA` share a member.  Padding is skipped without being counted
(`platform.hpp:117`).  A layer at the end of the file throws.

## 6. What is not modelled

- Values of bytes: hashing, and what codecs make of data.  A codec is modelled by what it
  leaves in the block (`MpqTables`) and as what undoes itself (`MpqSectors`).  The text of
  a listfile, writing attributes, the signature; MIME types and sizes the slave sends.
- `Sector::compress()` of one sector of an existing file, which nothing calls.
- `removeFile()` that is killed between the header and the tables: the reader then
  works with buffers that were never filled, and `OpensComplete` leaves it out.
- Archives other programs wrote, in `MpqArchive` (`Images` is empty there; `tables`
  and `space` have them); what `open()` makes of tables with garbage, and
  `addFile()` after a `create()` that threw.
- Memory of a freed tree item that belongs to a new one (`UseDangling`).
- `upload()` and the temporary files of `download()`; `addDefaultSources()` without a
  directory, which nothing calls.
- Levels of fields, names of objects, `applyMapStrings()`, `nextCustomObjectId()`,
  validation of values; the tree before its first `load()`.
- In `MapFormats`: accessors, reading into an object that was filled before, byte order
  and the values of numbers nobody branches on.  In `Mdx`: padding, versions above 901.
- The text formats of `src/map` and `src/mdlx` and `src/jass` (Boost.Spirit grammars),
  `src/blp`, `src/json`, `src/game`, `src/w3g`: readers and writers of one value without
  state between calls.  Widgets and rendering: they call the parts above.  `lib` and other third-party code.

Every part, with its reason, is in `PROJECT.json` under `components`; the hazards
no property covers have a note there.

## 7. Plan

Done: the archive tables, their abstract specification and proofs, the archive
file with proofs, sectors and the KIO slave with proofs, sources, resources, objects and
their tree with proofs, the binary files of maps, models with proofs.  Next, in this order:

1. `download()` and `upload()` in `EditorSources`: temporary files over the life of
   the list, the order of attempts, a failing source in the middle.
2. `nextCustomObjectId()` and levels of fields as operators of `EditorObjects`,
   against "each custom object needs a unique ID".
