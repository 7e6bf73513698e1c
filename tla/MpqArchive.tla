----------------------------- MODULE MpqArchive -----------------------------
(***************************************************************************)
(* An mpq::Archive together with the file it lives in.  Every change of    *)
(* the tables opens the file anew with an ofstream, which empties it, and  *)
(* writes the parts the change touches.  The writes reach the file one by  *)
(* one in program order (each starts with a seek, which flushes the one    *)
(* before); a write may throw, and the process may be killed between any   *)
(* two of them.                                                            *)
(*                                                                         *)
(* The offsets of header and tables are the same for writer and reader,    *)
(* so each part is a field of the file; the data of a file is kept with    *)
(* the absolute position it was written to, because there they differ.     *)
(* The parts do not overlap in an archive that starts with its file        *)
(* (TablesApart); in another one the tables may lie over the data, which   *)
(* is not read where it was written anyway.  Not followed is addFile() of  *)
(* an Archive that is closed because its create() has thrown: its tables   *)
(* may lie over each other.                                                *)
(***************************************************************************)
EXTENDS MpqTables

CONSTANT StartPositions (* the start positions create() is called with     *)

(* create() for at least one file.                                         *)
ASSUME StartAssumption == StartPositions \subseteq Nat /\ 0 \notin TableSizes

VARIABLES
    start,    (* m_startPosition                                           *)
    disk,     (* the parts of the archive file                             *)
    pending,  (* the writes the running call has still to do               *)
    threw     (* the last call that writes the file or read it has thrown  *)

diskVars == <<start, disk, pending, threw>>
allVars == <<vars, diskVars>>

NoHeader == [magic |-> FALSE]
NoTable == <<>>
Garbage == [initialised |-> FALSE]

(* An emptied file; "by" remembers the call that emptied it.               *)
EmptyFile(f) ==
    [header |-> NoHeader, btab |-> NoTable, htab |-> NoTable, data |-> {}, by |-> f]

Truncate(f) == [part |-> "file", by |-> f]
Part(p, v) == [part |-> p, value |-> v]

ApplyWrite(d, w) ==
    CASE w.part = "file" -> EmptyFile(w.by)
      [] w.part = "data" -> [d EXCEPT !.data = @ \union {w.value}]
      [] OTHER -> [d EXCEPT ![w.part] = w.value]

-----------------------------------------------------------------------------
(* toBlockTableEntry() and toHashTableEntry() (for entries not deleted).   *)
BlockEntry(b) ==
    [offset |-> b.offset, blockSize |-> b.blockSize, fileSize |-> b.fileSize, flags |-> b.flags]
HashEntry(h, bs) ==
    [key |-> h.key, index |-> IF h.block = NoBlock THEN -1 ELSE bs[h.block].index]

(* writeBlockTable() and writeHashTable() copy every entry to the start of *)
(* the buffer: the last one copied stays, the rest was never initialised.  *)
(* The hashes come in the order of the multimap, which may end with any.   *)
LastOnly(n, entry) == [i \in 1..n |-> IF i = 1 THEN entry ELSE Garbage]
BlockTable(bs) == LastOnly(Len(bs), BlockEntry(bs[Len(bs)]))
HashTables(hs, bs) == {LastOnly(Len(bs), HashEntry(hs[s], bs)) : s \in DOMAIN hs}

HeaderOf(st, bOff, hOff, bs, hs, sz) ==
    [start |-> st, bto |-> bOff, hto |-> hOff, blocks |-> Len(bs), hashes |-> Len(hs), size |-> sz]
NewHeader == HeaderOf(start', bto', hto', blocks', hashes', size')

(* addFile() writes at the block offset itself; File::sectors() reads at   *)
(* the block offset behind the start of the archive.                       *)
DataOf(key, offset, b) == [key |-> key, at |-> offset, length |-> b.blockSize]
Readable(d, st, key, b) == DataOf(key, st + b.offset, b) \in d.data

-----------------------------------------------------------------------------
Idle == pending = <<>>

(* A call does the first n of the writes ws.                               *)
Start(ws, n) ==
    /\ pending' = SubSeq(ws, 1, n)
    /\ threw' = (n < Len(ws))
    /\ UNCHANGED disk

WriteStep ==
    /\ pending # <<>>
    /\ disk' = ApplyWrite(disk, Head(pending))
    /\ pending' = Tail(pending)
    /\ UNCHANGED <<vars, start, threw>>

CreateWrites(ht) ==
    <<Truncate("create"), Part("btab", BlockTable(blocks')), Part("htab", ht),
      Part("header", NewHeader)>>

CreateFile(h, b, st) ==
    /\ Idle
    /\ Create(h, b)
    /\ start' = st
    /\ \E ht \in HashTables(hashes', blocks') : Start(CreateWrites(ht), 4)

(* Some write of create() throws, or the format is Mpq2.                   *)
CreateFileThrows(h, b, st) ==
    /\ Idle
    /\ CreateThrows(h, b)
    /\ start' = st
    /\ \E ht \in HashTables(hashes', blocks'), n \in 1..3 : Start(CreateWrites(ht), n)

(* A mutant for OpensComplete: the header is written before the tables.    *)
AddWritesHeaderFirst(k, ht) ==
    LET p == FirstFreeBlock
    IN  <<Truncate("add"), Part("data", DataOf(k, blocks'[p].offset, blocks'[p])),
          Part("header", NewHeader),
          Part("btab", BlockTable(blocks')), Part("htab", ht)>>

AddWrites(k, ht) ==
    LET p == FirstFreeBlock
    IN  <<Truncate("add"), Part("data", DataOf(k, blocks'[p].offset, blocks'[p])),
          Part("btab", BlockTable(blocks')), Part("htab", ht),
          Part("header", NewHeader)>>

AddFile(c, k, l) ==
    /\ Idle
    /\ isOpen
    /\ Add(c, k, l)
    /\ UNCHANGED start
    /\ \E ht \in HashTables(hashes', blocks') : Start(AddWrites(k, ht), 5)

(* The stream cannot be opened, or one of the writes throws.               *)
AddFileDataThrows(l) ==
    /\ Idle
    /\ isOpen
    /\ AddDataThrows(l)
    /\ UNCHANGED start
    /\ \E n \in 0..1 : pending' = SubSeq(<<Truncate("add")>>, 1, n)
    /\ threw' = TRUE
    /\ UNCHANGED disk

AddFileThrows(k, l) ==
    /\ Idle
    /\ isOpen
    /\ AddThrows(k, l)
    /\ UNCHANGED start
    /\ \E ht \in HashTables(hashes', blocks'), n \in 2..4 : Start(AddWrites(k, ht), n)

(* A mutant for FileNeverStale: the block table as it was before the call. *)
RemoveWritesOldBlocks(ht) ==
    <<Truncate("remove"), Part("header", NewHeader),
      Part("btab", BlockTable(blocks)), Part("htab", ht)>>
RemoveWrites(ht) ==
    <<Truncate("remove"), Part("header", NewHeader),
      Part("btab", BlockTable(blocks')), Part("htab", ht)>>

RemoveFile(c) ==
    /\ Idle
    /\ RemoveEntry(c)
    /\ UNCHANGED start
    /\ \E ht \in HashTables(hashes', blocks'), n \in 0..4 :
         /\ n < 4 => Failures # {}
         /\ Start(RemoveWrites(ht), n)

-----------------------------------------------------------------------------
(* What read() makes of a file in which header and tables are complete.    *)
Complete(d) ==
    /\ d.header # NoHeader /\ d.btab # NoTable /\ d.htab # NoTable
    /\ \A i \in DOMAIN d.btab : d.btab[i] # Garbage
    /\ \A i \in DOMAIN d.htab : d.htab[i] # Garbage
ImageOf(d) ==
    [blocks |-> [i \in 1..d.header.blocks |->
                  [index |-> i - 1, offset |-> d.btab[i].offset,
                   blockSize |-> d.btab[i].blockSize, fileSize |-> d.btab[i].fileSize,
                   flags |-> d.btab[i].flags]],
     hashes |-> [i \in 1..d.header.hashes |->
                  [key |-> d.htab[i].key, block |-> d.htab[i].index + 1, deleted |-> FALSE]],
     bto |-> d.header.bto, hto |-> d.header.hto, size |-> d.header.size]

(* open(); what comes out of garbage is not followed.                      *)
OpenFile ==
    /\ Idle
    /\ Complete(disk)
    /\ Open(ImageOf(disk))
    /\ start' = disk.header.start
    /\ threw' = FALSE
    /\ UNCHANGED <<disk, pending>>

(* readHeader() finds no identifier.                                       *)
OpenFileThrows ==
    /\ Idle
    /\ disk.header = NoHeader
    /\ OpenThrows
    /\ start' = 0
    /\ threw' = TRUE
    /\ UNCHANGED <<disk, pending>>

CloseArchive ==
    /\ Idle
    /\ Close
    /\ start' = 0
    /\ UNCHANGED <<disk, pending, threw>>

(* The calls that leave the file alone.                                    *)
QuietCall ==
    /\ Idle
    /\ \/ AddTooSmall
       \/ \E c \in Clients : RemoveRefused(c) \/ CloseFile(c)
       \/ \E c \in Clients, k \in Keys : Find(c, k)
    /\ UNCHANGED diskVars

(* The process ends, in the middle of a call or by its own null pointer.   *)
Kill ==
    /\ Crash
    /\ start' = 0
    /\ pending' = <<>>
    /\ threw' = FALSE
    /\ UNCHANGED disk
CrashInRemove == Idle /\ (\E c \in Clients : RemoveCrashes(c)) /\ Kill

ArchiveInit ==
    /\ Init
    /\ start = 0
    /\ disk = EmptyFile("none")
    /\ pending = <<>>
    /\ threw = FALSE

(* The calls after which the archive shows files.                          *)
Begins ==
    \/ \E h, b \in TableSizes, st \in StartPositions : CreateFile(h, b, st)
    \/ OpenFile

Continues ==
    \/ \E h, b \in TableSizes, st \in StartPositions : CreateFileThrows(h, b, st)
    \/ \E c \in Clients, k \in Keys, l \in Layouts : AddFile(c, k, l)
    \/ \E k \in Keys, l \in Layouts : AddFileThrows(k, l)
    \/ \E l \in Layouts : AddFileDataThrows(l)
    \/ \E c \in Clients : RemoveFile(c)
    \/ WriteStep
    \/ OpenFileThrows
    \/ CloseArchive
    \/ QuietCall
    \/ CrashInRemove
    \/ Kill

ArchiveNext == Begins \/ Continues

ArchiveSpec == ArchiveInit /\ [][ArchiveNext]_allVars

-----------------------------------------------------------------------------
(* Properties.                                                             *)

(* After every call that did not throw, whatever calls before it did, the  *)
(* file has the header of memory, tables as long as the header says, and   *)
(* no entry in them that memory does not have: nothing of an earlier state *)
(* is left in the file, for tables of every length.                        *)
FileNeverStale ==
    Idle /\ isOpen /\ ~threw =>
        /\ disk.header = HeaderOf(start, bto, hto, blocks, hashes, size)
        /\ Len(disk.btab) = Len(blocks) /\ Len(disk.htab) = Len(hashes)
        /\ \A i \in DOMAIN disk.btab :
              disk.btab[i] # Garbage => \E p \in DOMAIN blocks : disk.btab[i] = BlockEntry(blocks[p])
        /\ \A i \in DOMAIN disk.htab :
              disk.htab[i] # Garbage => \E s \in DOMAIN hashes : disk.htab[i] = HashEntry(hashes[s], blocks)

(* The file addFile() wrote last can be read, however many are in the      *)
(* tables: of an archive at the start of its file.                         *)
AddedReadable ==
    Idle /\ isOpen /\ ~threw /\ disk.by = "add" /\ start = 0 =>
        \E s \in UsedSlots : Readable(disk, start, hashes[s].key, blocks[hashes[s].block])

(* Whatever interrupts create() or addFile(), an archive with a header has *)
(* tables of the length the header says, after addFile() also data, and if *)
(* no entry is garbage every file the tables list can be read: because the *)
(* header is written last.                                                 *)
OpensComplete ==
    disk.header # NoHeader /\ disk.by # "remove" =>
        /\ Len(disk.btab) = disk.header.blocks /\ Len(disk.htab) = disk.header.hashes
        /\ disk.by = "add" => disk.data # {}
        /\ Complete(disk) /\ disk.header.start = 0 =>
             LET im == ImageOf(disk)
             IN  \A i \in DOMAIN im.hashes :
                   im.hashes[i].block # NoBlock =>
                       Readable(disk, 0, im.hashes[i].key, im.blocks[im.hashes[i].block])

(* The entries of the tables are in the file, each where it belongs.       *)
FileUpToDate ==
    /\ disk.btab = [i \in DOMAIN blocks |-> BlockEntry(blocks[i])]
    /\ disk.htab = [i \in DOMAIN hashes |-> HashEntry(hashes[i], blocks)]

(* The data of every file is in the archive file and where it is read.     *)
FilesReadable == \A s \in UsedSlots : Readable(disk, start, hashes[s].key, blocks[hashes[s].block])

(* What the comment of Archive::write() says: changes are "written         *)
(* directly into the corresponding file".  Violated by tables of several   *)
(* entries, of which only the last is written; by the second file, which   *)
(* the stream of addFile() truncates the first away for; and by archives   *)
(* behind a start position, which addFile() forgets and File::sectors()    *)
(* adds.                                                                   *)
ChangesAreWritten == Idle /\ isOpen /\ ~threw => FileUpToDate /\ FilesReadable
=============================================================================
