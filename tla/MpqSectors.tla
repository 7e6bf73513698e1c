----------------------------- MODULE MpqSectors -----------------------------
(***************************************************************************)
(* The data of one file in an archive: how addFile() and other programs    *)
(* lay it out in sectors, encrypted and compressed, and how                *)
(* File::sectors() and Sector::decompress() get it back.                   *)
(*                                                                         *)
(* A byte is a cell that says what it stands for: a byte of the data, of   *)
(* the compressed form of a piece of the data, the byte that names the     *)
(* algorithms, or a byte of a number in the sector offset table.  A cell   *)
(* is encrypted with a key at a place of a run of bytes, and only the same *)
(* key at the same place, behind words decrypted right, gives it back.     *)
(* What was never written, or is decrypted or decompressed wrongly, is     *)
(* junk.                                                                   *)
(*                                                                         *)
(* The archive has one file and nothing is behind it.                      *)
(***************************************************************************)
EXTENDS Integers, Sequences, FiniteSets, SequencesExt

CONSTANTS
    SectorSize,   (* Archive::sectorSize()                                 *)
    Word,         (* sizeof(uint32)                                        *)
    UIntModulus,  (* the number of values of a uint32                      *)
    DataSizes,    (* the sizes of the files                                *)
    Masks,        (* the compressions addFile() is called with             *)
    Chains,       (* the algorithms other programs apply, first one first  *)
    PackedSizes   (* what a piece of data may shrink or grow to            *)

(* The algorithms in the order Sector::compress() applies them.            *)
WriteOrder == <<"ImaAdpcmMono", "ImaAdpcmStereo", "Huffman", "Deflated", "Imploded", "Bzip2">>
Algorithms == ToSet(WriteOrder)

ASSUME SectorsAssumption ==
    /\ SectorSize \in Nat \ {0}
    /\ Word \in Nat \ {0}
    /\ SectorSize % Word = 0
    /\ UIntModulus \in Nat
    /\ DataSizes \subseteq 0..(UIntModulus - 1)
    /\ PackedSizes \subseteq Nat \ {0}
    /\ \A mask \in Masks : "Imploded" \in mask => mask = {"Imploded"}
    /\ UNION Masks \subseteq Algorithms
    /\ Chains \subseteq Seq(Algorithms)

VARIABLES
    pc,         (* what is being done with the file                        *)
    file,       (* its Block, its author and its path                      *)
    stored,     (* the bytes of the archive from the block offset on       *)
    lost,       (* the archive file lost its end                           *)
    known,      (* the File knows its path                                 *)
    offsets,    (* the sector offset table, as it was read                 *)
    sectors,    (* the sectors File::sectors() has found so far            *)
    newOffset,  (* the offset of the next sector                           *)
    remaining,  (* remainingUncompressedSize                               *)
    next,       (* the sector decompress() reads next                      *)
    out         (* what decompress() has written so far                    *)

reader == <<offsets, sectors, newOffset, remaining, next, out>>
vars == <<pc, file, stored, lost, known, reader>>

Flags == {"IsSingleUnit", "UsesEncryptionKey", "IsEncrypted", "IsCompressed", "IsImploded"}
HasSectorOffsetTable(flags) ==
    "IsSingleUnit" \notin flags /\ flags \cap {"IsCompressed", "IsImploded"} # {}

-----------------------------------------------------------------------------
(* Bytes.                                                                  *)
Plain(i) == [kind |-> "data", at |-> i]
Data(first, last) == [j \in 1..(last - first + 1) |-> Plain(first + j - 1)]
Mask(algorithms) == [kind |-> "mask", algorithms |-> algorithms]
Packed(first, last, chain, size) ==
    [j \in 1..size |-> [kind |-> "packed", first |-> first, last |-> last,
                        chain |-> chain, at |-> j, size |-> size]]
Numbers(values) ==
    [j \in 1..(Len(values) * Word) |->
        [kind |-> "number", value |-> values[(j - 1) \div Word + 1], at |-> (j - 1) % Word]]
Junk == [kind |-> "junk"]
JunkOf(size) == [j \in 1..size |-> Junk]

(* fileKey(): the name, adjusted by the size of the file (and its offset,  *)
(* which is the same for all), and what is added to it.                    *)
FileKey(name, flags, size, plus) ==
    [name |-> name, plus |-> plus,
     adjusted |-> IF "UsesEncryptionKey" \in flags THEN size ELSE -1]

(* The bytes of whole words.                                               *)
Whole(cells) == Len(cells) - (Len(cells) % Word)
Encrypted(cell, key, j) == [kind |-> "encrypted", key |-> key, at |-> j, cell |-> cell]

EncryptData(cells, key) ==
    [j \in DOMAIN cells |->
        IF j <= Whole(cells) THEN Encrypted(cells[j], key, j) ELSE cells[j]]

Fits(cell, key, j) == cell.kind = "encrypted" /\ cell.key = key /\ cell.at = j
WordStart(j) == (j - 1) - ((j - 1) % Word)
DecryptData(cells, key) ==
    [j \in DOMAIN cells |->
        IF j > Whole(cells) THEN cells[j]
        ELSE IF Fits(cells[j], key, j) /\ \A i \in 1..WordStart(j) : Fits(cells[i], key, i)
             THEN cells[j].cell
             ELSE Junk]

-----------------------------------------------------------------------------
(* Sector::compress(): each algorithm that is asked for compresses the     *)
(* data anew, the last one stays.  After imploding the size is not set.    *)
InOrder(algorithms, order) ==
    FoldLeft(LAMBDA used, a : IF a \in algorithms THEN Append(used, a) ELSE used, <<>>, order)
Compress(n, flags, mask, size) ==
    IF "IsCompressed" \notin flags \/ mask = {} THEN Data(1, n)
    ELSE IF mask = {"Imploded"} THEN <<>>
    ELSE Packed(1, n, <<Last(InOrder(mask, WriteOrder))>>, size)

(* The sectors of a new file.  A sector takes a byte more than its data    *)
(* when there is a compression, also behind the end of the data.           *)
NewSector(i, offset, size, uncompressed) ==
    [index |-> i, offset |-> offset, size |-> size, uncompressed |-> uncompressed]
Ceiling(n, d) == (n + d - 1) \div d
Least(a, b) == IF a <= b THEN a ELSE b
(* A mutant for OwnReadsBack: the size forgets the byte in front.          *)
NewSectorsOfData(n, flags, mask, compressedSize) == <<NewSector(0, 0, compressedSize, n)>>
NewSectors(n, flags, mask, compressedSize) ==
    LET plus == IF mask = {} THEN 0 ELSE 1
        step == SectorSize + plus
    IN  IF HasSectorOffsetTable(flags)
        THEN [i \in 1..Ceiling(compressedSize, step) |->
                 NewSector(i - 1, (i - 1) * step,
                           Least(SectorSize, compressedSize - (i - 1) * step) + plus, 0)]
        ELSE <<NewSector(0, 0, compressedSize + plus, n)>>

(* Sector::writeCompressed() of the data from the offset of the sector on. *)
WriteCompressed(data, s, f) ==
    LET bytes == [j \in 1..s.size |->
                     IF s.offset + j <= Len(data) THEN data[s.offset + j] ELSE Junk]
        masked == IF "IsCompressed" \in f.flags THEN <<Mask(f.mask)>> \o bytes ELSE bytes
    IN  IF "IsEncrypted" \in f.flags
        THEN EncryptData(masked, FileKey(f.path, f.flags, 0, s.index))
        ELSE masked

(* Sector::writeSectors(): the offset of every sector, then the size.      *)
WriteSectors(new, n, flags, path, compressedSize) ==
    LET values == [i \in 1..(Len(new) + 1) |->
                      IF i <= Len(new) THEN new[i].offset ELSE compressedSize]
    IN  IF ~HasSectorOffsetTable(flags) THEN <<>>
        ELSE IF "IsEncrypted" \in flags
             THEN EncryptData(Numbers(values), FileKey(path, flags, n, -1))
             ELSE Numbers(values)

Paths == {"name", "directory"}

(* addFile(): nothing is imploded, since compressPklib() crashes then.     *)
AddFile ==
    /\ pc = "closed"
    /\ \E n \in DataSizes, flags \in SUBSET (Flags \ {"IsImploded"}), mask \in Masks,
          packed \in PackedSizes, path \in Paths :
         LET data == Compress(n, flags, mask, packed)
             new == NewSectors(n, flags, mask, Len(data))
             table == WriteSectors(new, n, flags, path, Len(data))
             f == [flags |-> flags, mask |-> mask, path |-> path]
             written == [i \in DOMAIN new |-> WriteCompressed(data, new[i], f)]
         IN  /\ stored' = table \o FlattenSeq(written)
             /\ file' = [own |-> TRUE, path |-> path, flags |-> flags,
                         chain |-> InOrder(mask, WriteOrder), dataSize |-> n,
                         blockSize |-> Len(table) + IF new = <<>> THEN 0
                                                    ELSE Last(new).offset + Last(new).size,
                         fileSize |-> IF HasSectorOffsetTable(flags) THEN 0 ELSE n,
                         packed |-> Len(data)]
    /\ pc' = "stored"
    /\ UNCHANGED <<lost, known, reader>>

-----------------------------------------------------------------------------
(* Other programs cut the data in pieces of a sector each, or keep it as   *)
(* one; compress every piece that gets smaller, with the byte that names   *)
(* the algorithms; encrypt every piece by the name without directories,    *)
(* and put the sector offset table in front.                               *)
Pieces(n, flags) ==
    IF "IsSingleUnit" \in flags THEN <<Data(1, n)>>
    ELSE [i \in 1..Ceiling(n, SectorSize) |->
             Data((i - 1) * SectorSize + 1, Least(i * SectorSize, n))]
Shrunk(piece, flags, chain, size) ==
    LET masked == IF "IsCompressed" \in flags
                  THEN <<Mask({chain[i] : i \in DOMAIN chain})>> ELSE <<>>
    IN  IF flags \cap {"IsCompressed", "IsImploded"} # {} /\ Len(masked) + size < Len(piece)
        THEN masked \o Packed(piece[1].at, Last(piece).at, chain, size)
        ELSE piece
AuthorFlags(chain) ==
    {flags \in SUBSET Flags :
        /\ chain = <<>> => flags \cap {"IsCompressed", "IsImploded"} = {}
        /\ chain = <<"Imploded">> => "IsImploded" \in flags /\ "IsCompressed" \notin flags
        /\ chain \notin {<<>>, <<"Imploded">>} =>
               "IsCompressed" \in flags /\ "IsImploded" \notin flags}

Author ==
    /\ pc = "closed"
    /\ \E n \in DataSizes, chain \in Chains, path \in Paths : \E flags \in AuthorFlags(chain) :
       \E packed \in [DOMAIN Pieces(n, flags) -> IF chain = <<>> THEN {1} ELSE PackedSizes] :
         LET pieces == Pieces(n, flags)
             shrunk == [i \in DOMAIN pieces |-> Shrunk(pieces[i], flags, chain, packed[i])]
             written == [i \in DOMAIN pieces |->
                            IF "IsEncrypted" \in flags
                            THEN EncryptData(shrunk[i], FileKey("name", flags, n, i - 1))
                            ELSE shrunk[i]]
             tableSize == (Len(pieces) + 1) * Word
             ends == [i \in 0..Len(pieces) |-> tableSize + Len(FlattenSeq(SubSeq(shrunk, 1, i)))]
             numbers == Numbers([i \in 1..(Len(pieces) + 1) |-> ends[i - 1]])
             table == IF ~HasSectorOffsetTable(flags) THEN <<>>
                      ELSE IF "IsEncrypted" \in flags
                           THEN EncryptData(numbers, FileKey("name", flags, n, -1))
                           ELSE numbers
         IN  /\ stored' = table \o FlattenSeq(written)
             /\ file' = [own |-> FALSE, path |-> path, flags |-> flags, chain |-> chain,
                         dataSize |-> n, blockSize |-> Len(stored'), fileSize |-> n, packed |-> 0]
    /\ pc' = "stored"
    /\ UNCHANGED <<lost, known, reader>>

(* The archive file loses its end.                                         *)
Lose ==
    /\ pc = "stored" /\ ~lost
    /\ \E size \in 0..(Len(stored) - 1) : stored' = SubSeq(stored, 1, size)
    /\ lost' = TRUE
    /\ UNCHANGED <<pc, file, known, reader>>

-----------------------------------------------------------------------------
(* Reading.                                                                *)
IsEncrypted == "IsEncrypted" \in file.flags
IsPlain == file.flags \cap {"IsCompressed", "IsImploded"} = {}
HasTable == HasSectorOffsetTable(file.flags)
Key(plus) == FileKey("name", file.flags, file.fileSize, plus)

(* Unsigned subtraction.                                                   *)
Minus(a, b) == IF a >= b THEN a - b ELSE a - b + UIntModulus

(* The sectors of a file with a table are those of its uncompressed size,  *)
(* those of a file without one the full ones of its size in the archive.   *)
SectorsCount ==
    IF HasTable
    THEN file.fileSize \div SectorSize + (IF file.fileSize % SectorSize > 0 THEN 1 ELSE 0)
    ELSE file.blockSize \div SectorSize
TableBytes == (SectorsCount + 1) * Word

(* The number that starts behind the first "from" bytes.                   *)
NumberAt(cells, from) ==
    LET first == cells[from + 1]
    IN  IF first.kind = "number" /\ SubSeq(cells, from + 1, from + Word)
                                      = [j \in 1..Word |-> [first EXCEPT !.at = j - 1]]
        THEN first.value
        ELSE UIntModulus - 1

(* File::decompress() opens the archive and calls File::sectors().  Every  *)
(* call starts anew, with an empty stream to write to.                     *)
Open(state) ==
    /\ pc \in {"stored", "done", "threw"}
    /\ known' \in BOOLEAN
    /\ pc' = state
    /\ newOffset' = 0 /\ remaining' = file.fileSize /\ next' = 1 /\ out' = <<>>
    /\ UNCHANGED <<file, stored, lost>>
OpenWithoutPath ==
    /\ Open("done")
    /\ HasTable /\ IsEncrypted /\ ~known'
    /\ offsets' = <<>> /\ sectors' = <<>>
OpenPlain ==
    /\ Open("listing")
    /\ IsPlain
    /\ offsets' = <<>> /\ sectors' = <<>>
OpenSingleUnit ==
    /\ Open("reading")
    /\ ~IsPlain /\ ~HasTable
    /\ offsets' = <<>>
    /\ sectors' = <<NewSector(0, 0, file.blockSize, file.fileSize)>>
OpenTable ==
    LET bytes == SubSeq(stored, 1, TableBytes)
        cells == IF IsEncrypted THEN DecryptData(bytes, Key(-1)) ELSE bytes
    IN  /\ Open(IF TableBytes > Len(stored) THEN "threw" ELSE "listing")
        /\ HasTable /\ (IsEncrypted => known')
        /\ offsets' = IF TableBytes > Len(stored) THEN <<>>
                      ELSE [i \in 1..(SectorsCount + 1) |-> NumberAt(cells, (i - 1) * Word)]
        /\ sectors' = <<>>

(* One step of the loops of File::sectors().                               *)
PushSector(offset, size, uncompressed) ==
    sectors' = Append(sectors, NewSector(Len(sectors), offset, size, uncompressed))
ListPlain ==
    /\ pc = "listing" /\ ~HasTable /\ Len(sectors) < SectorsCount
    /\ PushSector(newOffset, SectorSize, SectorSize)
    /\ newOffset' = newOffset + SectorSize
    /\ remaining' = Minus(remaining, SectorSize)
    /\ UNCHANGED <<pc, file, stored, lost, known, offsets, next, out>>
(* A mutant for SectorsCover: the last sector is a full one.               *)
ListRestFull ==
    /\ pc = "listing" /\ ~HasTable /\ Len(sectors) = SectorsCount
    /\ IF remaining > 0 THEN PushSector(newOffset, SectorSize, SectorSize)
                        ELSE UNCHANGED sectors
    /\ pc' = "reading"
    /\ UNCHANGED <<file, stored, lost, known, offsets, newOffset, remaining, next, out>>
ListRest ==
    /\ pc = "listing" /\ ~HasTable /\ Len(sectors) = SectorsCount
    /\ IF remaining > 0 THEN PushSector(newOffset, remaining, remaining)
                        ELSE UNCHANGED sectors
    /\ pc' = "reading"
    /\ UNCHANGED <<file, stored, lost, known, offsets, newOffset, remaining, next, out>>
ListFromTable ==
    /\ pc = "listing" /\ HasTable /\ Len(sectors) < SectorsCount
    /\ LET i == Len(sectors) + 1
           uncompressed == Least(SectorSize, remaining)
       IN  /\ PushSector(offsets[i], Minus(offsets[i + 1], offsets[i]), uncompressed)
           /\ remaining' = remaining - uncompressed
    /\ UNCHANGED <<pc, file, stored, lost, known, offsets, newOffset, next, out>>
ListEnd ==
    /\ pc = "listing" /\ HasTable /\ Len(sectors) = SectorsCount
    /\ pc' = "reading"
    /\ UNCHANGED <<file, stored, lost, known, reader>>

-----------------------------------------------------------------------------
(* Sector::decompress(): every algorithm the first byte names, in the      *)
(* opposite order, decompresses the bytes behind it, and the last one      *)
(* stays.  Some notice data that is not theirs.                            *)
ReadOrder == [i \in 1..6 |-> WriteOrder[7 - i]]
Noticing == {"Bzip2", "Deflated", "Huffman", "ImaAdpcmMono", "ImaAdpcmStereo"}
Intact(cells) ==
    /\ cells # <<>> /\ cells[1].kind = "packed"
    /\ cells = Packed(cells[1].first, cells[1].last, cells[1].chain, cells[1].size)
Undoes(algorithm, cells) == Intact(cells) /\ Last(cells[1].chain) = algorithm
Undo(algorithm, cells, size) ==
    IF Undoes(algorithm, cells) /\ Len(cells[1].chain) = 1
    THEN Data(cells[1].first, cells[1].last)
    ELSE JunkOf(size)

Threw == [threw |-> TRUE]
Gave(cells) == [threw |-> FALSE, cells |-> cells]
Decompressed(cells, size) ==
    IF "IsImploded" \in file.flags THEN {Gave(JunkOf(size))}
    ELSE IF cells[1].kind # "mask" THEN {Gave(JunkOf(size)), Threw}
    ELSE LET used == InOrder(cells[1].algorithms, ReadOrder)
             real == Tail(cells)
         IN  {Gave(IF used = <<>> THEN JunkOf(size) ELSE Undo(Last(used), real, size))}
             \union {Threw : a \in {a \in DOMAIN used : used[a] \in Noticing
                                                        /\ ~Undoes(used[a], real)}}

(* One sector of the loop of File::decompress(): nothing is read for an    *)
(* empty one; the end of the file and a missing name throw.                *)
Reading == pc = "reading" /\ next <= Len(sectors)
Current == sectors[next]
IsBehindEnd == Current.offset + Current.size > Len(stored)
Bytes == SubSeq(stored, Current.offset + 1, Current.offset + Current.size)

Deliver(cells) ==
    /\ out' = out \o cells
    /\ next' = next + 1
    /\ UNCHANGED <<pc, file, stored, lost, known, offsets, sectors, newOffset, remaining>>
Throw ==
    /\ pc' = "threw"
    /\ UNCHANGED <<file, stored, lost, known, reader>>

ReadEmpty ==
    /\ Reading /\ Current.size = 0
    /\ Deliver(<<>>)
ReadThrows ==
    /\ Reading /\ Current.size > 0
    /\ IsBehindEnd \/ (IsEncrypted /\ ~known)
    /\ Throw
(* A mutant for AuthoredIsRead: every sector has the key of the first.     *)
DecryptedByFileKey ==
    IF IsEncrypted THEN DecryptData(Bytes, Key(0)) ELSE Bytes
Decrypted ==
    IF IsEncrypted THEN DecryptData(Bytes, Key(Current.index)) ELSE Bytes
(* A mutant for KeylessDeliversNothing: the empty name has a key, too.     *)
ReadSectorKeyless ==
    /\ Reading /\ Current.size > 0 /\ ~IsBehindEnd
    /\ Current.size >= Current.uncompressed
    /\ Deliver(Decrypted)
ReadSector ==
    /\ Reading /\ Current.size > 0 /\ ~IsBehindEnd
    /\ IsEncrypted => known
    /\ IF Current.size >= Current.uncompressed THEN Deliver(Decrypted)
       ELSE \E result \in Decompressed(Decrypted, Current.uncompressed) :
                IF result.threw THEN Throw ELSE Deliver(result.cells)
Finish ==
    /\ pc = "reading" /\ next > Len(sectors)
    /\ pc' = "done"
    /\ UNCHANGED <<file, stored, lost, known, reader>>

NoFile ==
    [own |-> FALSE, path |-> "name", flags |-> {}, chain |-> <<>>, dataSize |-> 0,
     blockSize |-> 0, fileSize |-> 0, packed |-> 0]
Init ==
    /\ pc = "closed" /\ file = NoFile /\ stored = <<>> /\ lost = FALSE /\ known = TRUE
    /\ offsets = <<>> /\ sectors = <<>> /\ newOffset = 0 /\ remaining = 0
    /\ next = 1 /\ out = <<>>
Sectors == ListPlain \/ ListRest \/ ListFromTable \/ ListEnd
Decompress == ReadEmpty \/ ReadThrows \/ ReadSector \/ Finish
Next ==
    \/ AddFile \/ Author \/ Lose
    \/ OpenWithoutPath \/ OpenPlain \/ OpenSingleUnit \/ OpenTable
    \/ Sectors \/ Decompress
Spec == Init /\ [][Next]_vars

-----------------------------------------------------------------------------
(* The sectors File::sectors() lists for a file without a table have their *)
(* number for the key, lie one behind the other from the block offset on   *)
(* and end where the file does.                                            *)
IsNext(i) ==
    /\ sectors[i].index = i - 1
    /\ sectors[i].size = sectors[i].uncompressed /\ sectors[i].size \in 1..SectorSize
    /\ sectors[i].offset = IF i = 1 THEN 0 ELSE sectors[i - 1].offset + sectors[i - 1].size
End == IF sectors = <<>> THEN 0 ELSE Last(sectors).offset + Last(sectors).size
SectorsCover ==
    (IsPlain /\ file.blockSize = file.fileSize) =>
        /\ \A i \in DOMAIN sectors : IsNext(i)
        /\ pc \in {"reading", "done", "threw"} => End = file.fileSize

(* What other programs wrote and this one can read: at most one algorithm, *)
(* which is not to implode, and an encrypted file that is not compressed   *)
(* in sectors.                                                             *)
Original == Data(1, file.dataSize)
ReadableByOthers ==
    /\ ~file.own /\ known
    /\ "IsImploded" \notin file.flags /\ Len(file.chain) <= 1
    /\ (IsPlain /\ IsEncrypted /\ "IsSingleUnit" \in file.flags)
          => file.dataSize < SectorSize + Word

(* A stream that is filled sector by sector holds the beginning of the     *)
(* data at every moment, also when the archive lost its end.  decompress() *)
(* returns with the whole data or throws, and throws only for an archive   *)
(* that lost its end.                                                      *)
AuthoredIsRead ==
    ReadableByOthers =>
        /\ Len(out) <= file.dataSize /\ out = Data(1, Len(out))
        /\ pc = "done" => out = Original
        /\ pc = "threw" => lost

(* What addFile() writes and decompress() reads back.  Not compressed: of  *)
(* any size, when encrypted up to a sector.  Compressed: as a single unit  *)
(* that got smaller by two bytes, with one algorithm.  Encrypted: without  *)
(* a directory or an adjusted key, and only if the byte too much does not  *)
(* fill a word.                                                            *)
SameKey == file.path = "name" /\ "UsesEncryptionKey" \notin file.flags
WrittenWell ==
    /\ file.own /\ known /\ ~lost
    /\ IsEncrypted => SameKey
    /\ \/ /\ IsPlain /\ file.chain = <<>>
          /\ IsEncrypted => file.dataSize < SectorSize + Word
       \/ /\ IsPlain /\ file.chain # <<>> /\ ~IsEncrypted
          /\ (file.dataSize + 1) % SectorSize # 0
       \/ /\ ~IsPlain /\ "IsSingleUnit" \in file.flags
          /\ Len(file.chain) = 1 /\ file.packed + 1 < file.dataSize /\ file.packed > 0
          /\ IsEncrypted => (file.packed + 2) % Word # 0

(* A file addFile() has written is read back.                              *)
OwnReadsBack ==
    WrittenWell => pc # "threw" /\ (pc = "done" => out = Original)

(* Without its path nothing of an encrypted file gets out, be it right or  *)
(* wrong.                                                                  *)
KeylessDeliversNothing == (IsEncrypted /\ ~known) => out = <<>>
=============================================================================
