----------------------------- MODULE MpqTables -----------------------------
(***************************************************************************)
(* The tables an opened mpq::Archive keeps in memory: the block table (a   *)
(* ptr_vector<Block>), the hash table (a ptr_unordered_multimap from       *)
(* HashData to Hash) and the File handles its clients hold.                *)
(*                                                                         *)
(* Positions are 1-based here: blocks[p] is m_blocks[p - 1].  A Hash       *)
(* object is named by its slot, a File handle by the slot of the Hash it   *)
(* points to.  A key stands for one HashData value, so two paths whose     *)
(* hashes coincide are one key; NullKey is the HashData() of a slot that   *)
(* was never used.                                                         *)
(*                                                                         *)
(* The multimap keeps the hashes of equal keys in one group: find(k)       *)
(* returns the first of k's group, head[k] here, and insert(k, n) links n  *)
(* behind it.  When the first is erased another one follows, which one is  *)
(* left open here; and so is the order of the groups among each other,     *)
(* which depends on hash values, wherever the code iterates over all       *)
(* hashes.                                                                 *)
(***************************************************************************)
EXTENDS Integers, Sequences, FiniteSets, FiniteSetsExt

CONSTANTS
    Keys,          (* HashData values of the paths clients use            *)
    NullKey,       (* HashData(0, 0, 0, 0)                                *)
    ErasedKey,     (* HashData other programs leave in free hash entries  *)
    Clients,       (* holders of one File object each                     *)
    Layouts,       (* what writing a file leaves in its block table entry *)
    Images,        (* what open() finds in an archive file                *)
    Failures,      (* what may throw, see FailingCalls                    *)
    TableSizes,    (* numbers of entries create() is called with          *)
    MaxEntries,    (* bound on the length of the two tables               *)
    MaxData,       (* bound on the space used behind the hash table       *)
    SizeModulus    (* 2^64, the width of m_size                           *)

AllKeys == Keys \union {NullKey, ErasedKey}
Flags == {"None", "Set"}
HeaderSize == 32
EntrySize == 16
NoBlock == 0
NoSlot == 0
NoFile == [state |-> "invalid", slot |-> NoSlot]

Block == [index : Nat, offset : Nat, blockSize : Nat, fileSize : Nat, flags : Flags]
Hash == [key : AllKeys, block : Nat, deleted : BOOLEAN]
Handle == [state : {"invalid", "live", "dangling"}, slot : Nat]
Layout == [blockSize : Nat, fileSize : Nat, flags : Flags]
Image == [blocks : Seq(Block), hashes : Seq(Hash), bto : Nat, hto : Nat, size : Nat]

(***************************************************************************)
(* create() throws for Format::Mpq2 and when a write fails; addFile() when *)
(* it cannot write the sectors of the file, one of the two tables, or the  *)
(* header.                                                                 *)
(***************************************************************************)
FailingCalls == {"create", "data", "tables", "header"}

ASSUME KeysAssumption == NullKey \notin Keys /\ ErasedKey \notin Keys

ASSUME LayoutsAssumption == Layouts \subseteq Layout

(* Block::read() takes the index from the position of the entry, and       *)
(* Hash::read() a block only for entries that are neither free nor deleted.*)
ASSUME ImagesAssumption ==
    /\ Images \subseteq Image
    /\ \A im \in Images :
         /\ \A p \in DOMAIN im.blocks : im.blocks[p].index = p - 1
         /\ \A s \in DOMAIN im.hashes :
              /\ im.hashes[s].block \in {NoBlock} \union DOMAIN im.blocks
              /\ im.hashes[s].deleted => im.hashes[s].block = NoBlock

ASSUME BoundsAssumption ==
    /\ Failures \subseteq FailingCalls
    /\ TableSizes \subseteq Nat
    /\ MaxEntries \in Nat
    /\ MaxData \in Nat
    /\ SizeModulus \in Nat \ {0}

VARIABLES
    isOpen,  (* m_isOpen                                                   *)
    blocks,  (* m_blocks                                                   *)
    hashes,  (* the Hash objects of m_hashes, by slot                      *)
    head,    (* the first Hash of each group of m_hashes, NoSlot if none   *)
    bto,     (* m_blockTableOffset                                         *)
    hto,     (* m_hashTableOffset                                          *)
    size,    (* m_size                                                     *)
    held     (* the File each client holds                                 *)

tables == <<isOpen, blocks, hashes, head, bto, hto, size>>
vars == <<isOpen, blocks, hashes, head, bto, hto, size, held>>

-----------------------------------------------------------------------------
(* Block and Hash states.                                                  *)

Empty(b) == b.offset > 0 /\ b.blockSize > 0 /\ b.fileSize = 0 /\ b.flags = "None"
(* A mutant for NoSharedBlock: blocks without flags count as unused.       *)
UnusedWithoutFlags(b) == b.flags = "None"
Unused(b) == b.blockSize = 0 /\ b.fileSize = 0 /\ b.flags = "None"
(* A mutant for NoLostBlock: the blocks of removed files are not reused.   *)
FreeIfNeverUsed(b) == Unused(b)
FreeBlock(b) == Empty(b) \/ Unused(b)

EmptyHash(h) == ~h.deleted /\ h.block = NoBlock
FreeHash(h) == EmptyHash(h) \/ h.deleted

NewBlock(i) == [index |-> i, offset |-> 0, blockSize |-> 0, fileSize |-> 0, flags |-> "None"]
NewHash == [key |-> NullKey, block |-> NoBlock, deleted |-> FALSE]

Least(S) == CHOOSE x \in S : \A y \in S : x <= y

(* firstFreeBlock(): the free block of least position.                     *)
FreeBlocks == {p \in DOMAIN blocks : FreeBlock(blocks[p])}
(* A mutant for ImplementsFiles: the search takes the first block.         *)
FirstBlock == Least(DOMAIN blocks)
FirstFreeBlock == Least(FreeBlocks)

(* firstFreeHash(): the keys of the hashes it may return.                  *)
FreeKeys == {hashes[s].key : s \in {t \in DOMAIN hashes : FreeHash(hashes[t])}}

(* lastOffsetBlock(): the first block among those of greatest offset.      *)
OffsetBlocks == {p \in DOMAIN blocks : blocks[p].offset > 0}
(* A mutant for NoOverlap: the comparison of the search turned around.     *)
FirstOffsetBlock == CHOOSE p \in OffsetBlocks : \A q \in OffsetBlocks : blocks[p].offset <= blocks[q].offset
LastOffsetBlock ==
    CHOOSE p \in OffsetBlocks :
        \A q \in OffsetBlocks \ {p} : \/ blocks[q].offset < blocks[p].offset
                                      \/ blocks[q].offset = blocks[p].offset /\ p < q

(* A mutant for TablesApart: the hash table counts as having no length.    *)
TablesStart == hto
TablesEnd == hto + Len(hashes) * EntrySize
NextBlockOffset ==
    IF OffsetBlocks = {}
    THEN TablesEnd
    ELSE blocks[LastOffsetBlock].offset + blocks[LastOffsetBlock].blockSize

-----------------------------------------------------------------------------
(* The multimap.                                                           *)

Group(hs, k) == {s \in DOMAIN hs : hs[s].key = k}

(* The hashes hs are inserted one after the other into an empty multimap.  *)
InsertedInOrder(hs) ==
    [k \in AllKeys |-> IF Group(hs, k) = {} THEN NoSlot ELSE Least(Group(hs, k))]

(* A mutant for OnlyHeadsFree and HandlesLead: insert() before the group.  *)
MovedToFront(old, k, s, hd) ==
    \E next \in IF Group(hashes, old) = {s} THEN {NoSlot} ELSE Group(hashes, old) \ {s} :
        hd = [head EXCEPT ![old] = next, ![k] = s]

(* hd is the multimap after the first entry s of the group of old was      *)
(* erased and inserted under k.                                            *)
Moved(old, k, s, hd) ==
    \E next \in IF Group(hashes, old) = {s} THEN {NoSlot} ELSE Group(hashes, old) \ {s} :
        LET unlinked == [head EXCEPT ![old] = next]
        IN  hd = IF unlinked[k] = NoSlot THEN [unlinked EXCEPT ![k] = s] ELSE unlinked

(* findFile(): a deleted or empty hash gives an invalid File.              *)
FindFile(hs, hd, k) ==
    IF hd[k] = NoSlot \/ FreeHash(hs[hd[k]]) THEN NoFile ELSE [state |-> "live", slot |-> hd[k]]

(* Mutants for TypeOK: no File learns of a destroyed Hash, and for         *)
(* FilesKept: every Hash is destroyed.                                     *)
DangleNone(fs, slots) == fs
DangleAll(fs, slots) ==
    [c \in Clients |-> IF fs[c].state = "live" THEN [fs[c] EXCEPT !.state = "dangling"] ELSE fs[c]]

(* Files that point to a destroyed Hash.                                   *)
Dangle(fs, slots) ==
    [c \in Clients |-> IF fs[c].state = "live" /\ fs[c].slot \in slots
                       THEN [fs[c] EXCEPT !.state = "dangling"] ELSE fs[c]]

EmptyHead == [k \in AllKeys |-> NoSlot]

-----------------------------------------------------------------------------
Init ==
    /\ isOpen = FALSE
    /\ blocks = <<>>
    /\ hashes = <<>>
    /\ head = EmptyHead
    /\ bto = 0
    /\ hto = 0
    /\ size = 0
    /\ held = [c \in Clients |-> NoFile]

(* clear()                                                                 *)
Clear ==
    /\ isOpen' = FALSE
    /\ blocks' = <<>>
    /\ hashes' = <<>>
    /\ head' = EmptyHead
    /\ bto' = 0
    /\ hto' = 0
    /\ size' = 0
    /\ held' = Dangle(held, DOMAIN hashes)

(* close(): only an open archive is cleared.  This is also what create()   *)
(* and open() do before they throw for a path they cannot open.            *)
Close == isOpen /\ Clear

(* The loops of create() push b blocks and b hashes behind what close()    *)
(* left; then the two tables are laid out behind the header.               *)
AppendEntries(b) ==
    LET keptBlocks == IF isOpen THEN <<>> ELSE blocks
        keptHashes == IF isOpen THEN <<>> ELSE hashes
        keptHead == IF isOpen THEN EmptyHead ELSE head
    IN  /\ Len(keptHashes) + b <= MaxEntries
        /\ blocks' = keptBlocks \o [i \in 1..b |-> NewBlock(i - 1)]
        /\ hashes' = keptHashes \o [i \in 1..b |-> NewHash]
        /\ head' = IF b > 0 /\ keptHead[NullKey] = NoSlot
                   THEN [keptHead EXCEPT ![NullKey] = Len(keptHashes) + 1]
                   ELSE keptHead
        /\ bto' = HeaderSize
        /\ held' = IF isOpen THEN Dangle(held, DOMAIN hashes) ELSE held

CreatedHto(n) == HeaderSize + n * EntrySize
(* A mutant for SizeAdds: the hash table is forgotten.                     *)
CreatedSizeOneTable(n) == (HeaderSize + n * EntrySize) % SizeModulus
CreatedSize(n) == (HeaderSize + 2 * n * EntrySize) % SizeModulus

(* create(path, h, b): the number of hashes asked for is not used.         *)
Create(h, b) ==
    /\ AppendEntries(b)
    /\ hto' = CreatedHto(Len(blocks'))
    /\ size' = CreatedSize(Len(blocks'))
    /\ isOpen' = TRUE

(* create() throws with the entries already pushed: on writing the block   *)
(* table, for Format::Mpq2 always on writing the extended block table, on  *)
(* writing the hash table, or on writing the header.                       *)
CreateThrows(h, b) ==
    /\ "create" \in Failures
    /\ AppendEntries(b)
    /\ \/ hto' = (IF isOpen THEN 0 ELSE hto) /\ size' = (IF isOpen THEN 0 ELSE size)
       \/ hto' = CreatedHto(Len(blocks')) /\ size' = (IF isOpen THEN 0 ELSE size)
       \/ hto' = CreatedHto(Len(blocks')) /\ size' = CreatedSize(Len(blocks'))
    /\ isOpen' = FALSE

(* open() of a readable archive: the tables read are swapped in.           *)
Open(im) ==
    /\ isOpen' = TRUE
    /\ blocks' = im.blocks
    /\ hashes' = im.hashes
    /\ head' = InsertedInOrder(im.hashes)
    /\ bto' = im.bto
    /\ hto' = im.hto
    /\ size' = im.size % SizeModulus
    /\ held' = Dangle(held, DOMAIN hashes)

(* open() of a file that is no archive: read() throws and open() clears.   *)
OpenThrows == Clear

(* addFile() up to the insertion of the new hash.  "old" is the key of the *)
(* first free hash: the entry find(old) returns is erased, and a copy of   *)
(* it is inserted under k.                                                 *)
InsertFile(old, k, l) ==
    LET p == FirstFreeBlock
        s == head[old]
    IN  /\ blocks' = [blocks EXCEPT ![p] =
                        [@ EXCEPT !.offset = NextBlockOffset,
                                  !.flags = l.flags,
                                  !.blockSize = l.blockSize,
                                  !.fileSize = l.fileSize]]
        /\ hashes' = [hashes EXCEPT ![s] = [key |-> k, block |-> p, deleted |-> FALSE]]
        /\ Moved(old, k, s, head')

(* toHashTableEntry() dereferences the null block of a deleted entry: the  *)
(* hash table can be written only if it holds none.                        *)
Writable(hs) == \A s \in DOMAIN hs : ~hs[s].deleted

(* The process ends; the next one starts over.                             *)
Crash ==
    /\ isOpen' = FALSE
    /\ blocks' = <<>>
    /\ hashes' = <<>>
    /\ head' = EmptyHead
    /\ bto' = 0
    /\ hto' = 0
    /\ size' = 0
    /\ held' = [c \in Clients |-> NoFile]

(* addFile() does not ask whether the archive is open.                     *)
CanAdd(l) ==
    /\ FreeKeys # {}
    /\ FreeBlocks # {}
    /\ NextBlockOffset + l.blockSize <= TablesEnd + MaxData

(* addFile(): the client gets what findFile() finds under the path.        *)
Add(c, k, l) ==
    /\ CanAdd(l)
    /\ \E old \in FreeKeys :
         /\ InsertFile(old, k, l)
         /\ held' = [Dangle(held, {head[old]}) EXCEPT ![c] = FindFile(hashes', head', k)]
    /\ Writable(hashes')
    /\ size' = (size + l.blockSize) % SizeModulus
    /\ UNCHANGED <<isOpen, bto, hto>>

AddCrashes(k, l) ==
    /\ CanAdd(l)
    /\ \E old \in FreeKeys :
         \E s \in DOMAIN hashes : s # head[old] /\ hashes[s].deleted
    /\ Crash

(* The sectors cannot be written: the block keeps its new offset and flags.*)
AddDataThrows(l) ==
    /\ CanAdd(l)
    /\ "data" \in Failures
    /\ blocks' = [blocks EXCEPT ![FirstFreeBlock] =
                    [@ EXCEPT !.offset = NextBlockOffset, !.flags = l.flags]]
    /\ UNCHANGED <<isOpen, hashes, head, bto, hto, size, held>>

(* A table or, with m_size already increased, the header cannot be written:*)
(* the file is in the tables, but the client gets no File.                 *)
AddThrows(k, l) ==
    /\ CanAdd(l)
    /\ \E old \in FreeKeys :
         /\ InsertFile(old, k, l)
         /\ held' = Dangle(held, {head[old]})
    /\ \/ "tables" \in Failures /\ UNCHANGED size
       \/ "header" \in Failures /\ Writable(hashes') /\ size' = (size + l.blockSize) % SizeModulus
    /\ UNCHANGED <<isOpen, bto, hto>>

(* TooSmallHashTableException and TooSmallBlockTableException are thrown   *)
(* before anything changes.                                                *)
AddTooSmall ==
    /\ FreeKeys = {} \/ FreeBlocks = {}
    /\ UNCHANGED vars

(* removeFile() of a valid File.  The outcome is the same when a write     *)
(* throws: the entries and m_size are changed before the first one.        *)
RemoveEntry(c) ==
    LET s == held[c].slot
        p == hashes[s].block
    IN  /\ held[c].state = "live"
        /\ p # NoBlock
        /\ blocks[p].index = p - 1
        /\ Writable(hashes)
        /\ size' = (size - blocks[p].blockSize) % SizeModulus
        /\ blocks' = [blocks EXCEPT ![p] = [@ EXCEPT !.fileSize = 0, !.flags = "None"]]
        /\ hashes' = [hashes EXCEPT ![s] = [key |-> @.key, block |-> NoBlock, deleted |-> FALSE]]
        /\ UNCHANGED <<isOpen, head, bto, hto, held>>

(* removeFile() returns false: the block is not the one at its index.      *)
RemoveRefused(c) ==
    /\ held[c].state = "live"
    /\ LET p == hashes[held[c].slot].block IN p # NoBlock /\ blocks[p].index # p - 1
    /\ UNCHANGED vars

(* removeFile() of a File whose Hash has no block any more, or with a      *)
(* deleted entry to write, dereferences a null pointer.                    *)
RemoveCrashes(c) ==
    /\ held[c].state = "live"
    /\ hashes[held[c].slot].block = NoBlock \/ ~Writable(hashes)
    /\ Crash

Find(c, k) ==
    /\ held' = [held EXCEPT ![c] = FindFile(hashes, head, k)]
    /\ UNCHANGED tables

(* File::close()                                                           *)
CloseFile(c) ==
    /\ held' = [held EXCEPT ![c] = NoFile]
    /\ UNCHANGED tables

(* The calls after which the archive shows other files than before.       *)
Restart ==
    \/ \E h, b \in TableSizes : Create(h, b)
    \/ \E im \in Images : Open(im)

(* The calls and crashes after which it shows none.                        *)
Stop ==
    \/ \E h, b \in TableSizes : CreateThrows(h, b)
    \/ OpenThrows
    \/ Close
    \/ \E k \in Keys, l \in Layouts : AddCrashes(k, l)
    \/ \E c \in Clients : RemoveCrashes(c)

(* The calls on its files.                                                 *)
Call ==
    \/ \E c \in Clients, k \in Keys, l \in Layouts : Add(c, k, l)
    \/ \E k \in Keys, l \in Layouts : AddThrows(k, l)
    \/ \E l \in Layouts : AddDataThrows(l)
    \/ AddTooSmall
    \/ \E c \in Clients : RemoveEntry(c) \/ RemoveRefused(c)
    \/ \E c \in Clients, k \in Keys : Find(c, k)
    \/ \E c \in Clients : CloseFile(c)

Next == Restart \/ Stop \/ Call

Spec == Init /\ [][Next]_vars

-----------------------------------------------------------------------------
(* Properties.                                                             *)

UsedSlots == {s \in DOMAIN hashes : ~FreeHash(hashes[s])}
TakenBlocks == {p \in DOMAIN blocks : ~FreeBlock(blocks[p])}

(* What is assumed of the archives other programs wrote: a free entry does *)
(* not carry the key of a path, and every other entry has a path and a     *)
(* block of its own.                                                       *)
ImagesHoldFiles ==
    \A im \in Images :
        /\ \A s \in DOMAIN im.hashes :
             IF FreeHash(im.hashes[s])
             THEN im.hashes[s].key \notin Keys
             ELSE im.hashes[s].key \in Keys /\ ~FreeBlock(im.blocks[im.hashes[s].block])
        /\ \A s, t \in DOMAIN im.hashes :
             ~FreeHash(im.hashes[s]) /\ im.hashes[t].block = im.hashes[s].block => s = t

(* What is assumed of the files clients add: they are not empty.           *)
FilesNotEmpty ==
    \A l \in Layouts : l.blockSize > 0 /\ (l.fileSize > 0 \/ l.flags # "None")

(* What is assumed of the archives besides, where the space is concerned:  *)
(* no block is taken by nobody; blocks with an offset have data, and the   *)
(* data of two blocks does not overlap, wherever the tables are; the size  *)
(* in the header is the one addFile() would have counted.                  *)
BlockSum(bs, T) ==
    LET sizes == [p \in DOMAIN bs |-> bs[p].blockSize]
    IN  MapThenSumSet(LAMBDA p : sizes[p], T)
DataHasOffset(bs) == \A p \in DOMAIN bs : bs[p].blockSize > 0 => bs[p].offset > 0
ImagesOwnBlocks ==
    \A im \in Images :
        /\ DataHasOffset(im.blocks)
        /\ \A p \in DOMAIN im.blocks :
             ~FreeBlock(im.blocks[p])
                => \E s \in DOMAIN im.hashes : /\ ~FreeHash(im.hashes[s])
                                              /\ im.hashes[s].block = p
Apart(from1, len1, from2, len2) ==
    len1 = 0 \/ len2 = 0 \/ from1 + len1 <= from2 \/ from2 + len2 <= from1
DataApart(bs) ==
    \A p \in DOMAIN bs :
        /\ bs[p].offset > 0 => bs[p].blockSize > 0
        /\ \A q \in DOMAIN bs \ {p} :
             Apart(bs[p].offset, bs[p].blockSize, bs[q].offset, bs[q].blockSize)
ImagesDataApart == \A im \in Images : DataHasOffset(im.blocks) /\ DataApart(im.blocks)
TablesSize(bs, hs) == HeaderSize + (Len(bs) + Len(hs)) * EntrySize
ImagesSizeAdds ==
    \A im \in Images :
        /\ DataHasOffset(im.blocks)
        /\ im.size = TablesSize(im.blocks, im.hashes)
                       + BlockSum(im.blocks, {p \in DOMAIN im.blocks : ~FreeBlock(im.blocks[p])})

TypeOK ==
    /\ isOpen \in BOOLEAN
    /\ blocks \in Seq(Block)
    /\ hashes \in Seq(Hash)
    /\ head \in [AllKeys -> {NoSlot} \union DOMAIN hashes]
    /\ bto \in Nat /\ hto \in Nat
    /\ size \in 0..(SizeModulus - 1)
    /\ held \in [Clients -> Handle]
    /\ \A s \in DOMAIN hashes :
         /\ hashes[s].block \in {NoBlock} \union DOMAIN blocks
         /\ hashes[s].deleted => hashes[s].block = NoBlock
    /\ \A c \in Clients : held[c].state = "live" => held[c].slot \in DOMAIN hashes

(* find() returns a Hash that itself stores the key, and one for every key *)
(* some Hash stores: what addFile() relies on when it looks an entry up by *)
(* hash->hashData() to erase and reinsert it.                              *)
HeadsLeadGroups ==
    \A k \in AllKeys :
        IF Group(hashes, k) = {} THEN head[k] = NoSlot ELSE head[k] \in Group(hashes, k)

(* Of the hashes with one path only the one find() returns can be free,    *)
(* and all hashes without a path are.  firstFreeHash() may return any free *)
(* hash, addFile() then replaces the first of its group: this is why it    *)
(* never replaces a file's entry.                                          *)
OnlyHeadsFree ==
    \A s \in DOMAIN hashes :
        IF hashes[s].key \in Keys
        THEN FreeHash(hashes[s]) => head[hashes[s].key] = s
        ELSE FreeHash(hashes[s])

(* The Hash of a valid File is the first of its group, so that removeFile()*)
(* frees no other.                                                         *)
HandlesLead ==
    \A c \in Clients :
        held[c].state = "live" => head[hashes[held[c].slot].key] = held[c].slot

(* The hash and block entries of a file and the valid Files handed out for *)
(* it change only by removeFile() of that very file: neither a successful  *)
(* nor a failing addFile(), nor removeFile() of another one, touches them. *)
FileKept(s) ==
    /\ s \in DOMAIN hashes'
    /\ hashes'[s] = hashes[s]
    /\ blocks'[hashes[s].block] = blocks[hashes[s].block]
    /\ \A d \in Clients :
         held[d] = [state |-> "live", slot |-> s] => held'[d].state # "dangling"
FilesKept ==
    [][\/ \A s \in UsedSlots :
             FileKept(s) \/ \E c \in Clients : held[c].slot = s /\ RemoveEntry(c)
       \/ ~Call]_vars

(* Two files never share a block: removeFile() of one would free the data  *)
(* of the other.                                                           *)
NoSharedBlock ==
    /\ \A s \in UsedSlots : hashes[s].block \in TakenBlocks
    /\ \A s, t \in UsedSlots : hashes[s].block = hashes[t].block => s = t

(* Every block that is not free belongs to a file: adding and removing     *)
(* never loses a block entry.                                              *)
NoLostBlock == \A p \in TakenBlocks : \E s \in UsedSlots : hashes[s].block = p

(* The data of two blocks never overlaps, wherever the tables are; the data*)
(* of a removed file counts, since its space is not given back.            *)
NoOverlap ==
    \A p \in DOMAIN blocks : \A q \in DOMAIN blocks \ {p} :
        Apart(blocks[p].offset, blocks[p].blockSize, blocks[q].offset, blocks[q].blockSize)

(* The data of a block never overlaps a table, so that no write of a table *)
(* destroys it.  True of the archives of create(), whose tables are in     *)
(* front of the data; not of those that have them behind it.               *)
TablesApart ==
    \A p \in DOMAIN blocks :
        /\ Apart(blocks[p].offset, blocks[p].blockSize, bto, Len(blocks) * EntrySize)
        /\ Apart(blocks[p].offset, blocks[p].blockSize, hto, Len(hashes) * EntrySize)

(* size() of an archive: header, tables and the data of its files.         *)
SizeAdds ==
    isOpen => size = (TablesSize(blocks, hashes) + BlockSum(blocks, TakenBlocks)) % SizeModulus
=============================================================================
