-------------------------- MODULE MpqTablesProofs --------------------------
(***************************************************************************)
(* Proofs about MpqTables and MpqArchive.  First the types, the order      *)
(* inside the groups of the multimap, the blocks files own, where their    *)
(* data lies, and that no call touches another file.  Then the tables      *)
(* implement the map from paths to files, for clients that keep to one     *)
(* entry per path.  Last the file on the disk: what it shows of the        *)
(* tables, what an open() after a kill finds, and that memory and file     *)
(* together implement the map as well.                                     *)
(***************************************************************************)
EXTENDS MpqArchiveRefines, FoldLemmas, SequenceTheorems

-----------------------------------------------------------------------------
(* Facts about the operators of the model.                                 *)

(* A nonempty set of numbers has a least element, and Least picks it.      *)
LEMMA LeastOfNats ==
    ASSUME NEW S \in SUBSET Nat, S # {}
    PROVE  Least(S) \in S /\ \A y \in S : Least(S) <= y
<1> DEFINE R == OpToRel(<, Nat)
<1>1. \A x, y \in Nat : y < x => <<y, x>> \in R
  BY DEF OpToRel
<1>2. IsWellFoundedOn(R, Nat)
  BY NatLessThanWellFounded
<1> HIDE DEF R
<1>3. PICK x \in S : \A y \in S : ~ (<<y, x>> \in R)
  BY <1>2, WFMin
<1>4. ASSUME NEW y \in S
      PROVE  x <= y
  <2>1. x \in Nat /\ y \in Nat
    OBVIOUS
  <2>2. ~ (y < x)
    BY <1>1, <1>3, <2>1
  <2> QED
    BY <2>1, <2>2
<1> QED
  BY <1>4 DEF Least

(* A new sequence of n entries appended to another.                        *)
LEMMA AppendNew ==
    ASSUME NEW S, NEW q \in Seq(S), NEW n \in Nat, NEW f \in [1..n -> S]
    PROVE  /\ q \o f \in Seq(S)
           /\ Len(q \o f) = Len(q) + n
           /\ DOMAIN (q \o f) = 1..(Len(q) + n)
           /\ \A i \in 1..(Len(q) + n) :
                (q \o f)[i] = IF i <= Len(q) THEN q[i] ELSE f[i - Len(q)]
<1>1. f \in Seq(S) /\ Len(f) = n
  BY SeqDef
<1>2. /\ q \o f \in Seq(S)
      /\ Len(q \o f) = Len(q) + n
      /\ \A i \in 1..(Len(q) + n) :
            (q \o f)[i] = IF i <= Len(q) THEN q[i] ELSE f[i - Len(q)]
  BY <1>1, ConcatProperties
<1> QED
  BY <1>2, LenProperties

(* Of finitely many offsets there is a greatest that comes first.          *)
LEMMA FirstGreatest ==
    ASSUME NEW n \in Nat, NEW T \in SUBSET (1..n), T # {}, NEW f \in [T -> Nat]
    PROVE  \E p \in T : \A q \in T \ {p} : f[q] < f[p] \/ (f[q] = f[p] /\ p < q)
<1> DEFINE Above(p) == {q \in T : f[q] > f[p] \/ (f[q] = f[p] /\ q < p)}
           Counts == {Cardinality(Above(p)) : p \in T}
<1>1. IsFiniteSet(T)
  <2>1. IsFiniteSet(1..n)
    BY FS_Interval
  <2> QED
    BY <2>1, FS_Subset
<1>2. \A p \in T : IsFiniteSet(Above(p)) /\ Cardinality(Above(p)) \in Nat
  BY <1>1, FS_Subset, FS_CardinalityType
<1>3. Counts \in SUBSET Nat /\ Counts # {}
  BY <1>2
<1>4. PICK p \in T : \A q \in T : Cardinality(Above(p)) <= Cardinality(Above(q))
  <2> HIDE DEF Above
  <2>1. Least(Counts) \in Counts /\ \A y \in Counts : Least(Counts) <= y
    BY <1>3, LeastOfNats
  <2> QED
    BY <2>1
<1>5. ASSUME NEW q \in Above(p)
      PROVE  FALSE
  <2> q \in T /\ f[q] \in Nat /\ f[p] \in Nat /\ q \in Nat /\ p \in Nat
    OBVIOUS
  <2>1. Above(q) \subseteq Above(p) /\ q \in Above(p) /\ q \notin Above(q) /\ q \in T
    <3>1. ASSUME NEW r \in Above(q) PROVE r \in Above(p)
      <4> r \in T /\ f[r] \in Nat /\ r \in Nat
        OBVIOUS
      <4> QED
        OBVIOUS
    <3>2. q \notin Above(q)
      OBVIOUS
    <3> HIDE DEF Above
    <3> QED
      BY <3>1, <3>2
  <2>2. /\ Cardinality(Above(q)) <= Cardinality(Above(p))
        /\ Cardinality(Above(q)) = Cardinality(Above(p)) => Above(q) = Above(p)
    BY <1>2, <2>1, FS_Subset
  <2>3. Cardinality(Above(p)) <= Cardinality(Above(q))
    BY <1>4, <2>1
  <2>4. Cardinality(Above(p)) \in Nat /\ Cardinality(Above(q)) \in Nat
    BY <1>2, <2>1
  <2> QED
    BY <2>1, <2>2, <2>3, <2>4
<1>6. ASSUME NEW q \in T \ {p}
      PROVE  f[q] < f[p] \/ (f[q] = f[p] /\ p < q)
  <2>1. q \notin Above(p)
    BY <1>5
  <2> QED
    BY <2>1
<1> QED
  BY <1>6

-----------------------------------------------------------------------------
(* What the operations select.                                             *)

IInv == TypeOK /\ HeadsLeadGroups /\ OnlyHeadsFree /\ NoSharedBlock /\ HandlesLead

(* The block addFile() takes is a free one.                                *)
LEMMA FirstFreeBlockIsFree ==
    ASSUME TypeOK, FreeBlocks # {}
    PROVE  FirstFreeBlock \in FreeBlocks /\ FirstFreeBlock \in DOMAIN blocks
<1>1. FreeBlocks \in SUBSET Nat
  BY LenProperties DEF FreeBlocks, TypeOK
<1> QED
  BY <1>1, LeastOfNats DEF FirstFreeBlock, FreeBlocks

(* There is a last block if one has an offset.                             *)
LEMMA LastOffsetBlockIsLast ==
    ASSUME TypeOK, OffsetBlocks # {}
    PROVE  /\ LastOffsetBlock \in OffsetBlocks
           /\ \A q \in OffsetBlocks \ {LastOffsetBlock} :
                \/ blocks[q].offset < blocks[LastOffsetBlock].offset
                \/ blocks[q].offset = blocks[LastOffsetBlock].offset /\ LastOffsetBlock < q
<1> DEFINE f == [p \in OffsetBlocks |-> blocks[p].offset]
<1>1. blocks \in Seq(Block)
  BY DEF TypeOK
<1>2. Len(blocks) \in Nat /\ DOMAIN blocks = 1..Len(blocks)
  BY <1>1, LenProperties
<1>3. \A p \in DOMAIN blocks : blocks[p] \in Block
  BY <1>1, <1>2, ElementOfSeq
<1>4. OffsetBlocks \in SUBSET (1..Len(blocks))
  BY <1>2 DEF OffsetBlocks
<1>5. f \in [OffsetBlocks -> Nat]
  BY <1>3 DEF OffsetBlocks, Block
<1>6. \E p \in OffsetBlocks :
          \A q \in OffsetBlocks \ {p} : f[q] < f[p] \/ (f[q] = f[p] /\ p < q)
  <2> HIDE DEF f
  <2> QED
    BY <1>2, <1>4, <1>5, FirstGreatest
<1> QED
  BY <1>6 DEF LastOffsetBlock

(* The offset addFile() writes to is a number.                             *)
LEMMA NextBlockOffsetType ==
    ASSUME TypeOK
    PROVE  NextBlockOffset \in Nat
<1>1. blocks \in Seq(Block) /\ hashes \in Seq(Hash) /\ hto \in Nat
  BY DEF TypeOK
<1>2. Len(blocks) \in Nat /\ DOMAIN blocks = 1..Len(blocks) /\ Len(hashes) \in Nat
  BY <1>1, LenProperties
<1>3. \A p \in DOMAIN blocks : blocks[p] \in Block
  BY <1>1, <1>2, ElementOfSeq
<1>4. CASE OffsetBlocks = {}
  BY <1>1, <1>2, <1>4 DEF NextBlockOffset, TablesEnd, EntrySize
<1>5. CASE OffsetBlocks # {}
  <2>1. LastOffsetBlock \in OffsetBlocks
    BY <1>5, LastOffsetBlockIsLast
  <2>2. blocks[LastOffsetBlock] \in Block
    BY <1>3, <2>1 DEF OffsetBlocks
  <2> QED
    BY <1>5, <2>2 DEF NextBlockOffset, Block
<1> QED
  BY <1>4, <1>5

(* The entry addFile() replaces is free and stores the key it is found by. *)
LEMMA ReplacedEntryIsFree ==
    ASSUME TypeOK, HeadsLeadGroups, OnlyHeadsFree, NEW old \in FreeKeys
    PROVE  /\ old \in AllKeys
           /\ head[old] \in DOMAIN hashes
           /\ hashes[head[old]].key = old
           /\ FreeHash(hashes[head[old]])
<1>1. PICK t \in DOMAIN hashes : FreeHash(hashes[t]) /\ hashes[t].key = old
  BY DEF FreeKeys
<1>2. hashes[t] \in Hash
  BY LenProperties, ElementOfSeq DEF TypeOK
<1>3. old \in AllKeys
  BY <1>1, <1>2 DEF Hash
<1>4. head[old] \in Group(hashes, old)
  BY <1>1, <1>3 DEF HeadsLeadGroups, Group
<1>5. CASE old \in Keys
  BY <1>1, <1>3, <1>4, <1>5 DEF OnlyHeadsFree, Group
<1>6. CASE old \notin Keys
  BY <1>3, <1>4, <1>6 DEF OnlyHeadsFree, Group
<1> QED
  BY <1>5, <1>6

(* The tables after the insertion of a file.                               *)
LEMMA InsertShape ==
    ASSUME TypeOK, HeadsLeadGroups, OnlyHeadsFree, FreeBlocks # {},
           NEW k \in Keys, NEW l \in Layouts, NEW old \in FreeKeys, InsertFile(old, k, l)
    PROVE  /\ blocks' \in Seq(Block)
           /\ DOMAIN blocks' = DOMAIN blocks
           /\ blocks'[FirstFreeBlock].flags = l.flags
           /\ blocks'[FirstFreeBlock].blockSize = l.blockSize
           /\ blocks'[FirstFreeBlock].fileSize = l.fileSize
           /\ blocks'[FirstFreeBlock].offset = NextBlockOffset
           /\ \A q \in DOMAIN blocks : q # FirstFreeBlock => blocks'[q] = blocks[q]
           /\ hashes' \in Seq(Hash)
           /\ DOMAIN hashes' = DOMAIN hashes
           /\ hashes'[head[old]] = [key |-> k, block |-> FirstFreeBlock, deleted |-> FALSE]
           /\ \A t \in DOMAIN hashes : t # head[old] => hashes'[t] = hashes[t]
<1> DEFINE p == FirstFreeBlock
           s == head[old]
           b == [blocks[p] EXCEPT !.offset = NextBlockOffset, !.flags = l.flags,
                                  !.blockSize = l.blockSize, !.fileSize = l.fileSize]
           h == [key |-> k, block |-> p, deleted |-> FALSE]
<1>1. p \in 1..Len(blocks) /\ s \in 1..Len(hashes)
  BY FirstFreeBlockIsFree, ReplacedEntryIsFree, LenProperties DEF TypeOK
<1>2. b \in Block
  <2>1. blocks[p] \in Block
    BY <1>1, ElementOfSeq DEF TypeOK
  <2> QED
    BY <2>1, NextBlockOffsetType, LayoutsAssumption DEF Block, Layout
<1>3. h \in Hash
  BY <1>1, LenProperties DEF Hash, AllKeys, TypeOK
<1>4. blocks' = [blocks EXCEPT ![p] = b] /\ hashes' = [hashes EXCEPT ![s] = h]
  BY DEF InsertFile
<1>5. /\ b.flags = l.flags /\ b.blockSize = l.blockSize /\ b.fileSize = l.fileSize
      /\ b.offset = NextBlockOffset
  BY <1>1, ElementOfSeq DEF TypeOK, Block
<1> HIDE DEF b, h
<1>6. /\ blocks' \in Seq(Block)
      /\ Len(blocks') = Len(blocks)
      /\ \A j \in 1..Len(blocks) : blocks'[j] = IF j = p THEN b ELSE blocks[j]
  BY <1>1, <1>2, <1>4, ExceptSeq DEF TypeOK
<1>7. /\ hashes' \in Seq(Hash)
      /\ Len(hashes') = Len(hashes)
      /\ \A j \in 1..Len(hashes) : hashes'[j] = IF j = s THEN h ELSE hashes[j]
  BY <1>1, <1>3, <1>4, ExceptSeq DEF TypeOK
<1>8. /\ DOMAIN blocks = 1..Len(blocks) /\ DOMAIN blocks' = 1..Len(blocks)
      /\ DOMAIN hashes = 1..Len(hashes) /\ DOMAIN hashes' = 1..Len(hashes)
  BY <1>6, <1>7, LenProperties DEF TypeOK
<1> QED
  BY <1>1, <1>5, <1>6, <1>7, <1>8 DEF h

(* The groups of the multimap after the first entry of old's moved to k.   *)
LEMMA MovedShape ==
    ASSUME TypeOK, HeadsLeadGroups, OnlyHeadsFree,
           NEW k \in Keys, NEW old \in FreeKeys, Moved(old, k, head[old], head')
    PROVE  /\ head' \in [AllKeys -> {NoSlot} \union DOMAIN hashes]
           /\ \A j \in AllKeys \ {old, k} : head'[j] = head[j]
           /\ k # old => head'[k] = IF head[k] = NoSlot THEN head[old] ELSE head[k]
           /\ k # old => \/ head'[old] \in Group(hashes, old) \ {head[old]}
                         \/ Group(hashes, old) = {head[old]} /\ head'[old] = NoSlot
           /\ k = old => \/ head'[old] \in Group(hashes, old) \ {head[old]}
                         \/ Group(hashes, old) = {head[old]} /\ head'[old] = head[old]
<1> DEFINE G == Group(hashes, old)
           s == head[old]
<1>1. s \in G /\ s \in DOMAIN hashes /\ old \in AllKeys /\ k \in AllKeys
  BY ReplacedEntryIsFree DEF Group, AllKeys
<1>2. PICK next \in IF G = {s} THEN {NoSlot} ELSE G \ {s} :
        LET unlinked == [head EXCEPT ![old] = next]
        IN  head' = IF unlinked[k] = NoSlot THEN [unlinked EXCEPT ![k] = s] ELSE unlinked
  BY DEF Moved
<1>3. head \in [AllKeys -> {NoSlot} \union DOMAIN hashes] /\ NoSlot \notin DOMAIN hashes
  BY LenProperties DEF TypeOK, NoSlot
<1>4. G \subseteq DOMAIN hashes
  BY DEF Group
<1>5. next \in {NoSlot} \union DOMAIN hashes /\ (G # {s} => next \in G \ {s} /\ next # NoSlot)
  BY <1>2, <1>3, <1>4
<1> HIDE DEF G
<1>6. CASE G = {s}
  BY <1>1, <1>2, <1>3, <1>6 DEF G
<1>7. CASE G # {s}
  BY <1>1, <1>2, <1>3, <1>5, <1>7 DEF G
<1> QED
  BY <1>6, <1>7

(* A group whose first entry was not the one replaced keeps its first.     *)
LEMMA OtherHeadsStay ==
    ASSUME TypeOK, HeadsLeadGroups, OnlyHeadsFree,
           NEW k \in Keys, NEW old \in FreeKeys, Moved(old, k, head[old], head'),
           NEW t \in DOMAIN hashes, t # head[old], head[hashes[t].key] = t
    PROVE  head'[hashes[t].key] = t
<1>1. hashes[t].key \in AllKeys
  <2>1. hashes[t] \in Hash
    BY LenProperties, ElementOfSeq DEF TypeOK
  <2> QED
    BY <2>1 DEF Hash
<1>2. t # NoSlot
  BY LenProperties DEF TypeOK, NoSlot
<1>3. hashes[t].key # old
  OBVIOUS
<1> QED
  BY <1>1, <1>2, <1>3, MovedShape

(* Inserting a file keeps the invariant of the tables.                     *)
LEMMA InsertKeepsTables ==
    ASSUME IInv, FilesNotEmpty, FreeBlocks # {},
           NEW k \in Keys, NEW l \in Layouts, NEW old \in FreeKeys, InsertFile(old, k, l)
    PROVE  HeadsLeadGroups' /\ OnlyHeadsFree' /\ NoSharedBlock'
<1> DEFINE p == FirstFreeBlock
           s == head[old]
<1> TypeOK /\ HeadsLeadGroups /\ OnlyHeadsFree /\ NoSharedBlock
  BY DEF IInv
<1>1. /\ DOMAIN blocks' = DOMAIN blocks
      /\ blocks'[p].flags = l.flags
      /\ blocks'[p].blockSize = l.blockSize
      /\ blocks'[p].fileSize = l.fileSize
      /\ \A q \in DOMAIN blocks : q # p => blocks'[q] = blocks[q]
      /\ DOMAIN hashes' = DOMAIN hashes
      /\ hashes'[s] = [key |-> k, block |-> p, deleted |-> FALSE]
      /\ \A t \in DOMAIN hashes : t # s => hashes'[t] = hashes[t]
  BY InsertShape
<1>2. /\ p \in FreeBlocks /\ p \in DOMAIN blocks /\ p # NoBlock
      /\ s \in DOMAIN hashes /\ hashes[s].key = old /\ FreeHash(hashes[s]) /\ old \in AllKeys
  BY FirstFreeBlockIsFree, ReplacedEntryIsFree, LenProperties DEF TypeOK, NoBlock
<1>3. Moved(old, k, s, head')
  BY DEF InsertFile
<1> HIDE DEF p
<1>4. HeadsLeadGroups'
  <2> SUFFICES ASSUME NEW j \in AllKeys
               PROVE  IF Group(hashes', j) = {} THEN head'[j] = NoSlot
                                                ELSE head'[j] \in Group(hashes', j)
    BY DEF HeadsLeadGroups
  <2>1. CASE j \notin {old, k}
    <3>1. Group(hashes', j) = Group(hashes, j)
      BY <1>1, <1>2, <2>1 DEF Group
    <3> QED
      BY <1>3, <2>1, <3>1, MovedShape DEF HeadsLeadGroups
  <2>2. CASE j = k /\ k # old
    <3>1. Group(hashes', k) = Group(hashes, k) \union {s}
      BY <1>1, <1>2, <2>2 DEF Group
    <3>2. head'[k] = IF head[k] = NoSlot THEN s ELSE head[k]
      BY <1>3, <2>2, MovedShape
    <3>3. head[k] # NoSlot => head[k] \in Group(hashes, k)
      BY <2>2 DEF HeadsLeadGroups
    <3> QED
      BY <2>2, <3>1, <3>2, <3>3
  <2>3. CASE j = old /\ k # old
    <3>1. Group(hashes', old) = Group(hashes, old) \ {s}
      BY <1>1, <1>2, <2>3 DEF Group
    <3> QED
      BY <1>3, <2>3, <3>1, MovedShape
  <2>4. CASE j = old /\ k = old
    <3>1. Group(hashes', old) = Group(hashes, old)
      BY <1>1, <1>2, <2>4 DEF Group
    <3> QED
      BY <1>3, <2>4, <3>1, MovedShape
  <2> QED
    BY <2>1, <2>2, <2>3, <2>4
<1>5. OnlyHeadsFree'
  <2> SUFFICES ASSUME NEW t \in DOMAIN hashes
               PROVE  IF hashes'[t].key \in Keys
                      THEN FreeHash(hashes'[t]) => head'[hashes'[t].key] = t
                      ELSE FreeHash(hashes'[t])
    BY <1>1 DEF OnlyHeadsFree
  <2>1. CASE t = s
    BY <1>1, <1>2, <2>1 DEF FreeHash, EmptyHash
  <2>2. CASE t # s
    BY <1>1, <1>3, <2>2, OtherHeadsStay DEF OnlyHeadsFree
  <2> QED
    BY <2>1, <2>2
<1>6. NoSharedBlock'
  <2>1. UsedSlots' = UsedSlots \union {s} /\ s \notin UsedSlots
    <3>1. ~ FreeHash(hashes'[s])
      BY <1>1, <1>2 DEF FreeHash, EmptyHash
    <3> QED
      BY <1>1, <1>2, <3>1 DEF UsedSlots
  <2>2. p \notin TakenBlocks
    BY <1>2 DEF TakenBlocks, FreeBlocks
  <2>3. p \in TakenBlocks' /\ TakenBlocks \subseteq TakenBlocks'
    <3>1. ~ FreeBlock(blocks'[p])
      BY <1>1, LayoutsAssumption DEF FreeBlock, Empty, Unused, FilesNotEmpty, Layout
    <3> QED
      BY <1>1, <1>2, <2>2, <3>1 DEF TakenBlocks
  <2>4. \A t \in UsedSlots : hashes'[t] = hashes[t] /\ hashes[t].block \in TakenBlocks
    BY <1>1, <2>1 DEF NoSharedBlock, UsedSlots
  <2>5. hashes'[s].block = p
    BY <1>1
  <2>6. \A t, u \in UsedSlots : hashes[t].block = hashes[u].block => t = u
    BY DEF NoSharedBlock
  <2> HIDE DEF s
  <2>7. \A t \in UsedSlots' : hashes'[t].block \in TakenBlocks'
    BY <2>1, <2>3, <2>4, <2>5
  <2>8. \A t, u \in UsedSlots' : hashes'[t].block = hashes'[u].block => t = u
    BY <2>1, <2>2, <2>4, <2>5, <2>6
  <2> QED
    BY <2>7, <2>8 DEF NoSharedBlock
<1> QED
  BY <1>4, <1>5, <1>6

(* Arithmetic of m_size stays within its width.                            *)
LEMMA SizeInWidth ==
    \A n \in Int : n % SizeModulus \in 0..(SizeModulus - 1)
BY BoundsAssumption

-----------------------------------------------------------------------------
(* Handles.                                                                *)

HandleOK(hs, hd, f) ==
    /\ f \in Handle
    /\ f.state = "live" => f.slot \in DOMAIN hs /\ hd[hs[f.slot].key] = f.slot

(* The invariant says of every handle that it is a proper one.             *)
LEMMA HandlesOfInv ==
    ASSUME TypeOK, HandlesLead
    PROVE  \A c \in Clients : HandleOK(hashes, head, held[c])
BY DEF TypeOK, HandlesLead, HandleOK

(* A File that does not point to anything is a proper one.                 *)
LEMMA NotLiveIsOK ==
    ASSUME NEW hs, NEW hd, NEW f \in Handle, f.state # "live"
    PROVE  HandleOK(hs, hd, f)
BY DEF HandleOK

(* findFile() returns an invalid File or one of a Hash that leads.         *)
LEMMA FoundIsOK ==
    ASSUME NEW k \in Keys, NEW hs \in Seq(Hash), NEW hd,
           IF Group(hs, k) = {} THEN hd[k] = NoSlot ELSE hd[k] \in Group(hs, k)
    PROVE  HandleOK(hs, hd, FindFile(hs, hd, k))
<1>1. CASE hd[k] = NoSlot \/ FreeHash(hs[hd[k]])
  BY <1>1 DEF FindFile, NoFile, HandleOK, Handle, NoSlot
<1>2. CASE ~ (hd[k] = NoSlot \/ FreeHash(hs[hd[k]]))
  <2>1. hd[k] \in Group(hs, k)
    BY <1>2
  <2>2. hd[k] \in DOMAIN hs /\ hs[hd[k]].key = k
    BY <2>1 DEF Group
  <2>3. hd[k] \in Nat
    BY <2>2, LenProperties
  <2>4. FindFile(hs, hd, k) = [state |-> "live", slot |-> hd[k]]
    BY <1>2 DEF FindFile
  <2> QED
    BY <2>2, <2>3, <2>4 DEF HandleOK, Handle
<1> QED
  BY <1>1, <1>2

(* Files whose Hash is destroyed dangle, the others stay as they were.     *)
LEMMA DangleShape ==
    ASSUME TypeOK, NEW slots
    PROVE  /\ Dangle(held, slots) \in [Clients -> Handle]
           /\ \A c \in Clients :
                \/ Dangle(held, slots)[c].state # "live"
                \/ Dangle(held, slots)[c] = held[c] /\ held[c].slot \notin slots
<1>1. \A c \in Clients : held[c] \in Handle
  BY DEF TypeOK
<1>2. \A c \in Clients : [held[c] EXCEPT !.state = "dangling"] \in Handle
  BY <1>1 DEF Handle
<1>3. \A c \in Clients : [held[c] EXCEPT !.state = "dangling"].state = "dangling"
  BY <1>1 DEF Handle
<1> QED
  BY <1>1, <1>2, <1>3 DEF Dangle

(* After the insertion of a file every handle is proper.                   *)
LEMMA HandlesAfterInsert ==
    ASSUME IInv, FreeBlocks # {}, FilesNotEmpty,
           NEW k \in Keys, NEW l \in Layouts, NEW old \in FreeKeys, InsertFile(old, k, l),
           NEW c \in Clients
    PROVE  /\ HandleOK(hashes', head', Dangle(held, {head[old]})[c])
           /\ HandleOK(hashes', head', FindFile(hashes', head', k))
<1> TypeOK /\ HeadsLeadGroups /\ OnlyHeadsFree /\ HandlesLead
  BY DEF IInv
<1> DEFINE f == Dangle(held, {head[old]})[c]
<1>1. HandleOK(hashes', head', f)
  <2>1. f \in Handle /\ (f.state # "live" \/ (f = held[c] /\ held[c].slot # head[old]))
    BY DangleShape
  <2> HIDE DEF f
  <2>2. CASE f.state # "live"
    BY <2>1, <2>2, NotLiveIsOK
  <2>3. CASE f.state = "live"
    <3> DEFINE t == held[c].slot
    <3>1. f = held[c] /\ t # head[old] /\ held[c].state = "live"
      BY <2>1, <2>3
    <3>2. t \in DOMAIN hashes /\ head[hashes[t].key] = t
      BY <3>1, HandlesOfInv DEF HandleOK
    <3>3. DOMAIN hashes' = DOMAIN hashes /\ hashes'[t] = hashes[t]
      BY <3>1, <3>2, InsertShape
    <3>4. head'[hashes[t].key] = t
      BY <3>1, <3>2, OtherHeadsStay DEF InsertFile
    <3> QED
      BY <2>1, <3>1, <3>2, <3>3, <3>4 DEF HandleOK
  <2> QED
    BY <2>2, <2>3
<1>2. HandleOK(hashes', head', FindFile(hashes', head', k))
  <2>1. hashes' \in Seq(Hash)
    BY InsertShape
  <2>2. IF Group(hashes', k) = {} THEN head'[k] = NoSlot ELSE head'[k] \in Group(hashes', k)
    BY InsertKeepsTables DEF HeadsLeadGroups, AllKeys
  <2> QED
    BY <2>1, <2>2, FoundIsOK
<1> QED
  BY <1>1, <1>2

(* Inserting a file keeps the whole invariant, whether the client gets the *)
(* File or not.                                                            *)
LEMMA InsertKeepsInv ==
    ASSUME IInv, FreeBlocks # {}, FilesNotEmpty,
           NEW k \in Keys, NEW l \in Layouts, NEW old \in FreeKeys, InsertFile(old, k, l),
           UNCHANGED <<isOpen, bto, hto>>, size' \in 0..(SizeModulus - 1),
           NEW c,
           \/ held' = Dangle(held, {head[old]})
           \/ held' = [Dangle(held, {head[old]}) EXCEPT ![c] = FindFile(hashes', head', k)]
    PROVE  IInv'
<1> TypeOK /\ HeadsLeadGroups /\ OnlyHeadsFree /\ HandlesLead
  BY DEF IInv
<1> DEFINE dangled == Dangle(held, {head[old]})
           found == FindFile(hashes', head', k)
<1>1. /\ dangled \in [Clients -> Handle]
      /\ \A d \in Clients : HandleOK(hashes', head', dangled[d])
                            /\ HandleOK(hashes', head', found)
  BY DangleShape, HandlesAfterInsert
<1> HIDE DEF dangled, found
<1>2. /\ held' \in [Clients -> Handle]
      /\ \A d \in Clients : HandleOK(hashes', head', held'[d])
  BY <1>1 DEF HandleOK, dangled, found
<1>3. /\ blocks' \in Seq(Block) /\ hashes' \in Seq(Hash)
      /\ DOMAIN blocks' = DOMAIN blocks /\ DOMAIN hashes' = DOMAIN hashes
      /\ hashes'[head[old]] = [key |-> k, block |-> FirstFreeBlock, deleted |-> FALSE]
      /\ \A t \in DOMAIN hashes : t # head[old] => hashes'[t] = hashes[t]
  BY InsertShape
<1>4. head' \in [AllKeys -> {NoSlot} \union DOMAIN hashes']
  BY <1>3, MovedShape DEF InsertFile
<1>5. \A t \in DOMAIN hashes' : /\ hashes'[t].block \in {NoBlock} \union DOMAIN blocks'
                                /\ hashes'[t].deleted => hashes'[t].block = NoBlock
  <2>1. FirstFreeBlock \in DOMAIN blocks
    BY FirstFreeBlockIsFree
  <2> QED
    BY <1>3, <2>1 DEF TypeOK
<1>6. TypeOK'
  BY <1>2, <1>3, <1>4, <1>5 DEF TypeOK, HandleOK
<1>7. HandlesLead'
  BY <1>2 DEF HandlesLead, HandleOK
<1> QED
  BY <1>6, <1>7, InsertKeepsTables DEF IInv

-----------------------------------------------------------------------------
(* The other calls.                                                        *)

(* clear(), and the start of a process, leave empty tables.                *)
LEMMA ClearedInv ==
    ASSUME TypeOK,
           isOpen' = FALSE, blocks' = <<>>, hashes' = <<>>, head' = EmptyHead,
           bto' = 0, hto' = 0, size' = 0,
           \/ held' = Dangle(held, DOMAIN hashes)
           \/ held' = [c \in Clients |-> NoFile]
    PROVE  IInv'
<1>1. held' \in [Clients -> Handle] /\ \A c \in Clients : held'[c].state # "live"
  <2>1. CASE held' = Dangle(held, DOMAIN hashes)
    <3>1. \A c \in Clients : held[c].state = "live" => held[c].slot \in DOMAIN hashes
      BY DEF TypeOK
    <3> QED
      BY <2>1, <3>1, DangleShape
  <2>2. CASE held' = [c \in Clients |-> NoFile]
    BY <2>2 DEF NoFile, Handle, NoSlot
  <2> QED
    BY <2>1, <2>2
<1>2. <<>> \in Seq(Block) /\ <<>> \in Seq(Hash) /\ DOMAIN <<>> = {}
  OBVIOUS
<1>3. EmptyHead \in [AllKeys -> {NoSlot}] /\ \A k \in AllKeys : EmptyHead[k] = NoSlot
  BY DEF EmptyHead
<1>4. 0 \in 0..(SizeModulus - 1) /\ 0 \in Nat /\ FALSE \in BOOLEAN
  BY BoundsAssumption
<1>5. TypeOK'
  BY <1>1, <1>2, <1>3, <1>4 DEF TypeOK
<1>6. HeadsLeadGroups'
  BY <1>2, <1>3 DEF HeadsLeadGroups, Group
<1>7. OnlyHeadsFree' /\ NoSharedBlock'
  BY <1>2 DEF OnlyHeadsFree, NoSharedBlock, UsedSlots
<1>8. HandlesLead'
  BY <1>1 DEF HandlesLead
<1> QED
  BY <1>5, <1>6, <1>7, <1>8 DEF IInv

(* open(): the tables of an archive that holds files.                      *)
LEMMA OpenKeepsInv ==
    ASSUME TypeOK, ImagesHoldFiles, NEW im \in Images, Open(im)
    PROVE  IInv'
<1>1. /\ im.blocks \in Seq(Block) /\ im.hashes \in Seq(Hash)
      /\ im.bto \in Nat /\ im.hto \in Nat /\ im.size \in Nat
  BY ImagesAssumption DEF Image
<1>2. /\ blocks' = im.blocks /\ hashes' = im.hashes /\ head' = InsertedInOrder(im.hashes)
      /\ isOpen' = TRUE /\ bto' = im.bto /\ hto' = im.hto /\ size' = im.size % SizeModulus
      /\ held' = Dangle(held, DOMAIN hashes)
  BY DEF Open
<1>3. size' \in 0..(SizeModulus - 1)
  <2>1. im.size \in Int
    BY <1>1
  <2> QED
    BY <1>2, <2>1, SizeInWidth
<1>4. held' \in [Clients -> Handle] /\ \A c \in Clients : held'[c].state # "live"
  <2>1. \A c \in Clients : held[c].state = "live" => held[c].slot \in DOMAIN hashes
    BY DEF TypeOK
  <2> QED
    BY <1>2, <2>1, DangleShape
<1>5. \A k \in AllKeys : /\ Group(hashes', k) = {} => head'[k] = NoSlot
                         /\ Group(hashes', k) # {} => head'[k] \in Group(hashes', k)
  <2> SUFFICES ASSUME NEW k \in AllKeys, Group(im.hashes, k) # {}
               PROVE  Least(Group(im.hashes, k)) \in Group(im.hashes, k)
    BY <1>2 DEF InsertedInOrder
  <2>1. Group(im.hashes, k) \in SUBSET Nat
    BY <1>1, LenProperties DEF Group
  <2> QED
    BY <2>1, LeastOfNats
<1>6. head' \in [AllKeys -> {NoSlot} \union DOMAIN hashes']
  <2>1. head' = [k \in AllKeys |-> head'[k]]
    BY <1>2 DEF InsertedInOrder
  <2> QED
    BY <1>5, <2>1 DEF Group
<1>7. \A s \in DOMAIN hashes' : /\ hashes'[s].block \in {NoBlock} \union DOMAIN blocks'
                                /\ hashes'[s].deleted => hashes'[s].block = NoBlock
  BY <1>2, ImagesAssumption
<1>8. TypeOK'
  BY <1>1, <1>2, <1>3, <1>4, <1>6, <1>7 DEF TypeOK
<1>9. HeadsLeadGroups'
  BY <1>5 DEF HeadsLeadGroups
<1>10. OnlyHeadsFree'
  BY <1>2 DEF OnlyHeadsFree, ImagesHoldFiles
<1>11. NoSharedBlock'
  <2>1. \A s \in UsedSlots' : hashes'[s].block \in DOMAIN blocks'
                              /\ ~ FreeBlock(blocks'[hashes'[s].block])
    BY <1>2, <1>7 DEF UsedSlots, FreeHash, EmptyHash, ImagesHoldFiles
  <2>2. \A s, t \in UsedSlots' : hashes'[s].block = hashes'[t].block => s = t
    BY <1>2 DEF UsedSlots, ImagesHoldFiles
  <2> QED
    BY <2>1, <2>2 DEF NoSharedBlock, TakenBlocks
<1>12. HandlesLead'
  BY <1>4 DEF HandlesLead
<1> QED
  BY <1>8, <1>9, <1>10, <1>11, <1>12 DEF IInv

(* create(): free entries behind whatever close() left.                    *)
LEMMA AppendKeepsInv ==
    ASSUME IInv, NEW b \in TableSizes, AppendEntries(b),
           isOpen' \in BOOLEAN, hto' \in Nat, size' \in 0..(SizeModulus - 1)
    PROVE  IInv'
<1> TypeOK /\ HeadsLeadGroups /\ OnlyHeadsFree /\ NoSharedBlock /\ HandlesLead
  BY DEF IInv
<1> DEFINE keptBlocks == IF isOpen THEN <<>> ELSE blocks
           keptHashes == IF isOpen THEN <<>> ELSE hashes
           keptHead == IF isOpen THEN EmptyHead ELSE head
           newBlocks == [i \in 1..b |-> NewBlock(i - 1)]
           newHashes == [i \in 1..b |-> NewHash]
           n == Len(keptHashes)
<1>1. /\ keptBlocks \in Seq(Block) /\ keptHashes \in Seq(Hash)
      /\ keptHead \in [AllKeys -> {NoSlot} \union DOMAIN keptHashes]
      /\ b \in Nat /\ NullKey \in AllKeys /\ NullKey \notin Keys
  BY BoundsAssumption, KeysAssumption DEF TypeOK, EmptyHead, AllKeys
<1>2. /\ newBlocks \in [1..b -> Block] /\ newHashes \in [1..b -> Hash]
      /\ \A i \in 1..b : FreeBlock(newBlocks[i]) /\ newHashes[i] = NewHash
  BY <1>1 DEF NewBlock, NewHash, Block, Hash, Flags, NoBlock, FreeBlock, Unused
<1>3. /\ blocks' = keptBlocks \o newBlocks
      /\ hashes' = keptHashes \o newHashes
      /\ head' = IF b > 0 /\ keptHead[NullKey] = NoSlot
                 THEN [keptHead EXCEPT ![NullKey] = n + 1] ELSE keptHead
      /\ bto' = HeaderSize
      /\ held' = IF isOpen THEN Dangle(held, DOMAIN hashes) ELSE held
  BY DEF AppendEntries
<1>4. \A k \in AllKeys : IF Group(keptHashes, k) = {} THEN keptHead[k] = NoSlot
                                                      ELSE keptHead[k] \in Group(keptHashes, k)
  BY DEF HeadsLeadGroups, EmptyHead, Group
<1>5. /\ \A s \in DOMAIN keptHashes : /\ keptHashes[s].block \in {NoBlock} \union DOMAIN keptBlocks
                                      /\ keptHashes[s].deleted => keptHashes[s].block = NoBlock
      /\ \A s \in DOMAIN keptHashes : IF keptHashes[s].key \in Keys
              THEN FreeHash(keptHashes[s]) => keptHead[keptHashes[s].key] = s
              ELSE FreeHash(keptHashes[s])
      /\ \A s \in DOMAIN keptHashes :
            ~ FreeHash(keptHashes[s]) => /\ keptHashes[s].block \in DOMAIN keptBlocks
                                         /\ ~ FreeBlock(keptBlocks[keptHashes[s].block])
      /\ \A s, t \in DOMAIN keptHashes :
            ~ FreeHash(keptHashes[s]) /\ ~ FreeHash(keptHashes[t])
            /\ keptHashes[s].block = keptHashes[t].block => s = t
  BY DEF TypeOK, OnlyHeadsFree, NoSharedBlock, UsedSlots, TakenBlocks
<1>6. \A c \in Clients : HandleOK(keptHashes, keptHead, held'[c])
  <2>1. CASE isOpen
    <3>1. \A c \in Clients : held[c].state = "live" => held[c].slot \in DOMAIN hashes
      BY DEF TypeOK
    <3> QED
      BY <1>3, <2>1, <3>1, DangleShape, NotLiveIsOK
  <2>2. CASE ~ isOpen
    BY <1>3, <2>2, HandlesOfInv
  <2> QED
    BY <2>1, <2>2
<1>7. held' \in [Clients -> Handle]
  BY <1>3, DangleShape DEF TypeOK
<1> HIDE DEF keptBlocks, keptHashes, keptHead, newBlocks, newHashes
<1>8. /\ Len(keptBlocks) \in Nat /\ n \in Nat
      /\ DOMAIN keptBlocks = 1..Len(keptBlocks) /\ DOMAIN keptHashes = 1..n
  BY <1>1, LenProperties
<1>9. /\ blocks' \in Seq(Block)
      /\ DOMAIN blocks' = 1..(Len(keptBlocks) + b)
      /\ \A p \in 1..(Len(keptBlocks) + b) :
            blocks'[p] = IF p <= Len(keptBlocks) THEN keptBlocks[p] ELSE newBlocks[p - Len(keptBlocks)]
  BY <1>1, <1>2, <1>3, AppendNew
<1>10. /\ hashes' \in Seq(Hash)
       /\ DOMAIN hashes' = 1..(n + b)
       /\ \A s \in 1..(n + b) :
             hashes'[s] = IF s <= n THEN keptHashes[s] ELSE newHashes[s - n]
  BY <1>1, <1>2, <1>3, AppendNew
<1>11. /\ \A p \in DOMAIN keptBlocks : p \in DOMAIN blocks' /\ blocks'[p] = keptBlocks[p]
       /\ \A s \in DOMAIN keptHashes : s \in DOMAIN hashes' /\ hashes'[s] = keptHashes[s]
       /\ \A s \in DOMAIN hashes' \ DOMAIN keptHashes : hashes'[s] = NewHash
  <2>1. \A p \in 1..Len(keptBlocks) : p \in 1..(Len(keptBlocks) + b) /\ p <= Len(keptBlocks)
    BY <1>1, <1>8
  <2>2. \A s \in 1..n : s \in 1..(n + b) /\ s <= n
    BY <1>1, <1>8
  <2>3. \A s \in (1..(n + b)) \ (1..n) : ~ (s <= n) /\ s - n \in 1..b
    BY <1>1, <1>8
  <2> QED
    BY <1>2, <1>8, <1>9, <1>10, <2>1, <2>2, <2>3
<1>12. b > 0 => n + 1 \in DOMAIN hashes' \ DOMAIN keptHashes
  BY <1>1, <1>8, <1>10
<1> HIDE DEF n
<1>13. NewHash.key = NullKey /\ FreeHash(NewHash) /\ NewHash.block = NoBlock /\ ~ NewHash.deleted
  BY DEF NewHash, FreeHash, EmptyHash
<1>14. TypeOK'
  <2>1. head' \in [AllKeys -> {NoSlot} \union DOMAIN hashes']
    BY <1>1, <1>3, <1>11, <1>12
  <2>2. \A s \in DOMAIN hashes' : /\ hashes'[s].block \in {NoBlock} \union DOMAIN blocks'
                                  /\ hashes'[s].deleted => hashes'[s].block = NoBlock
    BY <1>5, <1>11, <1>13
  <2>3. \A c \in Clients : held'[c].state = "live" => held'[c].slot \in DOMAIN hashes'
    BY <1>6, <1>11 DEF HandleOK
  <2>4. bto' \in Nat
    BY <1>3 DEF HeaderSize
  <2> QED
    BY <1>7, <1>9, <1>10, <2>1, <2>2, <2>3, <2>4 DEF TypeOK
<1>15. \A k \in AllKeys : keptHead[k] # NoSlot => head'[k] = keptHead[k]
  BY <1>1, <1>3
<1>16. HeadsLeadGroups'
  <2> SUFFICES ASSUME NEW k \in AllKeys
               PROVE  IF Group(hashes', k) = {} THEN head'[k] = NoSlot
                                                ELSE head'[k] \in Group(hashes', k)
    BY DEF HeadsLeadGroups
  <2>1. CASE keptHead[k] # NoSlot
    <3>1. keptHead[k] \in Group(keptHashes, k)
      BY <1>4, <2>1
    <3>2. keptHead[k] \in Group(hashes', k)
      BY <1>11, <3>1 DEF Group
    <3> QED
      BY <1>15, <2>1, <3>2
  <2>2. CASE keptHead[k] = NoSlot /\ k = NullKey /\ b > 0
    BY <1>1, <1>3, <1>11, <1>12, <1>13, <2>2 DEF Group
  <2>3. CASE keptHead[k] = NoSlot /\ ~ (k = NullKey /\ b > 0)
    <3>1. Group(keptHashes, k) = {}
      <4>1. NoSlot \notin Group(keptHashes, k)
        BY <1>8 DEF Group, NoSlot
      <4> QED
        BY <1>4, <2>3, <4>1
    <3>2. Group(hashes', k) = {}
      <4>1. CASE k = NullKey
        <5>1. b = 0 /\ n + b = n
          BY <1>1, <1>8, <2>3, <4>1
        <5>2. DOMAIN hashes' = DOMAIN keptHashes
          BY <1>8, <1>10, <5>1
        <5> QED
          BY <1>11, <3>1, <5>2 DEF Group
      <4>2. CASE k # NullKey
        BY <1>11, <1>13, <3>1, <4>2 DEF Group
      <4> QED
        BY <4>1, <4>2
    <3>3. head'[k] = NoSlot
      BY <1>1, <1>3, <2>3
    <3> QED
      BY <3>2, <3>3
  <2> QED
    BY <2>1, <2>2, <2>3
<1>17. OnlyHeadsFree'
  <2> SUFFICES ASSUME NEW s \in DOMAIN hashes'
               PROVE  IF hashes'[s].key \in Keys
                      THEN FreeHash(hashes'[s]) => head'[hashes'[s].key] = s
                      ELSE FreeHash(hashes'[s])
    BY DEF OnlyHeadsFree
  <2>1. CASE s \in DOMAIN keptHashes
    <3>1. s # NoSlot
      BY <1>8, <2>1 DEF NoSlot
    <3> QED
      BY <1>5, <1>11, <1>15, <2>1, <3>1 DEF AllKeys
  <2>2. CASE s \notin DOMAIN keptHashes
    BY <1>1, <1>11, <1>13, <2>2
  <2> QED
    BY <2>1, <2>2
<1>18. NoSharedBlock'
  <2>1. \A s \in UsedSlots' : s \in DOMAIN keptHashes /\ ~ FreeHash(keptHashes[s])
                              /\ hashes'[s] = keptHashes[s]
    BY <1>11, <1>13 DEF UsedSlots
  <2> QED
    BY <1>5, <1>11, <2>1 DEF NoSharedBlock, TakenBlocks
<1>19. HandlesLead'
  <2> SUFFICES ASSUME NEW c \in Clients, held'[c].state = "live"
               PROVE  head'[hashes'[held'[c].slot].key] = held'[c].slot
    BY DEF HandlesLead
  <2> DEFINE s == held'[c].slot
  <2>1. s \in DOMAIN keptHashes /\ keptHead[keptHashes[s].key] = s
    BY <1>6 DEF HandleOK
  <2>2. s # NoSlot
    BY <1>8, <2>1 DEF NoSlot
  <2>3. hashes'[s] = keptHashes[s] /\ s \in DOMAIN hashes'
    BY <1>11, <2>1
  <2>4. hashes'[s] \in Hash
    BY <1>10, <2>3, LenProperties, ElementOfSeq
  <2> QED
    BY <1>15, <2>1, <2>2, <2>3, <2>4 DEF Hash
<1> QED
  BY <1>14, <1>16, <1>17, <1>18, <1>19 DEF IInv

(* addFile() without its sectors: one free block changes.                  *)
LEMMA DataThrowsKeepsInv ==
    ASSUME IInv, NEW l \in Layouts, AddDataThrows(l)
    PROVE  IInv'
<1> TypeOK /\ HeadsLeadGroups /\ OnlyHeadsFree /\ NoSharedBlock /\ HandlesLead
  BY DEF IInv
<1> DEFINE p == FirstFreeBlock
           b == [blocks[p] EXCEPT !.offset = NextBlockOffset, !.flags = l.flags]
<1>1. p \in FreeBlocks /\ p \in 1..Len(blocks)
  BY FirstFreeBlockIsFree, LenProperties DEF TypeOK, AddDataThrows, CanAdd
<1>2. b \in Block
  <2>1. blocks[p] \in Block
    BY <1>1, ElementOfSeq DEF TypeOK
  <2> QED
    BY <2>1, NextBlockOffsetType, LayoutsAssumption DEF Block, Layout
<1>3. /\ blocks' = [blocks EXCEPT ![p] = b]
      /\ UNCHANGED <<isOpen, hashes, head, bto, hto, size, held>>
  BY DEF AddDataThrows
<1> HIDE DEF b
<1>4. /\ blocks' \in Seq(Block)
      /\ Len(blocks') = Len(blocks)
      /\ \A q \in 1..Len(blocks) : blocks'[q] = IF q = p THEN b ELSE blocks[q]
  BY <1>1, <1>2, <1>3, ExceptSeq DEF TypeOK
<1>5. DOMAIN blocks' = DOMAIN blocks /\ \A q \in DOMAIN blocks \ {p} : blocks'[q] = blocks[q]
  BY <1>4, LenProperties DEF TypeOK
<1>6. TypeOK'
  BY <1>3, <1>4, <1>5 DEF TypeOK
<1>7. TakenBlocks \subseteq TakenBlocks'
  BY <1>1, <1>5 DEF TakenBlocks, FreeBlocks
<1>8. UsedSlots' = UsedSlots
  BY <1>3 DEF UsedSlots
<1> QED
  BY <1>3, <1>6, <1>7, <1>8 DEF IInv, HeadsLeadGroups, OnlyHeadsFree, NoSharedBlock, HandlesLead

(* The entries removeFile() changes.                                       *)
LEMMA RemoveShape ==
    ASSUME TypeOK, NEW c \in Clients, RemoveEntry(c)
    PROVE  /\ held[c].slot \in UsedSlots
           /\ hashes[held[c].slot].block \in DOMAIN blocks
           /\ blocks' \in Seq(Block)
           /\ DOMAIN blocks' = DOMAIN blocks
           /\ \A q \in DOMAIN blocks : q # hashes[held[c].slot].block => blocks'[q] = blocks[q]
           /\ LET p == hashes[held[c].slot].block
              IN  /\ blocks'[p].offset = blocks[p].offset
                  /\ blocks'[p].blockSize = blocks[p].blockSize
                  /\ blocks'[p].fileSize = 0 /\ blocks'[p].flags = "None"
           /\ hashes' \in Seq(Hash)
           /\ DOMAIN hashes' = DOMAIN hashes
           /\ hashes'[held[c].slot] = [key |-> hashes[held[c].slot].key,
                                       block |-> NoBlock, deleted |-> FALSE]
           /\ \A t \in DOMAIN hashes : t # held[c].slot => hashes'[t] = hashes[t]
<1> DEFINE s == held[c].slot
           p == hashes[s].block
           b == [blocks[p] EXCEPT !.fileSize = 0, !.flags = "None"]
           h == [key |-> hashes[s].key, block |-> NoBlock, deleted |-> FALSE]
<1>1. s \in 1..Len(hashes) /\ p \in 1..Len(blocks) /\ s \in DOMAIN hashes /\ p \in DOMAIN blocks
  <2>1. s \in DOMAIN hashes /\ p # NoBlock
    BY DEF RemoveEntry, TypeOK
  <2>2. p \in DOMAIN blocks
    BY <2>1 DEF TypeOK
  <2> QED
    BY <2>1, <2>2, LenProperties DEF TypeOK
<1>2. b \in Block
  <2>1. blocks[p] \in Block
    BY <1>1, ElementOfSeq DEF TypeOK
  <2> QED
    BY <2>1 DEF Block, Flags
<1>3. hashes[s] \in Hash
  BY <1>1, ElementOfSeq DEF TypeOK
<1>4. h \in Hash
  <2>1. hashes[s].key \in AllKeys /\ NoBlock \in Nat
    BY <1>3 DEF Hash, NoBlock
  <2> QED
    BY <2>1 DEF Hash
<1>5. blocks' = [blocks EXCEPT ![p] = b] /\ hashes' = [hashes EXCEPT ![s] = h]
  BY DEF RemoveEntry
<1>6. s \in UsedSlots
  BY <1>1 DEF RemoveEntry, UsedSlots, FreeHash, EmptyHash, Writable
<1>10. /\ b.offset = blocks[p].offset /\ b.blockSize = blocks[p].blockSize
       /\ b.fileSize = 0 /\ b.flags = "None"
  <2>1. blocks[p] \in Block
    BY <1>1, ElementOfSeq DEF TypeOK
  <2> QED
    BY <2>1 DEF Block
<1> HIDE DEF b, h
<1>7. /\ blocks' \in Seq(Block)
      /\ Len(blocks') = Len(blocks)
      /\ \A q \in 1..Len(blocks) : blocks'[q] = IF q = p THEN b ELSE blocks[q]
  BY <1>1, <1>2, <1>5, ExceptSeq DEF TypeOK
<1>8. /\ hashes' \in Seq(Hash)
      /\ Len(hashes') = Len(hashes)
      /\ \A t \in 1..Len(hashes) : hashes'[t] = IF t = s THEN h ELSE hashes[t]
  BY <1>1, <1>4, <1>5, ExceptSeq DEF TypeOK
<1>9. /\ DOMAIN blocks = 1..Len(blocks) /\ DOMAIN blocks' = 1..Len(blocks)
      /\ DOMAIN hashes = 1..Len(hashes) /\ DOMAIN hashes' = 1..Len(hashes)
  BY <1>7, <1>8, LenProperties DEF TypeOK
<1> QED
  BY <1>1, <1>6, <1>7, <1>8, <1>9, <1>10 DEF h

(* removeFile() frees an entry that leads its group.                       *)
LEMMA RemoveKeepsInv ==
    ASSUME IInv, NEW c \in Clients, RemoveEntry(c)
    PROVE  IInv'
<1> TypeOK /\ HeadsLeadGroups /\ OnlyHeadsFree /\ NoSharedBlock /\ HandlesLead
  BY DEF IInv
<1> DEFINE s == held[c].slot
           p == hashes[s].block
<1>1. /\ s \in UsedSlots /\ s \in DOMAIN hashes /\ p \in DOMAIN blocks
      /\ blocks' \in Seq(Block) /\ DOMAIN blocks' = DOMAIN blocks
      /\ \A q \in DOMAIN blocks : q # p => blocks'[q] = blocks[q]
      /\ hashes' \in Seq(Hash) /\ DOMAIN hashes' = DOMAIN hashes
      /\ hashes'[s] = [key |-> hashes[s].key, block |-> NoBlock, deleted |-> FALSE]
      /\ \A t \in DOMAIN hashes : t # s => hashes'[t] = hashes[t]
  BY RemoveShape DEF UsedSlots
<1>2. head[hashes[s].key] = s
  BY DEF RemoveEntry, HandlesLead
<1>3. UNCHANGED <<isOpen, head, bto, hto, held>>
  BY DEF RemoveEntry
<1>4. size' \in 0..(SizeModulus - 1)
  <2>1. blocks[p] \in Block
    BY <1>1, LenProperties, ElementOfSeq DEF TypeOK
  <2>2. size \in Int
    BY BoundsAssumption DEF TypeOK
  <2>3. \A b \in Block : b.blockSize \in Int
    BY DEF Block
  <2>4. size - blocks[p].blockSize \in Int
    BY <2>1, <2>2, <2>3
  <2> QED
    BY <2>4, SizeInWidth DEF RemoveEntry
<1>5. \A t \in DOMAIN hashes' : hashes'[t].key = hashes[t].key
  BY <1>1
<1>6. TypeOK'
  <2>1. \A t \in DOMAIN hashes' : /\ hashes'[t].block \in {NoBlock} \union DOMAIN blocks'
                                  /\ hashes'[t].deleted => hashes'[t].block = NoBlock
    BY <1>1 DEF TypeOK
  <2> QED
    BY <1>1, <1>3, <1>4, <2>1 DEF TypeOK
<1>7. HeadsLeadGroups'
  <2>1. \A k \in AllKeys : Group(hashes', k) = Group(hashes, k)
    BY <1>1, <1>5 DEF Group
  <2> QED
    BY <1>3, <2>1 DEF HeadsLeadGroups
<1>8. OnlyHeadsFree'
  BY <1>1, <1>2, <1>3 DEF OnlyHeadsFree, FreeHash, EmptyHash
<1>9. NoSharedBlock'
  <2>1. UsedSlots' = UsedSlots \ {s}
    BY <1>1 DEF UsedSlots, FreeHash, EmptyHash
  <2>2. \A t \in UsedSlots' : t \in UsedSlots /\ hashes'[t] = hashes[t] /\ hashes[t].block # p
    BY <1>1, <2>1 DEF NoSharedBlock, UsedSlots
  <2>3. TakenBlocks \ {p} \subseteq TakenBlocks'
    BY <1>1 DEF TakenBlocks
  <2> HIDE DEF p, s
  <2> QED
    BY <2>2, <2>3 DEF NoSharedBlock
<1>10. HandlesLead'
  BY <1>3, <1>5, <1>1 DEF HandlesLead, TypeOK
<1> QED
  BY <1>6, <1>7, <1>8, <1>9, <1>10 DEF IInv

(* findFile() and File::close() change one handle only.                    *)
LEMMA HandleChangeKeepsInv ==
    ASSUME IInv, UNCHANGED tables, NEW c \in Clients, NEW f,
           held' = [held EXCEPT ![c] = f], HandleOK(hashes, head, f)
    PROVE  IInv'
<1> TypeOK /\ HeadsLeadGroups /\ OnlyHeadsFree /\ NoSharedBlock /\ HandlesLead
  BY DEF IInv
<1>1. UNCHANGED <<isOpen, blocks, hashes, head, bto, hto, size>>
  BY DEF tables
<1>2. held' \in [Clients -> Handle] /\ \A d \in Clients : HandleOK(hashes, head, held'[d])
  <2>1. held \in [Clients -> Handle] /\ f \in Handle
    BY DEF TypeOK, HandleOK
  <2>2. \A d \in Clients : held'[d] = IF d = c THEN f ELSE held[d]
    BY <2>1
  <2> QED
    BY <2>1, <2>2, HandlesOfInv
<1>3. TypeOK'
  BY <1>1, <1>2 DEF TypeOK, HandleOK
<1>4. HandlesLead'
  BY <1>1, <1>2 DEF HandlesLead, HandleOK
<1>5. HeadsLeadGroups' /\ OnlyHeadsFree' /\ NoSharedBlock'
  BY <1>1 DEF HeadsLeadGroups, OnlyHeadsFree, NoSharedBlock, UsedSlots, TakenBlocks
<1> QED
  BY <1>3, <1>4, <1>5 DEF IInv

(* A call that changes nothing.                                            *)
LEMMA NoChangeKeepsInv ==
    ASSUME IInv, UNCHANGED vars
    PROVE  IInv'
BY DEF vars, IInv, TypeOK, HeadsLeadGroups, OnlyHeadsFree, NoSharedBlock, HandlesLead,
       UsedSlots, TakenBlocks

-----------------------------------------------------------------------------
(* Every step keeps the invariant.                                         *)

(* A process starts with empty tables.                                    *)
LEMMA InitInv == Init => IInv
<1> SUFFICES ASSUME Init PROVE IInv
  OBVIOUS
<1>1. <<>> \in Seq(Block) /\ <<>> \in Seq(Hash) /\ DOMAIN <<>> = {}
  OBVIOUS
<1>2. 0 \in 0..(SizeModulus - 1)
  BY BoundsAssumption
<1>3. \A c \in Clients : held[c] = NoFile
  BY DEF Init
<1>4. NoFile \in Handle /\ NoFile.state # "live"
  BY DEF NoFile, Handle, NoSlot
<1>5. TypeOK
  BY <1>1, <1>2, <1>3, <1>4 DEF Init, TypeOK, EmptyHead
<1>6. HeadsLeadGroups /\ OnlyHeadsFree /\ NoSharedBlock
  BY <1>1 DEF Init, HeadsLeadGroups, OnlyHeadsFree, NoSharedBlock, Group, EmptyHead, UsedSlots
<1>7. HandlesLead
  BY <1>3, <1>4 DEF HandlesLead
<1> QED
  BY <1>5, <1>6, <1>7 DEF IInv

(* Each call keeps the invariant, whichever way it ends.                   *)
LEMMA NextInv ==
    ASSUME ImagesHoldFiles, FilesNotEmpty, IInv, [Next]_vars
    PROVE  IInv'
<1> TypeOK
  BY DEF IInv
<1>1. ASSUME NEW h \in TableSizes, NEW b \in TableSizes, Create(h, b) \/ CreateThrows(h, b)
      PROVE  IInv'
  <2>1. blocks' \in Seq(Block) => CreatedHto(Len(blocks')) \in Nat
                                  /\ CreatedSize(Len(blocks')) \in 0..(SizeModulus - 1)
    <3> SUFFICES ASSUME NEW n \in Nat
                 PROVE  CreatedHto(n) \in Nat /\ CreatedSize(n) \in 0..(SizeModulus - 1)
      BY LenProperties
    <3> HeaderSize + 2 * n * EntrySize \in Int
      BY DEF HeaderSize, EntrySize
    <3> QED
      BY SizeInWidth DEF CreatedHto, CreatedSize, HeaderSize, EntrySize
  <2>2. AppendEntries(b) /\ isOpen' \in BOOLEAN
    BY <1>1 DEF Create, CreateThrows
  <2>3. blocks' \in Seq(Block)
    <3>1. b \in Nat
      BY BoundsAssumption
    <3> DEFINE f == [i \in 1..b |-> NewBlock(i - 1)]
               q == IF isOpen THEN <<>> ELSE blocks
    <3>2. f \in [1..b -> Block] /\ q \in Seq(Block)
      BY <3>1 DEF NewBlock, Block, Flags, TypeOK
    <3>3. blocks' = q \o f
      BY <2>2 DEF AppendEntries
    <3> HIDE DEF f, q
    <3> QED
      BY <3>1, <3>2, <3>3, AppendNew
  <2>4. hto' \in Nat /\ size' \in 0..(SizeModulus - 1)
    BY <1>1, <2>1, <2>3, BoundsAssumption DEF Create, CreateThrows, TypeOK
  <2> QED
    BY <2>2, <2>4, AppendKeepsInv
<1>2. ASSUME NEW im \in Images, Open(im) PROVE IInv'
  BY <1>2, OpenKeepsInv
<1>3. CASE OpenThrows
  BY <1>3, ClearedInv DEF OpenThrows, Clear
<1>4. CASE Close
  BY <1>4, ClearedInv DEF Close, Clear
<1>5. ASSUME NEW l \in Layouts PROVE size \in Nat /\ (size + l.blockSize) % SizeModulus \in 0..(SizeModulus - 1)
  <2>1. size + l.blockSize \in Int /\ size \in Nat
    BY BoundsAssumption, LayoutsAssumption DEF TypeOK, Layout
  <2> QED
    BY <2>1, SizeInWidth
<1>6. ASSUME NEW c \in Clients, NEW k \in Keys, NEW l \in Layouts, Add(c, k, l) PROVE IInv'
  <2>1. PICK old \in FreeKeys :
          /\ InsertFile(old, k, l)
          /\ held' = [Dangle(held, {head[old]}) EXCEPT ![c] = FindFile(hashes', head', k)]
    BY <1>6 DEF Add
  <2>2. FreeBlocks # {} /\ UNCHANGED <<isOpen, bto, hto>> /\ size' \in 0..(SizeModulus - 1)
    BY <1>5, <1>6 DEF Add, CanAdd
  <2> QED
    BY <2>1, <2>2, InsertKeepsInv
<1>7. ASSUME NEW k \in Keys, NEW l \in Layouts, AddCrashes(k, l) PROVE IInv'
  BY <1>7, ClearedInv DEF AddCrashes, Crash
<1>8. ASSUME NEW k \in Keys, NEW l \in Layouts, AddThrows(k, l) PROVE IInv'
  <2>1. PICK old \in FreeKeys : InsertFile(old, k, l) /\ held' = Dangle(held, {head[old]})
    BY <1>8 DEF AddThrows
  <2>2. FreeBlocks # {} /\ UNCHANGED <<isOpen, bto, hto>> /\ size' \in 0..(SizeModulus - 1)
    BY <1>5, <1>8 DEF AddThrows, CanAdd, TypeOK
  <2> QED
    BY <2>1, <2>2, InsertKeepsInv
<1>9. ASSUME NEW l \in Layouts, AddDataThrows(l) PROVE IInv'
  BY <1>9, DataThrowsKeepsInv
<1>10. CASE AddTooSmall
  BY <1>10, NoChangeKeepsInv DEF AddTooSmall
<1>11. ASSUME NEW c \in Clients, RemoveEntry(c) PROVE IInv'
  BY <1>11, RemoveKeepsInv
<1>12. ASSUME NEW c \in Clients, RemoveRefused(c) PROVE IInv'
  BY <1>12, NoChangeKeepsInv DEF RemoveRefused
<1>13. ASSUME NEW c \in Clients, RemoveCrashes(c) PROVE IInv'
  BY <1>13, ClearedInv DEF RemoveCrashes, Crash
<1>14. ASSUME NEW c \in Clients, NEW k \in Keys, Find(c, k) PROVE IInv'
  <2>1. HandleOK(hashes, head, FindFile(hashes, head, k))
    BY FoundIsOK DEF IInv, TypeOK, HeadsLeadGroups, AllKeys
  <2> QED
    BY <1>14, <2>1, HandleChangeKeepsInv DEF Find
<1>15. ASSUME NEW c \in Clients, CloseFile(c) PROVE IInv'
  <2>1. HandleOK(hashes, head, NoFile)
    BY NotLiveIsOK DEF NoFile, Handle, NoSlot
  <2> QED
    BY <1>15, <2>1, HandleChangeKeepsInv DEF CloseFile
<1>16. CASE UNCHANGED vars
  BY <1>16, NoChangeKeepsInv
<1> QED
  BY <1>1, <1>2, <1>3, <1>4, <1>6, <1>7, <1>8, <1>9, <1>10, <1>11, <1>12, <1>13, <1>14,
     <1>15, <1>16 DEF Next, Restart, Stop, Call

-----------------------------------------------------------------------------
(* No call changes the entries of another file.                            *)

(* A used entry is none that addFile() replaces, its block none it takes.  *)
LEMMA UsedEntriesAreSafe ==
    ASSUME IInv, NEW s \in UsedSlots
    PROVE  /\ s \in DOMAIN hashes /\ hashes[s].block \in DOMAIN blocks
           /\ hashes[s].block \notin FreeBlocks
           /\ \A old \in FreeKeys : s # head[old]
<1> TypeOK /\ HeadsLeadGroups /\ OnlyHeadsFree /\ NoSharedBlock
  BY DEF IInv
<1>1. hashes[s].block \in TakenBlocks
  BY DEF NoSharedBlock
<1>2. ASSUME NEW old \in FreeKeys PROVE s # head[old]
  BY ReplacedEntryIsFree DEF UsedSlots
<1> QED
  BY <1>1, <1>2 DEF UsedSlots, TakenBlocks, FreeBlocks

(* Dangle() leaves the files of other entries valid.                       *)
LEMMA DangleKeepsOthers ==
    ASSUME NEW s, NEW slots, s \notin slots, NEW d \in Clients,
           held[d] = [state |-> "live", slot |-> s]
    PROVE  Dangle(held, slots)[d].state # "dangling"
BY DEF Dangle

(* addFile() leaves a file that is in the tables as it is.                 *)
LEMMA InsertKeepsFiles ==
    ASSUME IInv, FreeBlocks # {}, NEW s \in UsedSlots,
           NEW k \in Keys, NEW l \in Layouts, NEW old \in FreeKeys, InsertFile(old, k, l),
           NEW c,
           \/ held' = Dangle(held, {head[old]})
           \/ held' = [Dangle(held, {head[old]}) EXCEPT ![c] = FindFile(hashes', head', k)]
    PROVE  FileKept(s)
<1> TypeOK /\ HeadsLeadGroups /\ OnlyHeadsFree
  BY DEF IInv
<1>1. /\ s \in DOMAIN hashes /\ hashes[s].block \in DOMAIN blocks
      /\ hashes[s].block # FirstFreeBlock /\ s # head[old]
  BY UsedEntriesAreSafe, FirstFreeBlockIsFree
<1>2. /\ s \in DOMAIN hashes' /\ hashes'[s] = hashes[s]
      /\ blocks'[hashes[s].block] = blocks[hashes[s].block]
  BY <1>1, InsertShape
<1>3. FindFile(hashes', head', k).state # "dangling"
  BY DEF FindFile, NoFile
<1>4. ASSUME NEW d \in Clients, held[d] = [state |-> "live", slot |-> s]
      PROVE  held'[d].state # "dangling"
  <2> DEFINE dangled == Dangle(held, {head[old]})
             found == FindFile(hashes', head', k)
  <2>1. dangled[d].state # "dangling"
    BY <1>1, <1>4, DangleKeepsOthers
  <2>2. dangled \in [Clients -> Handle]
    BY DangleShape
  <2>3. held' = dangled \/ held' = [dangled EXCEPT ![c] = found]
    OBVIOUS
  <2>4. found.state # "dangling"
    BY <1>3
  <2> HIDE DEF dangled, found
  <2>5. held'[d] = dangled[d] \/ held'[d] = found
    BY <2>2, <2>3
  <2> QED
    BY <2>1, <2>4, <2>5
<1> QED
  BY <1>2, <1>4 DEF FileKept

(* So does every call on files but removeFile() of the file itself.        *)
LEMMA CallKeepsFiles ==
    ASSUME IInv, Call, NEW s \in UsedSlots
    PROVE  FileKept(s) \/ \E c \in Clients : held[c].slot = s /\ RemoveEntry(c)
<1> TypeOK
  BY DEF IInv
<1>1. ASSUME NEW c \in Clients, NEW k \in Keys, NEW l \in Layouts, Add(c, k, l)
      PROVE  FileKept(s)
  BY <1>1, InsertKeepsFiles DEF Add, CanAdd
<1>2. ASSUME NEW k \in Keys, NEW l \in Layouts, AddThrows(k, l)
      PROVE  FileKept(s)
  BY <1>2, InsertKeepsFiles DEF AddThrows, CanAdd
<1>3. ASSUME NEW l \in Layouts, AddDataThrows(l) PROVE FileKept(s)
  <2>1. FirstFreeBlock \in FreeBlocks
    BY <1>3, FirstFreeBlockIsFree DEF AddDataThrows, CanAdd
  <2>2. hashes' = hashes /\ held' = held
    BY <1>3 DEF AddDataThrows
  <2>3. blocks'[hashes[s].block] = blocks[hashes[s].block]
    BY <1>3, <2>1, UsedEntriesAreSafe DEF AddDataThrows, TypeOK
  <2> QED
    BY <2>2, <2>3, UsedEntriesAreSafe DEF FileKept
<1>4. ASSUME NEW c \in Clients, RemoveEntry(c), held[c].slot # s PROVE FileKept(s)
  <2>1. held[c].slot \in UsedSlots
    BY <1>4, RemoveShape
  <2>2. hashes[s].block # hashes[held[c].slot].block
    BY <1>4, <2>1 DEF IInv, NoSharedBlock
  <2>3. blocks'[hashes[s].block] = blocks[hashes[s].block]
    BY <1>4, <2>2, RemoveShape, UsedEntriesAreSafe
  <2>4. s \in DOMAIN hashes' /\ hashes'[s] = hashes[s]
    BY <1>4, RemoveShape, UsedEntriesAreSafe
  <2>5. held' = held
    BY <1>4 DEF RemoveEntry
  <2> QED
    BY <2>3, <2>4, <2>5 DEF FileKept
<1>5. ASSUME UNCHANGED tables,
              NEW c \in Clients, NEW f, held' = [held EXCEPT ![c] = f], f.state # "dangling"
       PROVE  FileKept(s)
  <2>1. hashes' = hashes /\ blocks' = blocks
    BY <1>5 DEF tables
  <2>2. \A d \in Clients : held'[d] = held[d] \/ held'[d] = f
    BY <1>5 DEF TypeOK
  <2> QED
    BY <1>5, <2>1, <2>2, UsedEntriesAreSafe DEF FileKept
<1>6. ASSUME NEW c \in Clients, NEW k \in Keys, Find(c, k) PROVE FileKept(s)
  <2>1. FindFile(hashes, head, k).state # "dangling"
    BY DEF FindFile, NoFile
  <2> QED
    BY <1>5, <1>6, <2>1 DEF Find
<1>7. ASSUME NEW c \in Clients, CloseFile(c) PROVE FileKept(s)
  <2>1. NoFile.state # "dangling"
    BY DEF NoFile
  <2> QED
    BY <1>5, <1>7, <2>1 DEF CloseFile
<1>8. ASSUME UNCHANGED vars PROVE FileKept(s)
  <2>1. hashes' = hashes /\ blocks' = blocks /\ held' = held
    BY <1>8 DEF vars
  <2> QED
    BY <2>1, UsedEntriesAreSafe DEF FileKept
<1>9. CASE AddTooSmall \/ \E c \in Clients : RemoveRefused(c)
  BY <1>8, <1>9 DEF AddTooSmall, RemoveRefused
<1>10. CASE \E c \in Clients : RemoveEntry(c)
  BY <1>4, <1>10
<1> QED
  BY <1>1, <1>2, <1>3, <1>6, <1>7, <1>9, <1>10 DEF Call

-----------------------------------------------------------------------------
(* The space of the archive.                                               *)

(* A remainder is determined: adding before or after taking it is the same.*)
LEMMA RemainderUnique ==
    ASSUME NEW m \in Nat \ {0}, NEW q \in Int, NEW r \in 0 .. m - 1,
           NEW q2 \in Int, NEW r2 \in 0 .. m - 1, m * q + r = m * q2 + r2
    PROVE  r = r2
OBVIOUS
(* A number is its quotient by a modulus, that many times, and its         *)
(* remainder.                                                              *)
LEMMA Division ==
    ASSUME NEW m \in Nat \ {0}, NEW x \in Int
    PROVE  x % m \in 0 .. m - 1 /\ x \div m \in Int /\ x = m * (x \div m) + (x % m)
OBVIOUS
(* A sum wraps at the modulus whether or not a summand had wrapped before. *)
LEMMA AddRemainder ==
    ASSUME NEW m \in Nat \ {0}, NEW x \in Int, NEW b \in Int
    PROVE  ((x % m) + b) % m = (x + b) % m
<1>1. PICK q \in Int, r \in 0 .. m - 1 : x = m * q + r /\ x % m = r
  BY Division
<1>2. PICK q2 \in Int, r2 \in 0 .. m - 1 : r + b = m * q2 + r2 /\ (r + b) % m = r2
  <2>1. r + b \in Int
    OBVIOUS
  <2> QED
    BY <2>1, Division
<1>3. PICK q3 \in Int, r3 \in 0 .. m - 1 : x + b = m * q3 + r3 /\ (x + b) % m = r3
  <2>1. x + b \in Int
    OBVIOUS
  <2> QED
    BY <2>1, Division
<1>4. m * (q + q2) + r2 = m * q3 + r3 /\ q + q2 \in Int
  BY <1>1, <1>2, <1>3
<1>5. r2 = r3
  BY <1>4, RemainderUnique
<1> QED
  BY <1>1, <1>2, <1>3, <1>5

(* The sizes of blocks sum up in any order.                                *)
LEMMA BlockSumProperties ==
    ASSUME NEW bs \in Seq(Block), NEW T \in SUBSET DOMAIN bs
    PROVE  /\ BlockSum(bs, T) \in Nat
           /\ T = {} => BlockSum(bs, T) = 0
           /\ \A p \in T : BlockSum(bs, T) = bs[p].blockSize + BlockSum(bs, T \ {p})
<1> DEFINE f == [p \in DOMAIN bs |-> bs[p].blockSize]
<1>1. f \in [DOMAIN bs -> Nat]
  <2>1. \A p \in DOMAIN bs : bs[p] \in Block
    OBVIOUS
  <2>2. \A b \in Block : b.blockSize \in Nat
    BY DEF Block
  <2> QED
    BY <2>1, <2>2
<1>2. \A U : BlockSum(bs, U) = SumOver(f, U)
  BY Zenon DEF BlockSum, SumOver
<1>3. \A p \in DOMAIN bs : f[p] = bs[p].blockSize
  OBVIOUS
<1> HIDE DEF f
<1>4. IsFiniteSet(DOMAIN bs)
  BY FS_Interval, LenProperties
<1>5. /\ SumOver(f, T) \in Nat
      /\ T = {} => SumOver(f, T) = 0
      /\ \A p \in T : SumOver(f, T) = f[p] + SumOver(f, T \ {p})
  BY <1>1, <1>4, SumProperties
<1> QED
  BY <1>2, <1>3, <1>5
(* The sum over blocks depends only on their sizes.                        *)
LEMMA BlockSumSame ==
    ASSUME NEW bs \in Seq(Block), NEW bs2 \in Seq(Block), DOMAIN bs2 = DOMAIN bs,
           NEW T \in SUBSET DOMAIN bs, \A p \in T : bs2[p].blockSize = bs[p].blockSize
    PROVE  BlockSum(bs2, T) = BlockSum(bs, T)
<1> DEFINE f == [p \in DOMAIN bs |-> bs[p].blockSize]
           h == [p \in DOMAIN bs |-> bs2[p].blockSize]
<1>1. f \in [DOMAIN bs -> Nat] /\ h \in [DOMAIN bs -> Nat]
  <2>1. \A p \in DOMAIN bs : bs[p] \in Block /\ bs2[p] \in Block
    OBVIOUS
  <2>2. \A b \in Block : b.blockSize \in Nat
    BY DEF Block
  <2> QED
    BY <2>1, <2>2
<1>2. BlockSum(bs, T) = SumOver(f, T)
  BY Zenon DEF BlockSum, SumOver
<1>3. BlockSum(bs2, T) = SumOver([p \in DOMAIN bs2 |-> bs2[p].blockSize], T)
  BY Zenon DEF BlockSum, SumOver
<1>4. BlockSum(bs2, T) = SumOver(h, T)
  BY <1>3
<1>5. \A p \in T : f[p] = h[p]
  OBVIOUS
<1>6. IsFiniteSet(DOMAIN bs)
  BY FS_Interval, LenProperties
<1> HIDE DEF f, h
<1> QED
  BY <1>1, <1>2, <1>4, <1>5, <1>6, SumCongruence

(* The ways a step may change the tables.                                  *)
EmptyStep ==
    isOpen' = FALSE /\ blocks' = <<>> /\ hashes' = <<>> /\ bto' = 0 /\ hto' = 0 /\ size' = 0
InsertStep(old, k, l) ==
    /\ FreeBlocks # {} /\ old \in FreeKeys /\ k \in Keys /\ l \in Layouts
    /\ InsertFile(old, k, l)
    /\ UNCHANGED <<isOpen, bto, hto>>
    /\ size' = (size + l.blockSize) % SizeModulus \/ "tables" \in Failures
SameTables == UNCHANGED <<isOpen, blocks, hashes, bto, hto, size>>
(* What a step may do to the tables once no write of data fails.           *)
LEMMA StepKinds ==
    ASSUME [Next]_vars, "data" \notin Failures
    PROVE  \/ \E h, b \in TableSizes : Create(h, b)
           \/ "create" \in Failures /\ \E h, b \in TableSizes : CreateThrows(h, b)
           \/ \E im \in Images : Open(im)
           \/ EmptyStep
           \/ \E old, k, l : InsertStep(old, k, l)
           \/ \E c \in Clients : RemoveEntry(c)
           \/ SameTables
<1>1. CASE Restart
  BY <1>1 DEF Restart
<1>2. CASE Stop
  BY <1>2 DEF Stop, CreateThrows, OpenThrows, Close, Clear, AddCrashes, RemoveCrashes, Crash,
              EmptyStep
<1>3. ASSUME NEW c \in Clients, NEW k \in Keys, NEW l \in Layouts, Add(c, k, l)
      PROVE  \E old : InsertStep(old, k, l)
  BY <1>3 DEF Add, CanAdd, InsertStep
<1>4. ASSUME NEW k \in Keys, NEW l \in Layouts, AddThrows(k, l)
      PROVE  \E old : InsertStep(old, k, l)
  BY <1>4 DEF AddThrows, CanAdd, InsertStep
<1>5. ASSUME NEW l \in Layouts, AddDataThrows(l) PROVE FALSE
  BY <1>5 DEF AddDataThrows
<1>6. CASE UNCHANGED vars
  BY <1>6 DEF vars, SameTables
<1>7. ASSUME NEW c \in Clients, NEW k \in Keys, Find(c, k) PROVE SameTables
  BY <1>7 DEF Find, tables, SameTables
<1>8. ASSUME NEW c \in Clients, CloseFile(c) PROVE SameTables
  BY <1>8 DEF CloseFile, tables, SameTables
<1> QED
  BY <1>1, <1>2, <1>3, <1>4, <1>5, <1>6, <1>7, <1>8
     DEF Next, Call, AddTooSmall, RemoveRefused

(* create() puts free entries behind those it found.                       *)
LEMMA AppendShape ==
    ASSUME TypeOK, NEW b \in TableSizes, AppendEntries(b)
    PROVE  /\ blocks' \in Seq(Block) /\ hashes' \in Seq(Hash)
           /\ \A p \in DOMAIN blocks' :
                \/ ~isOpen /\ p \in DOMAIN blocks /\ blocks'[p] = blocks[p]
                \/ blocks'[p].offset = 0 /\ blocks'[p].blockSize = 0 /\ FreeBlock(blocks'[p])
           /\ ~isOpen => \A s \in DOMAIN hashes : s \in DOMAIN hashes' /\ hashes'[s] = hashes[s]
           /\ isOpen \/ (blocks = <<>> /\ hashes = <<>>)
                => Len(blocks') = b /\ Len(hashes') = b
<1> DEFINE keptBlocks == IF isOpen THEN <<>> ELSE blocks
           keptHashes == IF isOpen THEN <<>> ELSE hashes
           newBlocks == [i \in 1..b |-> NewBlock(i - 1)]
           newHashes == [i \in 1..b |-> NewHash]
<1>1. keptBlocks \in Seq(Block) /\ keptHashes \in Seq(Hash) /\ b \in Nat
  BY BoundsAssumption DEF TypeOK
<1>2. /\ newBlocks \in [1..b -> Block] /\ newHashes \in [1..b -> Hash]
      /\ \A i \in 1..b : /\ newBlocks[i].offset = 0 /\ newBlocks[i].blockSize = 0
                         /\ FreeBlock(newBlocks[i])
  BY <1>1 DEF NewBlock, NewHash, Block, Hash, Flags, NoBlock, FreeBlock, Unused, AllKeys
<1>3. blocks' = keptBlocks \o newBlocks /\ hashes' = keptHashes \o newHashes
  BY DEF AppendEntries
<1>4. isOpen => Len(keptBlocks) = 0 /\ Len(keptHashes) = 0
  OBVIOUS
<1>5. ~isOpen => keptBlocks = blocks /\ keptHashes = hashes
  OBVIOUS
<1> HIDE DEF keptBlocks, keptHashes, newBlocks, newHashes
<1>6. /\ blocks' \in Seq(Block) /\ Len(blocks') = Len(keptBlocks) + b
      /\ DOMAIN blocks' = 1..(Len(keptBlocks) + b)
      /\ \A i \in 1..(Len(keptBlocks) + b) :
            blocks'[i] = IF i <= Len(keptBlocks) THEN keptBlocks[i]
                                                 ELSE newBlocks[i - Len(keptBlocks)]
  BY <1>1, <1>2, <1>3, AppendNew
<1>7. /\ hashes' \in Seq(Hash) /\ Len(hashes') = Len(keptHashes) + b
      /\ DOMAIN hashes' = 1..(Len(keptHashes) + b)
      /\ \A i \in 1..(Len(keptHashes) + b) :
            hashes'[i] = IF i <= Len(keptHashes) THEN keptHashes[i]
                                                 ELSE newHashes[i - Len(keptHashes)]
  BY <1>1, <1>2, <1>3, AppendNew
<1>8. Len(keptBlocks) \in Nat /\ Len(keptHashes) \in Nat
  BY <1>1
<1>9. \A p \in DOMAIN blocks' :
         \/ ~isOpen /\ p \in DOMAIN blocks /\ blocks'[p] = blocks[p]
         \/ blocks'[p].offset = 0 /\ blocks'[p].blockSize = 0 /\ FreeBlock(blocks'[p])
  <2> SUFFICES ASSUME NEW p \in 1..(Len(keptBlocks) + b)
               PROVE  \/ ~isOpen /\ p \in DOMAIN blocks /\ blocks'[p] = blocks[p]
                      \/ /\ blocks'[p].offset = 0 /\ blocks'[p].blockSize = 0
                         /\ FreeBlock(blocks'[p])
    BY <1>6
  <2>1. CASE p <= Len(keptBlocks)
    BY <1>1, <1>4, <1>5, <1>6, <1>8, <2>1 DEF TypeOK
  <2>2. CASE p > Len(keptBlocks)
    <3>1. p - Len(keptBlocks) \in 1..b
      BY <1>1, <1>8, <2>2
    <3>2. blocks'[p] = newBlocks[p - Len(keptBlocks)]
      BY <1>6, <1>8, <2>2
    <3> QED
      BY <1>2, <3>1, <3>2
  <2> QED
    BY <1>8, <2>1, <2>2
<1>10. ~isOpen => \A s \in DOMAIN hashes : s \in DOMAIN hashes' /\ hashes'[s] = hashes[s]
  BY <1>1, <1>5, <1>7, <1>8 DEF TypeOK
<1>11. isOpen \/ (blocks = <<>> /\ hashes = <<>>) => Len(blocks') = b /\ Len(hashes') = b
  BY <1>1, <1>4, <1>5, <1>6, <1>7
<1> QED
  BY <1>6, <1>7, <1>9, <1>10, <1>11

(* addFile() never writes to the start of the file.                        *)
LEMMA DataAfterHeader ==
    ASSUME TypeOK, FreeKeys # {}
    PROVE  NextBlockOffset \in Nat /\ NextBlockOffset > 0
<1>1. blocks \in Seq(Block) /\ hashes \in Seq(Hash) /\ hto \in Nat
  BY DEF TypeOK
<1>2. \A p \in DOMAIN blocks : blocks[p].offset \in Nat /\ blocks[p].blockSize \in Nat
  <2>1. \A p \in DOMAIN blocks : blocks[p] \in Block
    BY <1>1
  <2> QED
    BY <2>1 DEF Block
<1>3. CASE OffsetBlocks = {}
  <2>1. Len(hashes) \in Nat /\ Len(hashes) # 0
    BY <1>1 DEF FreeKeys
  <2> QED
    BY <1>1, <1>3, <2>1 DEF NextBlockOffset, TablesEnd, EntrySize
<1>4. CASE OffsetBlocks # {}
  <2>1. LastOffsetBlock \in OffsetBlocks
    BY <1>4, LastOffsetBlockIsLast
  <2> QED
    BY <1>2, <1>4, <2>1 DEF NextBlockOffset, OffsetBlocks
<1> QED
  BY <1>3, <1>4

(* Blocks with data have an offset: those of removed files count as empty. *)
LEMMA DataHasOffsetStep ==
    ASSUME TypeOK, HeadsLeadGroups, OnlyHeadsFree, "data" \notin Failures,
           \A im \in Images : DataHasOffset(im.blocks),
           DataHasOffset(blocks), [Next]_vars
    PROVE  DataHasOffset(blocks')
<1>0. \A p \in DOMAIN blocks : blocks[p].blockSize > 0 => blocks[p].offset > 0
  BY DEF DataHasOffset
<1>1. ASSUME NEW b \in TableSizes, AppendEntries(b) PROVE DataHasOffset(blocks')
  BY <1>0, <1>1, AppendShape DEF DataHasOffset
<1>2. ASSUME NEW im \in Images, Open(im) PROVE DataHasOffset(blocks')
  BY <1>2 DEF Open
<1>3. CASE EmptyStep
  BY <1>3 DEF EmptyStep, DataHasOffset
<1>4. ASSUME NEW old, NEW k, NEW l, InsertStep(old, k, l) PROVE DataHasOffset(blocks')
  <2>1. /\ DOMAIN blocks' = DOMAIN blocks /\ blocks'[FirstFreeBlock].offset = NextBlockOffset
        /\ \A q \in DOMAIN blocks : q # FirstFreeBlock => blocks'[q] = blocks[q]
    BY <1>4, InsertShape DEF InsertStep
  <2>2. NextBlockOffset > 0
    BY <1>4, DataAfterHeader DEF InsertStep
  <2> QED
    BY <1>0, <2>1, <2>2 DEF DataHasOffset
<1>5. ASSUME NEW c \in Clients, RemoveEntry(c) PROVE DataHasOffset(blocks')
  BY <1>0, <1>5, RemoveShape DEF DataHasOffset
<1>6. CASE SameTables
  BY <1>6 DEF SameTables
<1> QED
  BY <1>1, <1>2, <1>3, <1>4, <1>5, <1>6, StepKinds DEF Create, CreateThrows

-----------------------------------------------------------------------------
(* Every block that is not free belongs to a file.                         *)
OwnInv == IInv /\ DataHasOffset(blocks) /\ NoLostBlock
LEMMA OwnStep ==
    ASSUME ImagesHoldFiles, FilesNotEmpty, ImagesOwnBlocks, "data" \notin Failures,
           OwnInv, [Next]_vars
    PROVE  OwnInv'
<1> TypeOK /\ HeadsLeadGroups /\ OnlyHeadsFree /\ NoSharedBlock /\ IInv
  BY DEF OwnInv, IInv
<1>1. IInv'
  BY NextInv
<1>2. DataHasOffset(blocks')
  BY DataHasOffsetStep DEF OwnInv, ImagesOwnBlocks
<1>3. \A p \in DOMAIN blocks : ~FreeBlock(blocks[p]) =>
          \E s \in DOMAIN hashes : ~FreeHash(hashes[s]) /\ hashes[s].block = p
  BY DEF OwnInv, NoLostBlock, TakenBlocks, UsedSlots
<1> DEFINE Owned(bs, hs) == \A p \in DOMAIN bs : ~FreeBlock(bs[p]) =>
                \E s \in DOMAIN hs : ~FreeHash(hs[s]) /\ hs[s].block = p
<1>4. ASSUME NEW b \in TableSizes, AppendEntries(b) PROVE Owned(blocks', hashes')
  <2> SUFFICES ASSUME NEW p \in DOMAIN blocks', ~FreeBlock(blocks'[p])
               PROVE  \E s \in DOMAIN hashes' : ~FreeHash(hashes'[s]) /\ hashes'[s].block = p
    OBVIOUS
  <2>1. ~isOpen /\ p \in DOMAIN blocks /\ blocks'[p] = blocks[p]
    BY <1>4, AppendShape
  <2>2. PICK s \in DOMAIN hashes : ~FreeHash(hashes[s]) /\ hashes[s].block = p
    BY <1>3, <2>1
  <2>3. s \in DOMAIN hashes' /\ hashes'[s] = hashes[s]
    BY <1>4, <2>1, AppendShape
  <2> QED
    BY <2>2, <2>3
<1>5. ASSUME NEW im \in Images, Open(im) PROVE Owned(blocks', hashes')
  BY <1>5 DEF Open, ImagesOwnBlocks
<1>6. ASSUME EmptyStep PROVE Owned(blocks', hashes')
  BY <1>6 DEF EmptyStep
<1>7. ASSUME NEW old, NEW k, NEW l, InsertStep(old, k, l) PROVE Owned(blocks', hashes')
  <2>1. /\ DOMAIN blocks' = DOMAIN blocks /\ DOMAIN hashes' = DOMAIN hashes
        /\ \A q \in DOMAIN blocks : q # FirstFreeBlock => blocks'[q] = blocks[q]
        /\ hashes'[head[old]] = [key |-> k, block |-> FirstFreeBlock, deleted |-> FALSE]
        /\ \A t \in DOMAIN hashes : t # head[old] => hashes'[t] = hashes[t]
    BY <1>7, InsertShape DEF InsertStep
  <2>2. FirstFreeBlock \in DOMAIN blocks /\ FirstFreeBlock # NoBlock
    BY <1>7, FirstFreeBlockIsFree, LenProperties DEF InsertStep, TypeOK, NoBlock
  <2>3. head[old] \in DOMAIN hashes /\ FreeHash(hashes[head[old]])
    BY <1>7, ReplacedEntryIsFree DEF InsertStep
  <2> SUFFICES ASSUME NEW p \in DOMAIN blocks', ~FreeBlock(blocks'[p])
               PROVE  \E s \in DOMAIN hashes' : ~FreeHash(hashes'[s]) /\ hashes'[s].block = p
    OBVIOUS
  <2>4. CASE p = FirstFreeBlock
    <3>1. ~FreeHash(hashes'[head[old]])
      BY <2>1, <2>2 DEF FreeHash, EmptyHash
    <3> QED
      BY <2>1, <2>3, <2>4, <3>1
  <2>5. CASE p # FirstFreeBlock
    <3>1. PICK s \in DOMAIN hashes : ~FreeHash(hashes[s]) /\ hashes[s].block = p
      BY <1>3, <2>1, <2>5
    <3>2. s # head[old]
      BY <2>3, <3>1
    <3> QED
      BY <2>1, <3>1, <3>2
  <2> QED
    BY <2>4, <2>5
<1>8. ASSUME NEW c \in Clients, RemoveEntry(c) PROVE Owned(blocks', hashes')
  <2> DEFINE r == held[c].slot
             b == hashes[r].block
  <2>1. /\ r \in UsedSlots /\ b \in DOMAIN blocks
        /\ DOMAIN blocks' = DOMAIN blocks /\ DOMAIN hashes' = DOMAIN hashes
        /\ \A q \in DOMAIN blocks : q # b => blocks'[q] = blocks[q]
        /\ blocks'[b].offset = blocks[b].offset /\ blocks'[b].blockSize = blocks[b].blockSize
        /\ blocks'[b].fileSize = 0 /\ blocks'[b].flags = "None"
        /\ \A t \in DOMAIN hashes : t # r => hashes'[t] = hashes[t]
    BY <1>8, RemoveShape
  <2>2. FreeBlock(blocks'[b])
    <3>1. blocks[b] \in Block
      BY <2>1 DEF TypeOK
    <3>2. blocks[b].blockSize \in Nat
      BY <3>1 DEF Block
    <3>3. blocks[b].blockSize > 0 => blocks[b].offset > 0
      BY <2>1 DEF OwnInv, DataHasOffset
    <3> HIDE DEF b
    <3> QED
      BY <2>1, <3>2, <3>3 DEF FreeBlock, Empty, Unused
  <2> SUFFICES ASSUME NEW p \in DOMAIN blocks', ~FreeBlock(blocks'[p])
               PROVE  \E s \in DOMAIN hashes' : ~FreeHash(hashes'[s]) /\ hashes'[s].block = p
    OBVIOUS
  <2>3. p # b /\ p \in DOMAIN blocks /\ ~FreeBlock(blocks[p])
    BY <2>1, <2>2
  <2>4. PICK s \in DOMAIN hashes : ~FreeHash(hashes[s]) /\ hashes[s].block = p
    BY <1>3, <2>3
  <2>5. s # r
    BY <2>3, <2>4
  <2> QED
    BY <2>1, <2>4, <2>5
<1>9. ASSUME SameTables PROVE Owned(blocks', hashes')
  BY <1>3, <1>9 DEF SameTables
<1>10. Owned(blocks', hashes')
  BY <1>4, <1>5, <1>6, <1>7, <1>8, <1>9, StepKinds DEF Create, CreateThrows
<1>11. NoLostBlock'
  BY <1>10 DEF NoLostBlock, TakenBlocks, UsedSlots
<1> QED
  BY <1>1, <1>2, <1>11 DEF OwnInv

-----------------------------------------------------------------------------
(* Two tables with entries at the same positions are equally long.         *)
LEMMA SameLen ==
    ASSUME NEW S, NEW T, NEW a \in Seq(S), NEW b \in Seq(T), DOMAIN a = DOMAIN b
    PROVE  Len(a) = Len(b)
<1>1. Len(a) \in Nat /\ DOMAIN a = 1..Len(a)
  BY LenProperties
<1>2. Len(b) \in Nat /\ DOMAIN b = 1..Len(b)
  BY LenProperties
<1>3. ASSUME NEW n \in Nat, NEW m \in Nat, 1..n = 1..m
      PROVE  n <= m
  <2>1. n = 0 \/ n \in 1..n
    BY <1>3
  <2>2. n = 0 \/ n \in 1..m
    BY <1>3, <2>1
  <2> QED
    BY <2>2
<1>4. PICK n \in Nat : n = Len(a) /\ DOMAIN a = 1..n
  BY <1>1
<1>5. PICK m \in Nat : m = Len(b) /\ DOMAIN b = 1..m
  BY <1>2
<1>6. 1..n = 1..m
  BY <1>4, <1>5
<1>7. n <= m
  BY <1>3, <1>6
<1>8. m <= n
  BY <1>3, <1>6
<1>9. n = m
  BY <1>7, <1>8
<1> QED
  BY <1>4, <1>5, <1>9, Zenon

(* A closed archive has empty tables if create() does not fail.            *)
EmptyWhenClosed == ~isOpen => blocks = <<>> /\ hashes = <<>>
LEMMA EmptyWhenClosedStep ==
    ASSUME EmptyWhenClosed, "data" \notin Failures, "create" \notin Failures, [Next]_vars
    PROVE  EmptyWhenClosed'
<1>1. ASSUME NEW h \in TableSizes, NEW b \in TableSizes, Create(h, b) PROVE isOpen'
  BY <1>1 DEF Create
<1>2. ASSUME NEW im \in Images, Open(im) PROVE isOpen'
  BY <1>2 DEF Open
<1>3. ASSUME NEW old, NEW k, NEW l, InsertStep(old, k, l) PROVE isOpen' = isOpen /\ FreeBlocks # {}
  BY <1>3 DEF InsertStep
<1>4. ASSUME NEW c \in Clients, RemoveEntry(c) PROVE EmptyWhenClosed'
  <2>1. CASE isOpen
    BY <1>4, <2>1 DEF RemoveEntry, EmptyWhenClosed
  <2>2. CASE ~isOpen
    BY <1>4, <2>2 DEF RemoveEntry, EmptyWhenClosed
  <2> QED
    BY <2>1, <2>2
<1>5. FreeBlocks # {} => isOpen
  BY DEF FreeBlocks, EmptyWhenClosed
<1>6. ASSUME EmptyStep PROVE EmptyWhenClosed'
  BY <1>6 DEF EmptyStep, EmptyWhenClosed
<1>7. ASSUME SameTables PROVE EmptyWhenClosed'
  BY <1>7 DEF SameTables, EmptyWhenClosed
<1>8. isOpen' => EmptyWhenClosed'
  BY DEF EmptyWhenClosed
<1> QED
  BY <1>1, <1>2, <1>3, <1>4, <1>5, <1>6, <1>7, <1>8, StepKinds

(* The data of two blocks never overlaps, and every block that was given an*)
(* offset has data there: without that, the block of greatest offset need  *)
(* not be the one whose data ends last.                                    *)
SpaceInv == IInv /\ DataHasOffset(blocks) /\ DataApart(blocks)

(* addFile() writes behind the data of every block.                        *)
LEMMA NextOffsetIsBehind ==
    ASSUME TypeOK, DataHasOffset(blocks), DataApart(blocks)
    PROVE  \A q \in DOMAIN blocks :
              blocks[q].offset > 0 => blocks[q].offset + blocks[q].blockSize <= NextBlockOffset
<1>1. \A p \in DOMAIN blocks : blocks[p].offset \in Nat /\ blocks[p].blockSize \in Nat
  <2>1. \A p \in DOMAIN blocks : blocks[p] \in Block
    BY DEF TypeOK
  <2> QED
    BY <2>1 DEF Block
<1>2. CASE OffsetBlocks = {}
  BY <1>2 DEF OffsetBlocks
<1>3. CASE OffsetBlocks # {}
  <2> DEFINE p == LastOffsetBlock
  <2>1. /\ p \in DOMAIN blocks /\ blocks[p].offset > 0
        /\ NextBlockOffset = blocks[p].offset + blocks[p].blockSize
    BY <1>3, LastOffsetBlockIsLast DEF OffsetBlocks, NextBlockOffset
  <2>2. \A q \in OffsetBlocks \ {p} : blocks[q].offset <= blocks[p].offset
    <3>1. OffsetBlocks \subseteq DOMAIN blocks
      BY DEF OffsetBlocks
    <3> QED
      BY <1>1, <1>3, <2>1, <3>1, LastOffsetBlockIsLast
  <2> HIDE DEF p
  <2>3. blocks[p].blockSize > 0
    BY <2>1 DEF DataApart
  <2>4. ASSUME NEW q \in DOMAIN blocks, blocks[q].offset > 0
        PROVE  blocks[q].offset + blocks[q].blockSize <= NextBlockOffset
    <3>1. CASE q = p
      BY <1>1, <2>1, <3>1
    <3>2. CASE q # p
      <4>1. blocks[q].offset <= blocks[p].offset /\ blocks[q].blockSize > 0
        BY <2>2, <2>4, <3>2 DEF OffsetBlocks, DataApart
      <4>2. Apart(blocks[q].offset, blocks[q].blockSize, blocks[p].offset, blocks[p].blockSize)
        BY <2>1, <3>2 DEF DataApart
      <4> QED
        BY <1>1, <2>1, <2>3, <4>1, <4>2 DEF Apart
    <3> QED
      BY <3>1, <3>2
  <2> QED
    BY <2>4
<1> QED
  BY <1>2, <1>3

(* Every step keeps the data of two blocks apart, wherever the tables are, *)
(* except for a write of a file's data that fails.                         *)
LEMMA SpaceStep ==
    ASSUME ImagesHoldFiles, FilesNotEmpty, ImagesDataApart, "data" \notin Failures,
           SpaceInv, [Next]_vars
    PROVE  SpaceInv'
<1> TypeOK /\ HeadsLeadGroups /\ OnlyHeadsFree /\ IInv /\ DataHasOffset(blocks) /\ DataApart(blocks)
  BY DEF SpaceInv, IInv
<1>1. IInv'
  BY NextInv
<1>2. DataHasOffset(blocks')
  BY DataHasOffsetStep DEF ImagesDataApart
<1>3. \A p \in DOMAIN blocks : blocks[p].offset \in Nat /\ blocks[p].blockSize \in Nat
  <2>1. \A p \in DOMAIN blocks : blocks[p] \in Block
    BY DEF TypeOK
  <2> QED
    BY <2>1 DEF Block
<1>4. ASSUME NEW b \in TableSizes, AppendEntries(b) PROVE DataApart(blocks')
  <2>1. \A p \in DOMAIN blocks' : \/ p \in DOMAIN blocks /\ blocks'[p] = blocks[p]
                                  \/ blocks'[p].offset = 0 /\ blocks'[p].blockSize = 0
    BY <1>4, AppendShape
  <2>2. \A p \in DOMAIN blocks' : blocks'[p].offset > 0 => blocks'[p].blockSize > 0
    BY <2>1 DEF DataApart
  <2>3. ASSUME NEW p \in DOMAIN blocks', NEW q \in DOMAIN blocks' \ {p}
        PROVE  Apart(blocks'[p].offset, blocks'[p].blockSize, blocks'[q].offset, blocks'[q].blockSize)
    <3>1. CASE blocks'[p].blockSize = 0 \/ blocks'[q].blockSize = 0
      BY <3>1 DEF Apart
    <3>2. CASE blocks'[p].blockSize # 0 /\ blocks'[q].blockSize # 0
      <4>1. p \in DOMAIN blocks /\ q \in DOMAIN blocks \ {p}
        BY <2>1, <3>2
      <4>2. blocks'[p] = blocks[p] /\ blocks'[q] = blocks[q]
        BY <2>1, <3>2
      <4> QED
        BY <4>1, <4>2 DEF DataApart
    <3> QED
      BY <3>1, <3>2
  <2> QED
    BY <2>2, <2>3 DEF DataApart
<1>5. ASSUME NEW im \in Images, Open(im) PROVE DataApart(blocks')
  BY <1>5 DEF Open, ImagesDataApart
<1>6. ASSUME EmptyStep PROVE DataApart(blocks')
  BY <1>6 DEF EmptyStep, DataApart
<1>7. ASSUME NEW old, NEW k, NEW l, InsertStep(old, k, l) PROVE DataApart(blocks')
  <2> DEFINE f == FirstFreeBlock
  <2>1. /\ DOMAIN blocks' = DOMAIN blocks
        /\ blocks'[f].offset = NextBlockOffset /\ blocks'[f].blockSize = l.blockSize
        /\ \A q \in DOMAIN blocks : q # f => blocks'[q] = blocks[q]
    BY <1>7, InsertShape DEF InsertStep
  <2> HIDE DEF f
  <2>2. l.blockSize \in Nat /\ l.blockSize > 0
    BY <1>7, LayoutsAssumption DEF InsertStep, FilesNotEmpty, Layout
  <2>3. \A q \in DOMAIN blocks :
           blocks[q].offset > 0 => blocks[q].offset + blocks[q].blockSize <= NextBlockOffset
    BY NextOffsetIsBehind
  <2>4. NextBlockOffset \in Nat
    BY <1>7, DataAfterHeader DEF InsertStep
  <2>5. \A p \in DOMAIN blocks : blocks'[p].offset > 0 => blocks'[p].blockSize > 0
    BY <2>1, <2>2 DEF DataApart
  <2>6. \A q \in DOMAIN blocks : blocks[q].blockSize > 0 => blocks[q].offset > 0
    BY DEF DataHasOffset
  <2>7. ASSUME NEW p \in DOMAIN blocks, NEW q \in DOMAIN blocks \ {p}
        PROVE  Apart(blocks'[p].offset, blocks'[p].blockSize, blocks'[q].offset, blocks'[q].blockSize)
    <3>1. CASE p # f /\ q # f
      BY <2>1, <3>1 DEF DataApart
    <3>2. CASE p = f
      BY <1>3, <2>1, <2>2, <2>3, <2>4, <2>6, <3>2 DEF Apart
    <3>3. CASE q = f
      BY <1>3, <2>1, <2>2, <2>3, <2>4, <2>6, <3>3 DEF Apart
    <3> QED
      BY <3>1, <3>2, <3>3
  <2> QED
    BY <2>1, <2>5, <2>7 DEF DataApart
<1>8. ASSUME NEW c \in Clients, RemoveEntry(c) PROVE DataApart(blocks')
  <2>1. /\ DOMAIN blocks' = DOMAIN blocks
        /\ \A q \in DOMAIN blocks : /\ blocks'[q].offset = blocks[q].offset
                                    /\ blocks'[q].blockSize = blocks[q].blockSize
    BY <1>8, RemoveShape
  <2> QED
    BY <2>1 DEF DataApart
<1>9. ASSUME SameTables PROVE DataApart(blocks')
  BY <1>9 DEF SameTables
<1>10. DataApart(blocks')
  BY <1>4, <1>5, <1>6, <1>7, <1>8, <1>9, StepKinds DEF Create, CreateThrows
<1> QED
  BY <1>1, <1>2, <1>10 DEF SpaceInv

-----------------------------------------------------------------------------
(* The size of the archive is that of its header, tables and files.        *)
SizeInv == IInv /\ EmptyWhenClosed /\ DataHasOffset(blocks) /\ SizeAdds

(* Every step keeps m_size the sum of what the archive holds.              *)
LEMMA SizeStep ==
    ASSUME ImagesHoldFiles, FilesNotEmpty, ImagesSizeAdds, Failures \subseteq {"header"},
           SizeInv, [Next]_vars
    PROVE  SizeInv'
<1> TypeOK /\ HeadsLeadGroups /\ OnlyHeadsFree /\ NoSharedBlock /\ IInv
  BY DEF SizeInv, IInv
<1>0. "data" \notin Failures /\ "create" \notin Failures /\ "tables" \notin Failures
  OBVIOUS
<1>1. IInv'
  BY NextInv
<1>2. DataHasOffset(blocks')
  BY <1>0, DataHasOffsetStep DEF SizeInv, ImagesSizeAdds
<1>3. EmptyWhenClosed'
  BY <1>0, EmptyWhenClosedStep DEF SizeInv
<1> DEFINE M == SizeModulus
           T == TakenBlocks
           Total == TablesSize(blocks, hashes) + BlockSum(blocks, T)
<1>4. blocks \in Seq(Block) /\ hashes \in Seq(Hash) /\ M \in Nat \ {0} /\ T \in SUBSET DOMAIN blocks
  BY BoundsAssumption DEF TypeOK, TakenBlocks
<1>5. isOpen => size = Total % M
  BY DEF SizeInv, SizeAdds
<1>6. TablesSize(blocks, hashes) \in Nat /\ BlockSum(blocks, T) \in Nat /\ Total \in Nat
  BY <1>4, BlockSumProperties DEF TablesSize, HeaderSize, EntrySize
<1>7. ASSUME NEW h \in TableSizes, NEW b \in TableSizes, Create(h, b) PROVE SizeAdds'
  <2>1. isOpen \/ (blocks = <<>> /\ hashes = <<>>)
    BY DEF SizeInv, EmptyWhenClosed
  <2>2. /\ blocks' \in Seq(Block) /\ Len(blocks') = b /\ Len(hashes') = b /\ b \in Nat
        /\ \A p \in DOMAIN blocks' : FreeBlock(blocks'[p])
    BY <1>7, <2>1, AppendShape, BoundsAssumption DEF Create
  <2>3. TakenBlocks' = {}
    BY <2>2 DEF TakenBlocks
  <2>4. BlockSum(blocks', TakenBlocks') = 0
    BY <2>2, <2>3, BlockSumProperties
  <2>5. TablesSize(blocks', hashes') + 0 = HeaderSize + 2 * b * EntrySize
    BY <2>2 DEF TablesSize, HeaderSize, EntrySize
  <2>6. size' = (HeaderSize + 2 * b * EntrySize) % M
    BY <1>7, <2>2 DEF Create, CreatedSize
  <2> QED
    BY <2>4, <2>5, <2>6 DEF SizeAdds
<1>8. ASSUME NEW im \in Images, Open(im) PROVE SizeAdds'
  <2>1. blocks' = im.blocks /\ hashes' = im.hashes /\ size' = im.size % M
    BY <1>8 DEF Open
  <2>2. TakenBlocks' = {p \in DOMAIN im.blocks : ~FreeBlock(im.blocks[p])}
    BY <2>1 DEF TakenBlocks
  <2>3. im.size = TablesSize(im.blocks, im.hashes)
                    + BlockSum(im.blocks, {p \in DOMAIN im.blocks : ~FreeBlock(im.blocks[p])})
    BY DEF ImagesSizeAdds
  <2> QED
    BY <2>1, <2>2, <2>3 DEF SizeAdds
<1>9. ASSUME EmptyStep PROVE SizeAdds'
  BY <1>9 DEF EmptyStep, SizeAdds
<1>10. ASSUME NEW old, NEW k, NEW l, InsertStep(old, k, l) PROVE SizeAdds'
  <2> DEFINE f == FirstFreeBlock
  <2>1. /\ blocks' \in Seq(Block) /\ hashes' \in Seq(Hash)
        /\ DOMAIN blocks' = DOMAIN blocks /\ DOMAIN hashes' = DOMAIN hashes
        /\ blocks'[f].blockSize = l.blockSize /\ blocks'[f].fileSize = l.fileSize
        /\ blocks'[f].flags = l.flags
        /\ \A q \in DOMAIN blocks : q # f => blocks'[q] = blocks[q]
    BY <1>10, InsertShape DEF InsertStep
  <2>2. TablesSize(blocks', hashes') = TablesSize(blocks, hashes)
    <3>1. Len(blocks') = Len(blocks)
      BY <1>4, <2>1, SameLen
    <3>2. Len(hashes') = Len(hashes)
      BY <1>4, <2>1, SameLen
    <3> QED
      BY <3>1, <3>2 DEF TablesSize
  <2>3. f \in DOMAIN blocks /\ f \in FreeBlocks
    BY <1>10, FirstFreeBlockIsFree DEF InsertStep
  <2>4. l.blockSize \in Nat /\ l.blockSize > 0 /\ (l.fileSize > 0 \/ l.flags # "None")
        /\ l.fileSize \in Nat
    BY <1>10, LayoutsAssumption DEF InsertStep, FilesNotEmpty, Layout
  <2> HIDE DEF f
  <2>5. ~FreeBlock(blocks'[f]) /\ f \notin T
    BY <2>1, <2>3, <2>4 DEF FreeBlock, Empty, Unused, FreeBlocks, TakenBlocks
  <2>6. TakenBlocks' = T \union {f}
    BY <2>1, <2>3, <2>5 DEF TakenBlocks
  <2>7. TakenBlocks' \ {f} = T /\ f \in TakenBlocks' /\ TakenBlocks' \in SUBSET DOMAIN blocks'
    BY <1>4, <2>1, <2>3, <2>5, <2>6
  <2>8. BlockSum(blocks', TakenBlocks') = l.blockSize + BlockSum(blocks', T)
    BY <2>1, <2>7, BlockSumProperties
  <2>9. BlockSum(blocks', T) = BlockSum(blocks, T)
    <3>1. \A p \in T : blocks'[p].blockSize = blocks[p].blockSize
      BY <1>4, <2>1, <2>5
    <3> QED
      BY <1>4, <2>1, <3>1, BlockSumSame
  <2>10. isOpen /\ isOpen' = isOpen
    BY <1>10 DEF InsertStep, SizeInv, EmptyWhenClosed, FreeBlocks
  <2>11. size' = (size + l.blockSize) % M
    BY <1>0, <1>10 DEF InsertStep
  <2>12. size' = (Total + l.blockSize) % M
    <3>1. Total \in Int /\ l.blockSize \in Int /\ M \in Nat \ {0} /\ size = Total % M
      BY <1>4, <1>5, <1>6, <2>4, <2>10
    <3> HIDE DEF M, Total
    <3>2. ((Total % M) + l.blockSize) % M = (Total + l.blockSize) % M
      BY <3>1, AddRemainder
    <3> QED
      BY <2>11, <3>1, <3>2
  <2>13. TablesSize(blocks', hashes') + BlockSum(blocks', TakenBlocks') = Total + l.blockSize
    BY <1>6, <2>2, <2>4, <2>8, <2>9
  <2> QED
    BY <2>12, <2>13 DEF SizeAdds
<1>11. ASSUME NEW c \in Clients, RemoveEntry(c) PROVE SizeAdds'
  <2> DEFINE r == held[c].slot
             b == hashes[r].block
  <2>1. /\ r \in UsedSlots /\ b \in DOMAIN blocks
        /\ blocks' \in Seq(Block) /\ hashes' \in Seq(Hash)
        /\ DOMAIN blocks' = DOMAIN blocks /\ DOMAIN hashes' = DOMAIN hashes
        /\ \A q \in DOMAIN blocks : q # b => blocks'[q] = blocks[q]
        /\ blocks'[b].offset = blocks[b].offset /\ blocks'[b].blockSize = blocks[b].blockSize
        /\ blocks'[b].fileSize = 0 /\ blocks'[b].flags = "None"
    BY <1>11, RemoveShape
  <2>2. size' = (size - blocks[b].blockSize) % M /\ isOpen' = isOpen
    BY <1>11 DEF RemoveEntry
  <2>3. b \in T
    BY <2>1 DEF NoSharedBlock
  <2>4. blocks[b].blockSize \in Nat /\ (blocks[b].blockSize > 0 => blocks[b].offset > 0)
    <3>1. blocks[b] \in Block
      BY <1>4, <2>1
    <3> QED
      BY <2>1, <3>1 DEF Block, SizeInv, DataHasOffset
  <2> HIDE DEF b, r
  <2>5. FreeBlock(blocks'[b])
    BY <2>1, <2>4 DEF FreeBlock, Empty, Unused
  <2>6. TakenBlocks' = T \ {b}
    BY <2>1, <2>5 DEF TakenBlocks
  <2>7. BlockSum(blocks', T \ {b}) = BlockSum(blocks, T \ {b})
    <3>1. \A p \in T \ {b} : blocks'[p].blockSize = blocks[p].blockSize
      BY <1>4, <2>1
    <3> QED
      BY <1>4, <2>1, <3>1, BlockSumSame
  <2>8. /\ BlockSum(blocks, T) = blocks[b].blockSize + BlockSum(blocks, T \ {b})
        /\ BlockSum(blocks, T \ {b}) \in Nat
    BY <1>4, <2>3, BlockSumProperties
  <2>9. TablesSize(blocks', hashes') = TablesSize(blocks, hashes)
    <3>1. Len(blocks') = Len(blocks)
      BY <1>4, <2>1, SameLen
    <3>2. Len(hashes') = Len(hashes)
      BY <1>4, <2>1, SameLen
    <3> QED
      BY <3>1, <3>2 DEF TablesSize
  <2>10. isOpen
    BY <2>1 DEF SizeInv, EmptyWhenClosed
  <2>11. size' = (Total + (0 - blocks[b].blockSize)) % M
    <3>1. size \in Int /\ 0 - blocks[b].blockSize \in Int
      BY <2>4, BoundsAssumption DEF TypeOK
    <3>2. size - blocks[b].blockSize = size + (0 - blocks[b].blockSize)
      BY <2>4, <3>1
    <3>3. Total \in Int /\ M \in Nat \ {0} /\ size = Total % M
      BY <1>4, <1>5, <1>6, <2>10
    <3> HIDE DEF M, Total
    <3>4. ((Total % M) + (0 - blocks[b].blockSize)) % M = (Total + (0 - blocks[b].blockSize)) % M
      BY <3>1, <3>3, AddRemainder
    <3> QED
      BY <2>2, <3>2, <3>3, <3>4
  <2>12. TablesSize(blocks', hashes') + BlockSum(blocks', TakenBlocks')
           = Total + (0 - blocks[b].blockSize)
    BY <1>6, <2>4, <2>6, <2>7, <2>8, <2>9
  <2> QED
    BY <2>11, <2>12 DEF SizeAdds
<1>12. ASSUME SameTables PROVE SizeAdds'
  BY <1>5, <1>12 DEF SameTables, SizeAdds, TakenBlocks
<1>13. SizeAdds'
  BY <1>0, <1>7, <1>8, <1>9, <1>10, <1>11, <1>12, StepKinds
<1> QED
  BY <1>1, <1>2, <1>3, <1>13 DEF SizeInv
-----------------------------------------------------------------------------
(* The theorems.                                                           *)

(* The inductive invariant holds in every state of every behaviour.        *)
THEOREM Invariance ==
    ASSUME ImagesHoldFiles, FilesNotEmpty
    PROVE  Spec => []IInv
<1>1. Init => IInv
  BY InitInv
<1>2. IInv /\ [Next]_vars => IInv'
  BY NextInv
<1> QED
  BY <1>1, <1>2, PTL DEF Spec

(* The tables always have their types.                                     *)
THEOREM TablesTypeCorrect ==
    ASSUME ImagesHoldFiles, FilesNotEmpty
    PROVE  Spec => []TypeOK
<1>1. IInv => TypeOK
  BY DEF IInv
<1> QED
  BY <1>1, Invariance, PTL

(* find() always returns a Hash of the very path it is asked for, and only *)
(* that one can be free: addFile() never replaces the entry of a file.     *)
THEOREM FreeEntriesAreFound ==
    ASSUME ImagesHoldFiles, FilesNotEmpty
    PROVE  Spec => [](HeadsLeadGroups /\ OnlyHeadsFree)
<1>1. IInv => HeadsLeadGroups /\ OnlyHeadsFree
  BY DEF IInv
<1> QED
  BY <1>1, Invariance, PTL

(* removeFile() frees the entry its File was found under.                  *)
THEOREM HandlesAlwaysLead ==
    ASSUME ImagesHoldFiles, FilesNotEmpty
    PROVE  Spec => []HandlesLead
<1>1. IInv => HandlesLead
  BY DEF IInv
<1> QED
  BY <1>1, Invariance, PTL

(* No two files own one block.                                             *)
THEOREM BlocksAreNotShared ==
    ASSUME ImagesHoldFiles, FilesNotEmpty
    PROVE  Spec => []NoSharedBlock
<1>1. IInv => NoSharedBlock
  BY DEF IInv
<1> QED
  BY <1>1, Invariance, PTL

(* No call, successful or failing, touches the entries of another file.    *)
THEOREM OtherFilesAreKept ==
    ASSUME ImagesHoldFiles, FilesNotEmpty
    PROVE  Spec => FilesKept
<1>1. IInv =>
        [\/ \A s \in UsedSlots :
              FileKept(s) \/ \E c \in Clients : held[c].slot = s /\ RemoveEntry(c)
         \/ ~Call]_vars
  BY CallKeepsFiles
<1> QED
  BY <1>1, Invariance, PTL DEF FilesKept

(* A block that is not free belongs to a file: of the calls only one that  *)
(* cannot write the data of a file loses a block.                          *)
THEOREM NoBlockIsLost ==
    ASSUME ImagesHoldFiles, FilesNotEmpty, ImagesOwnBlocks, "data" \notin Failures
    PROVE  Spec => []NoLostBlock
<1>1. Init => OwnInv
  BY InitInv DEF Init, OwnInv, DataHasOffset, NoLostBlock, TakenBlocks
<1>2. OwnInv /\ [Next]_vars => OwnInv'
  BY OwnStep
<1>3. OwnInv => NoLostBlock
  BY DEF OwnInv
<1> QED
  BY <1>1, <1>2, <1>3, PTL DEF Spec

(* addFile() writes the data of a file to space no other file, removed or  *)
(* not, has its data in, wherever the tables of the archive are and        *)
(* whatever fails, except the write of that data itself.                   *)
THEOREM DataIsApart ==
    ASSUME ImagesHoldFiles, FilesNotEmpty, ImagesDataApart, "data" \notin Failures
    PROVE  Spec => []NoOverlap
<1>1. Init => SpaceInv
  BY InitInv DEF Init, SpaceInv, DataHasOffset, DataApart
<1>2. SpaceInv /\ [Next]_vars => SpaceInv'
  BY SpaceStep
<1>3. SpaceInv => NoOverlap
  BY DEF SpaceInv, DataApart, NoOverlap
<1> QED
  BY <1>1, <1>2, <1>3, PTL DEF Spec

(* size() counts the header, the tables and the data of the files, however *)
(* many were added, removed and put in place of removed ones, and with the *)
(* width of m_size taken into account.                                     *)
THEOREM SizeIsSum ==
    ASSUME ImagesHoldFiles, FilesNotEmpty, ImagesSizeAdds, Failures \subseteq {"header"}
    PROVE  Spec => []SizeAdds
<1>1. Init => SizeInv
  BY InitInv DEF Init, SizeInv, EmptyWhenClosed, DataHasOffset, SizeAdds
<1>2. SizeInv /\ [Next]_vars => SizeInv'
  BY SizeStep
<1>3. SizeInv => SizeAdds
  BY DEF SizeInv
<1> QED
  BY <1>1, <1>2, <1>3, PTL DEF Spec

-----------------------------------------------------------------------------
(* The refinement.  Each path has one entry.                               *)
OneEntry == \A k \in Keys : Cardinality(Group(hashes, k)) <= 1
OneInv == IInv /\ OneEntry

-----------------------------------------------------------------------------
(* What is stored under a path.                                            *)

FilesUnder(k) == {s \in UsedSlots : hashes[s].key = k}

StoredOK(k) ==
    /\ \A s \in FilesUnder(k) :
         isOpen => Stored(k) = blocks[hashes[s].block] /\ Stored(k) # NoContent
    /\ FilesUnder(k) = {} \/ ~isOpen => Stored(k) = NoContent

PathsApart == \A k \in Keys : \A s, t \in Group(hashes, k) : s = t
AllStored == \A k \in Keys : StoredOK(k)

(* Two entries of one path are the same.                                   *)
LEMMA EntriesOfPath ==
    ASSUME OneInv, NEW s \in DOMAIN hashes, NEW t \in DOMAIN hashes,
           hashes[s].key \in Keys, hashes[t].key = hashes[s].key
    PROVE  s = t
<1> DEFINE G == Group(hashes, hashes[s].key)
<1> SUFFICES ASSUME s # t PROVE FALSE
  OBVIOUS
<1>1. IsFiniteSet(DOMAIN hashes)
  BY LenProperties, FS_Interval DEF OneInv, IInv, TypeOK
<1>2. IsFiniteSet(G) /\ {s, t} \subseteq G
  BY <1>1, FS_Subset DEF Group
<1>3. Cardinality(G) \in Nat /\ Cardinality({s, t}) <= Cardinality(G)
  BY <1>2, FS_Subset, FS_CardinalityType
<1>4. Cardinality({s, t}) = 2
  <2>1. IsFiniteSet({s}) /\ Cardinality({s}) = 1 /\ t \notin {s}
    BY FS_Singleton
  <2>2. Cardinality({s} \union {t}) = Cardinality({s}) + 1
    BY <2>1, FS_AddElement
  <2>3. {s} \union {t} = {s, t}
    OBVIOUS
  <2> QED
    BY <2>1, <2>2, <2>3
<1>5. Cardinality(G) <= 1
  BY DEF OneInv, OneEntry
<1> QED
  BY <1>3, <1>4, <1>5

(* So they are in every state.                                             *)
LEMMA PathsAreApart == OneInv => PathsApart
BY EntriesOfPath DEF PathsApart, Group

(* The same after a step.                                                  *)
LEMMA EntriesOfPathNext ==
    ASSUME OneInv', NEW k \in Keys, NEW s \in Group(hashes', k), NEW t \in Group(hashes', k)
    PROVE  s = t
<1>1. OneInv' => PathsApart'
  BY PathsAreApart, PTL
<1> QED
  BY <1>1 DEF PathsApart

(* The path of a used entry is a path, its block a block of the table.     *)
LEMMA UsedShape ==
    ASSUME IInv, NEW s \in UsedSlots
    PROVE  /\ s \in DOMAIN hashes /\ hashes[s].key \in Keys
           /\ hashes[s].block \in DOMAIN blocks /\ blocks[hashes[s].block] \in Block
           /\ ~FreeHash(hashes[s])
<1>1. s \in DOMAIN hashes /\ ~FreeHash(hashes[s]) /\ hashes[s].block \in DOMAIN blocks
  BY DEF IInv, NoSharedBlock, UsedSlots, TakenBlocks
<1>2. blocks[hashes[s].block] \in Block
  BY <1>1, LenProperties, ElementOfSeq DEF IInv, TypeOK
<1> QED
  BY <1>1, <1>2 DEF IInv, OnlyHeadsFree

(* find() of a path finds its file, if there is one.                       *)
LEMMA StoredIsFile == OneInv => AllStored
<1> SUFFICES ASSUME OneInv, NEW k \in Keys PROVE StoredOK(k)
  BY DEF AllStored
<1>1. IInv /\ k \in AllKeys
  BY DEF OneInv, AllKeys
<1>2. ASSUME NEW s \in FilesUnder(k), isOpen
      PROVE  Stored(k) = blocks[hashes[s].block] /\ Stored(k) # NoContent
  <2>1. s \in UsedSlots /\ hashes[s].key = k
    BY <1>2 DEF FilesUnder
  <2>2. s \in DOMAIN hashes /\ blocks[hashes[s].block] \in Block /\ ~FreeHash(hashes[s])
    BY <1>1, <2>1, UsedShape
  <2>3. head[k] \in DOMAIN hashes /\ hashes[head[k]].key = k
    BY <1>1, <2>1, <2>2 DEF IInv, HeadsLeadGroups, Group
  <2>4. head[k] = s
    BY <2>1, <2>2, <2>3, EntriesOfPath
  <2>5. s # NoSlot
    BY <2>2, LenProperties, <1>1 DEF NoSlot, IInv, TypeOK
  <2>6. Stored(k) = blocks[hashes[s].block]
    BY <1>2, <2>2, <2>4, <2>5 DEF Stored, FindFile
  <2>7. \A b \in Block : b # NoContent
    BY DEF Block, NoContent
  <2> QED
    BY <2>2, <2>6, <2>7
<1>3. ASSUME FilesUnder(k) = {} \/ ~isOpen
      PROVE  Stored(k) = NoContent
  <2>1. CASE ~isOpen
    BY <2>1 DEF Stored
  <2>2. CASE FilesUnder(k) = {}
    <3>1. head[k] = NoSlot \/ FreeHash(hashes[head[k]])
      BY <1>1, <2>2 DEF FilesUnder, UsedSlots, IInv, HeadsLeadGroups, Group
    <3> QED
      BY <3>1 DEF Stored, FindFile, NoFile
  <2> QED
    BY <1>3, <2>1, <2>2
<1> QED
  BY <1>2, <1>3 DEF StoredOK

(* So it does after a step.                                                *)
LEMMA StoredIsFileNext == OneInv' => AllStored'
BY StoredIsFile, PTL

-----------------------------------------------------------------------------
(* Steps.                                                                  *)

(* A path whose entry and block stay keeps its file.                       *)
LEMMA SameFile ==
    ASSUME OneInv, OneInv', isOpen' = isOpen, NEW k \in Keys,
           FilesUnder(k)' = FilesUnder(k),
           \A s \in FilesUnder(k) : /\ hashes'[s].block = hashes[s].block
                                    /\ blocks'[hashes[s].block] = blocks[hashes[s].block]
    PROVE  Stored(k)' = Stored(k)
<1>1. StoredOK(k) /\ StoredOK(k)'
  BY StoredIsFile, StoredIsFileNext DEF AllStored
<1>2. CASE isOpen /\ FilesUnder(k) # {}
  <2>1. PICK s \in FilesUnder(k) : TRUE
    BY <1>2
  <2>2. Stored(k) = blocks[hashes[s].block] /\ Stored(k)' = blocks'[hashes'[s].block]
    BY <1>1, <1>2, <2>1 DEF StoredOK
  <2> QED
    BY <2>1, <2>2
<1>3. CASE ~isOpen \/ FilesUnder(k) = {}
  BY <1>1, <1>3 DEF StoredOK
<1> QED
  BY <1>2, <1>3

(* While the archive is closed no path has a file.                         *)
LEMMA ClosedShowsNothing ==
    ~isOpen => [k \in Keys |-> Stored(k)] = Files!Nothing
BY DEF Stored, Files!Nothing

(* The same after a step.                                                  *)
LEMMA ClosedShowsNothingNext ==
    ~isOpen' => [k \in Keys |-> Stored(k)]' = Files!Nothing
BY DEF Stored, Files!Nothing

(* addFile() puts a file under its path, where none was.                   *)
LEMMA InsertPuts ==
    ASSUME OneInv, OneInv', FreeBlocks # {}, UNCHANGED <<isOpen, session>>,
           NEW k \in Keys, NEW l \in Layouts, NEW old \in FreeKeys, InsertFile(old, k, l)
    PROVE  Files!Put(k) \/ UNCHANGED <<isOpen, [j \in Keys |-> Stored(j)], session>>
<1> DEFINE h == head[old]
           C == [j \in Keys |-> Stored(j)]
<1> IInv /\ TypeOK /\ HeadsLeadGroups /\ OnlyHeadsFree
  BY DEF OneInv, IInv
<1>1. /\ DOMAIN hashes' = DOMAIN hashes
      /\ hashes'[h] = [key |-> k, block |-> FirstFreeBlock, deleted |-> FALSE]
      /\ \A t \in DOMAIN hashes : t # h => hashes'[t] = hashes[t]
      /\ \A q \in DOMAIN blocks : q # FirstFreeBlock => blocks'[q] = blocks[q]
  BY InsertShape
<1>2. /\ h \in DOMAIN hashes /\ FreeHash(hashes[h]) /\ h \notin UsedSlots
      /\ FirstFreeBlock \in FreeBlocks /\ FirstFreeBlock # NoBlock
  <2>1. h \in DOMAIN hashes /\ FreeHash(hashes[h]) /\ h \notin UsedSlots
    BY ReplacedEntryIsFree DEF UsedSlots
  <2>2. FirstFreeBlock \in FreeBlocks /\ FirstFreeBlock \in DOMAIN blocks
    BY FirstFreeBlockIsFree
  <2>3. NoBlock \notin DOMAIN blocks
    BY LenProperties DEF TypeOK, NoBlock
  <2> QED
    BY <2>1, <2>2, <2>3
<1>3. UsedSlots' = UsedSlots \union {h}
  <2>1. ~FreeHash(hashes'[h])
    BY <1>1, <1>2 DEF FreeHash, EmptyHash
  <2> QED
    BY <1>1, <1>2, <2>1 DEF UsedSlots
<1>4. \A s \in UsedSlots : /\ s # h /\ hashes'[s] = hashes[s]
                           /\ blocks'[hashes[s].block] = blocks[hashes[s].block]
  BY <1>1, <1>2, UsedEntriesAreSafe
<1>5. h \in FilesUnder(k)'
  BY <1>1, <1>3 DEF FilesUnder
<1>6. FilesUnder(k) = {}
  <2> SUFFICES ASSUME NEW s \in FilesUnder(k) PROVE FALSE
    OBVIOUS
  <2>1. s \in UsedSlots /\ hashes[s].key = k /\ s \in DOMAIN hashes
    BY DEF FilesUnder, UsedSlots
  <2>2. Group(hashes', k) = Group(hashes, k) \union {h}
    BY <1>1, <1>2 DEF Group
  <2>3. s \in Group(hashes', k) /\ h \in Group(hashes', k) /\ s # h
    BY <1>1, <1>4, <2>1, <2>2 DEF Group
  <2> QED
    BY <2>3, EntriesOfPathNext
<1>7. ASSUME NEW j \in Keys \ {k}
      PROVE  Stored(j)' = Stored(j)
  <2>1. FilesUnder(j)' = FilesUnder(j)
    BY <1>1, <1>3, <1>4, <1>7 DEF FilesUnder
  <2>2. \A s \in FilesUnder(j) : s \in UsedSlots
    BY DEF FilesUnder
  <2> QED
    BY <1>4, <2>1, <2>2, SameFile
<1>8. CASE isOpen
  <2>1. Stored(k) = NoContent /\ Stored(k)' # NoContent
    BY <1>5, <1>6, <1>8, StoredIsFile, StoredIsFileNext DEF AllStored, StoredOK
  <2>2. C[k] = NoContent /\ C'[k] # NoContent
    BY <2>1
  <2>3. C' = [C EXCEPT ![k] = C'[k]]
    BY <1>7
  <2> QED
    BY <1>8, <2>2, <2>3 DEF Files!Put
<1>9. CASE ~isOpen
  BY <1>9, ClosedShowsNothing, ClosedShowsNothingNext
<1> QED
  BY <1>8, <1>9

(* removeFile() deletes the file of its handle, and no other.              *)
LEMMA RemoveDeletes ==
    ASSUME OneInv, OneInv', UNCHANGED session, NEW c \in Clients, RemoveEntry(c)
    PROVE  \/ \E k \in Keys : Files!Delete(k)
           \/ UNCHANGED <<isOpen, [j \in Keys |-> Stored(j)], session>>
<1> DEFINE r == held[c].slot
           C == [j \in Keys |-> Stored(j)]
<1> IInv /\ TypeOK /\ NoSharedBlock
  BY DEF OneInv, IInv
<1>k. PICK k : k = hashes[r].key
  OBVIOUS
<1>1. /\ r \in UsedSlots
      /\ DOMAIN hashes' = DOMAIN hashes
      /\ hashes'[r] = [key |-> k, block |-> NoBlock, deleted |-> FALSE]
      /\ \A t \in DOMAIN hashes : t # r => hashes'[t] = hashes[t]
      /\ \A q \in DOMAIN blocks : q # hashes[r].block => blocks'[q] = blocks[q]
  BY <1>k, RemoveShape
<1>2. k \in Keys /\ r \in FilesUnder(k) /\ isOpen' = isOpen
  BY <1>k, <1>1, UsedShape DEF RemoveEntry, FilesUnder
<1>3. UsedSlots' = UsedSlots \ {r}
  <2>1. FreeHash(hashes'[r])
    BY <1>1 DEF FreeHash, EmptyHash
  <2> QED
    BY <1>1, <2>1 DEF UsedSlots
<1>4. \A s \in UsedSlots \ {r} : /\ hashes'[s] = hashes[s]
                                 /\ blocks'[hashes[s].block] = blocks[hashes[s].block]
  <2> SUFFICES ASSUME NEW s \in UsedSlots \ {r}
               PROVE  hashes'[s] = hashes[s] /\ blocks'[hashes[s].block] = blocks[hashes[s].block]
    OBVIOUS
  <2>1. s \in DOMAIN hashes /\ hashes[s].block \in DOMAIN blocks
    BY UsedShape
  <2>2. hashes[s].block # hashes[r].block
    BY <1>1 DEF NoSharedBlock
  <2> QED
    BY <1>1, <2>1, <2>2
<1>5. FilesUnder(k)' = {}
  <2> SUFFICES ASSUME NEW s \in FilesUnder(k)' PROVE FALSE
    OBVIOUS
  <2>1. s \in UsedSlots' /\ hashes'[s].key = k
    BY DEF FilesUnder
  <2>2. s \in UsedSlots \ {r} /\ hashes[s].key = k
    BY <1>3, <1>4, <2>1
  <2>3. s \in Group(hashes, k) /\ r \in Group(hashes, k)
    BY <1>k, <1>1, <2>2 DEF Group, UsedSlots
  <2> QED
    BY <1>2, <2>2, <2>3, PathsAreApart DEF PathsApart
<1>6. ASSUME NEW j \in Keys \ {k}
      PROVE  Stored(j)' = Stored(j)
  <2>1. FilesUnder(j)' = FilesUnder(j) /\ FilesUnder(j) \subseteq UsedSlots \ {r}
    BY <1>k, <1>1, <1>3, <1>4, <1>6 DEF FilesUnder
  <2> QED
    BY <1>2, <1>4, <2>1, SameFile
<1>7. CASE isOpen
  <2>1. Stored(k) # NoContent /\ Stored(k)' = NoContent
    BY <1>2, <1>5, <1>7, StoredIsFile, StoredIsFileNext DEF AllStored, StoredOK
  <2>2. C[k] # NoContent
    BY <1>2, <2>1
  <2>3. C' = [C EXCEPT ![k] = NoContent]
    <3>1. \A j \in Keys : Stored(j)' = IF j = k THEN NoContent ELSE Stored(j)
      BY <1>6, <2>1
    <3> QED
      BY <1>2, <3>1
  <2>4. Files!Delete(k)
    BY <1>2, <1>7, <2>2, <2>3 DEF Files!Delete
  <2> QED
    BY <1>2, <2>4
<1>8. CASE ~isOpen
  BY <1>2, <1>8, ClosedShowsNothing, ClosedShowsNothingNext
<1> QED
  BY <1>7, <1>8

(* An addFile() that fails before it inserts anything is not seen.         *)
LEMMA DataThrowsShowsNothing ==
    ASSUME OneInv, OneInv', UNCHANGED session, NEW l \in Layouts, AddDataThrows(l)
    PROVE  UNCHANGED <<isOpen, [j \in Keys |-> Stored(j)], session>>
<1> IInv /\ TypeOK
  BY DEF OneInv, IInv
<1>1. hashes' = hashes /\ isOpen' = isOpen /\ UsedSlots' = UsedSlots
  BY DEF AddDataThrows, UsedSlots
<1>2. FirstFreeBlock \in FreeBlocks
  BY FirstFreeBlockIsFree DEF AddDataThrows, CanAdd
<1>3. \A s \in UsedSlots : blocks'[hashes[s].block] = blocks[hashes[s].block]
  BY <1>2, UsedEntriesAreSafe DEF AddDataThrows
<1>4. \A j \in Keys : FilesUnder(j)' = FilesUnder(j) /\ FilesUnder(j) \subseteq UsedSlots
  BY <1>1 DEF FilesUnder
<1>5. \A j \in Keys : Stored(j)' = Stored(j)
  BY <1>1, <1>3, <1>4, SameFile
<1> QED
  BY <1>1, <1>5

(* create() and open() begin a session.                                    *)
LEMMA RestartOpens ==
    ASSUME Restart, session' = ~session
    PROVE  Files!Open
<1>1. isOpen' = TRUE
  BY DEF Restart, Create, Open
<1>2. DOMAIN [j \in Keys |-> Stored(j)]' = Keys
  OBVIOUS
<1> QED
  BY <1>1, <1>2 DEF Files!Open

(* Whatever closes the archive or ends the process drops what it showed.   *)
LEMMA StopDrops ==
    ASSUME Stop, UNCHANGED session
    PROVE  Files!Drop
<1>1. isOpen' = FALSE
  BY DEF Stop, CreateThrows, OpenThrows, Close, AddCrashes, RemoveCrashes, Clear, Crash
<1> QED
  BY <1>1, ClosedShowsNothingNext DEF Files!Drop

(* A step that leaves the tables alone is not seen.                        *)
LEMMA QuietShowsNothing ==
    ASSUME UNCHANGED tables, UNCHANGED session
    PROVE  UNCHANGED <<isOpen, [j \in Keys |-> Stored(j)], session>>
<1>1. isOpen' = isOpen /\ blocks' = blocks /\ hashes' = hashes /\ head' = head
  BY DEF tables
<1>2. \A j \in Keys : Stored(j)' = Stored(j)
  BY <1>1 DEF Stored, FindFile, FreeHash, EmptyHash
<1> QED
  BY <1>1, <1>2

(* A call on files is a step of the map, or none.                          *)
LEMMA CallRefines ==
    ASSUME OneInv, OneInv', Call, UNCHANGED session
    PROVE  \/ \E k \in Keys : Files!Put(k) \/ Files!Delete(k)
           \/ UNCHANGED <<isOpen, [j \in Keys |-> Stored(j)], session>>
<1>1. ASSUME NEW c \in Clients, NEW k \in Keys, NEW l \in Layouts, Add(c, k, l)
      PROVE  Files!Put(k) \/ UNCHANGED <<isOpen, [j \in Keys |-> Stored(j)], session>>
  BY <1>1, InsertPuts DEF Add, CanAdd
<1>2. ASSUME NEW k \in Keys, NEW l \in Layouts, AddThrows(k, l)
      PROVE  Files!Put(k) \/ UNCHANGED <<isOpen, [j \in Keys |-> Stored(j)], session>>
  BY <1>2, InsertPuts DEF AddThrows, CanAdd
<1>3. ASSUME NEW l \in Layouts, AddDataThrows(l)
      PROVE  UNCHANGED <<isOpen, [j \in Keys |-> Stored(j)], session>>
  BY <1>3, DataThrowsShowsNothing
<1>4. ASSUME NEW c \in Clients, RemoveEntry(c)
      PROVE  \/ \E k \in Keys : Files!Delete(k)
             \/ UNCHANGED <<isOpen, [j \in Keys |-> Stored(j)], session>>
  BY <1>4, RemoveDeletes
<1>5. CASE UNCHANGED tables
  BY <1>5, QuietShowsNothing
<1>6. AddTooSmall \/ (\E c \in Clients : RemoveRefused(c) \/ CloseFile(c))
        \/ (\E c \in Clients, k \in Keys : Find(c, k)) => UNCHANGED tables
  BY DEF AddTooSmall, RemoveRefused, CloseFile, Find, vars, tables
<1> HIDE DEF Files!Put, Files!Delete
<1> QED
  BY <1>1, <1>2, <1>3, <1>4, <1>5, <1>6 DEF Call

-----------------------------------------------------------------------------
(* The theorem.                                                            *)

(* Clients start with no entry at all.                                     *)
LEMMA InitOneInv == InitOneEntry => OneInv
<1> SUFFICES ASSUME InitOneEntry PROVE OneInv
  OBVIOUS
<1>1. IInv
  BY InitInv DEF InitOneEntry
<1>2. \A k \in Keys : Group(hashes, k) = {}
  BY DEF InitOneEntry, Init, Group
<1>3. OneEntry
  BY <1>2, FS_EmptySet DEF OneEntry
<1> QED
  BY <1>1, <1>3 DEF OneInv

(* Every step keeps one entry per path.                                    *)
LEMMA NextOneInv ==
    ASSUME ImagesHoldFiles, FilesNotEmpty
    PROVE  OneInv /\ [NextOneEntry]_<<vars, session>> => OneInv'
<1> SUFFICES ASSUME OneInv, [NextOneEntry]_<<vars, session>> PROVE OneInv'
  OBVIOUS
<1>1. [Next]_vars
  BY DEF NextOneEntry, Next
<1>2. IInv'
  BY <1>1, NextInv DEF OneInv
<1>3. OneEntry'
  <2>1. CASE NextOneEntry
    BY <2>1 DEF NextOneEntry, OneEntryPerPath, OneEntry
  <2>2. CASE UNCHANGED <<vars, session>>
    BY <2>2 DEF OneInv, OneEntry, vars
  <2> QED
    BY <2>1, <2>2
<1> QED
  BY <1>2, <1>3 DEF OneInv

(* Every step of the tables is a step of the map, or is not seen there.    *)
LEMMA StepRefines ==
    OneInv /\ OneInv' /\ [NextOneEntry]_<<vars, session>>
        => [Files!Next]_<<isOpen, [k \in Keys |-> Stored(k)], session>>
<1> SUFFICES ASSUME OneInv, OneInv', [NextOneEntry]_<<vars, session>>
             PROVE  [Files!Next]_<<isOpen, [k \in Keys |-> Stored(k)], session>>
  OBVIOUS
<1>1. CASE Restart /\ session' = ~session
  BY <1>1, RestartOpens DEF Files!Next
<1>2. CASE Stop /\ UNCHANGED session
  BY <1>2, StopDrops DEF Files!Next
<1>3. CASE Call /\ UNCHANGED session
  BY <1>3, CallRefines DEF Files!Next
<1>4. CASE UNCHANGED <<vars, session>>
  BY <1>4, QuietShowsNothing DEF vars, tables
<1> QED
  BY <1>1, <1>2, <1>3, <1>4 DEF NextOneEntry

(* The tables of an archive implement the map from paths to files, for     *)
(* clients that keep to one entry per path.                                *)
THEOREM TablesImplementFiles ==
    ASSUME ImagesHoldFiles, FilesNotEmpty
    PROVE  SpecOneEntry => ImplementsFiles
<1>1. InitOneEntry => Files!Init
  BY ClosedShowsNothing DEF InitOneEntry, Init, Files!Init
<1>2. InitOneEntry => OneInv
  BY InitOneInv
<1>3. OneInv /\ [NextOneEntry]_<<vars, session>> => OneInv'
  BY NextOneInv
<1>4. OneInv /\ OneInv' /\ [NextOneEntry]_<<vars, session>>
        => [Files!Next]_<<isOpen, [k \in Keys |-> Stored(k)], session>>
  BY StepRefines
<1> QED
  BY <1>1, <1>2, <1>3, <1>4, PTL DEF SpecOneEntry, ImplementsFiles, Files!Spec

-----------------------------------------------------------------------------
(***************************************************************************)
(* Theorems about the archive file, for tables of every length.            *)
(*                                                                         *)
(* An invariant of memory and file alone would not last, since the writes  *)
(* of a call reach the file one by one.  ArchiveInv speaks of every stage  *)
(* the pending writes lead to: each may be what a killed process leaves,   *)
(* and so is sound; the last shows what the Archive has in memory.  A file *)
(* that can be opened again is one whose tables have one entry, because    *)
(* writeBlockTable() and writeHashTable() copy every entry over the one    *)
(* before: Holds says what such a file brings back.                        *)
(***************************************************************************)

-----------------------------------------------------------------------------
(* The tables in memory.                                                   *)
Even(bs, hs) ==
    /\ Len(bs) = Len(hs)
    /\ bs # <<>> => bs[1].index = 0
    /\ \A s \in DOMAIN hs : ~hs[s].deleted
TablePair(bs, hs) ==
    /\ bs \in Seq(Block) /\ hs \in Seq(Hash)
    /\ Even(bs, hs)
    /\ \A s \in DOMAIN hs :
         /\ hs[s].block \in {NoBlock} \union DOMAIN bs
         /\ hs[s].block # NoBlock => hs[s].key \in Keys /\ ~FreeBlock(bs[hs[s].block])

(* The tables of an open archive are in front of the data; what a create() *)
(* that threw leaves has no data.                                          *)
TablesFirst(bOff, hOff, bs) ==
    /\ bOff = HeaderSize /\ hOff = HeaderSize + Len(bs) * EntrySize
    /\ \A p \in DOMAIN bs :
         /\ bs[p].blockSize > 0 => bs[p].offset > 0
         /\ bs[p].offset > 0 => hOff + Len(bs) * EntrySize <= bs[p].offset
NoData(bs, hs) ==
    /\ \A p \in DOMAIN bs : bs[p].offset = 0 /\ bs[p].blockSize = 0
    /\ \A s \in DOMAIN hs : hs[s].block = NoBlock
Placed(open, bOff, hOff, bs, hs) ==
    /\ open => TablesFirst(bOff, hOff, bs)
    /\ ~open => NoData(bs, hs)
MemInv == IInv /\ TablePair(blocks, hashes) /\ Placed(isOpen, bto, hto, blocks, hashes)

(* What the invariant of the tables says of a pair of even ones.           *)
LEMMA PairNext ==
    ASSUME IInv', Even(blocks', hashes')
    PROVE  TablePair(blocks', hashes')
<1>1. blocks' \in Seq(Block) /\ hashes' \in Seq(Hash)
  BY DEF IInv, TypeOK
<1>2. \A s \in DOMAIN hashes' : hashes'[s].block \in {NoBlock} \union DOMAIN blocks'
  BY DEF IInv, TypeOK
<1>3. ASSUME NEW s \in DOMAIN hashes', hashes'[s].block # NoBlock
      PROVE  hashes'[s].key \in Keys /\ ~FreeBlock(blocks'[hashes'[s].block])
  <2>1. ~FreeHash(hashes'[s])
    BY <1>3 DEF Even, FreeHash, EmptyHash
  <2>2. hashes'[s].key \in Keys
    BY <2>1 DEF IInv, OnlyHeadsFree
  <2>3. hashes'[s].block \in TakenBlocks'
    BY <2>1 DEF IInv, NoSharedBlock, UsedSlots
  <2> QED
    BY <2>2, <2>3 DEF TakenBlocks
<1> QED
  BY <1>1, <1>2, <1>3 DEF TablePair

(* Without entries the invariant holds of the memory.                      *)
LEMMA EmptyMemory ==
    ASSUME IInv', isOpen' = FALSE, blocks' = <<>>, hashes' = <<>>
    PROVE  MemInv'
<1>1. Even(blocks', hashes') /\ NoData(blocks', hashes')
  BY DEF Even, NoData
<1>2. TablePair(blocks', hashes')
  BY <1>1, PairNext
<1> QED
  BY <1>1, <1>2 DEF MemInv, Placed

(* The calls and crashes that empty it.                                    *)
LEMMA StopsEmpty ==
    ASSUME MemInv, OpenThrows \/ Close \/ Crash
    PROVE  MemInv' /\ isOpen' = FALSE
<1>1. TypeOK
  BY DEF MemInv, IInv
<1>2. isOpen' = FALSE /\ blocks' = <<>> /\ hashes' = <<>> /\ head' = EmptyHead
      /\ bto' = 0 /\ hto' = 0 /\ size' = 0
      /\ (held' = Dangle(held, DOMAIN hashes) \/ held' = [c \in Clients |-> NoFile])
  BY DEF OpenThrows, Close, Clear, Crash
<1>3. IInv'
  BY <1>1, <1>2, ClearedInv
<1> QED
  BY <1>2, <1>3, EmptyMemory

(* The calls that change at most the File of a client.                     *)
LEMMA SameMemory ==
    ASSUME MemInv, IInv', UNCHANGED <<isOpen, blocks, hashes, bto, hto>>
    PROVE  MemInv'
  BY DEF MemInv

(* The tables of create(): no entry has data yet.                          *)
LEMMA CreateMemory ==
    ASSUME MemInv, NEW b \in TableSizes, AppendEntries(b),
           isOpen' \in BOOLEAN, hto' \in Nat, size' \in 0..(SizeModulus - 1),
           isOpen' => hto' = CreatedHto(Len(blocks'))
    PROVE  MemInv' /\ NoData(blocks', hashes')
<1>1. TypeOK /\ IInv'
  BY AppendKeepsInv DEF MemInv, IInv
<1> DEFINE kb == IF isOpen THEN <<>> ELSE blocks
           kh == IF isOpen THEN <<>> ELSE hashes
           nb == [i \in 1..b |-> NewBlock(i - 1)]
           nh == [i \in 1..b |-> NewHash]
<1>2. kb \in Seq(Block) /\ kh \in Seq(Hash) /\ b \in Nat
  BY <1>1, BoundsAssumption DEF TypeOK
<1>3. /\ nb \in [1..b -> Block] /\ nh \in [1..b -> Hash]
      /\ \A i \in 1..b : nb[i].offset = 0 /\ nb[i].blockSize = 0 /\ nb[i].index = i - 1
      /\ \A i \in 1..b : nh[i].block = NoBlock /\ ~nh[i].deleted
  BY <1>2 DEF NewBlock, NewHash, Block, Hash, Flags, NoBlock, AllKeys
<1>4. blocks' = kb \o nb /\ hashes' = kh \o nh
  BY DEF AppendEntries
<1>5. Even(kb, kh) /\ NoData(kb, kh)
  <2>1. CASE isOpen
    BY <2>1 DEF Even, NoData
  <2>2. CASE ~isOpen
    BY <2>2 DEF MemInv, TablePair, Placed
  <2> QED
    BY <2>1, <2>2
<1>6. b # 0
  BY StartAssumption
<1> HIDE DEF kb, kh, nb, nh
<1>7. PICK n \in Nat : n = Len(kb) /\ n = Len(kh) /\ DOMAIN kb = 1..n /\ DOMAIN kh = 1..n
  <2>1. Len(kb) \in Nat /\ DOMAIN kb = 1..Len(kb) /\ DOMAIN kh = 1..Len(kh)
    BY <1>2, LenProperties
  <2> QED
    BY <1>5, <2>1 DEF Even
<1>8. /\ Len(blocks') = n + b /\ DOMAIN blocks' = 1..(n + b)
      /\ \A i \in 1..(n + b) : blocks'[i] = IF i <= n THEN kb[i] ELSE nb[i - n]
  <2>1. /\ Len(blocks') = Len(kb) + b /\ DOMAIN blocks' = 1..(Len(kb) + b)
        /\ \A i \in 1..(Len(kb) + b) :
              blocks'[i] = IF i <= Len(kb) THEN kb[i] ELSE nb[i - Len(kb)]
    <3>1. kb \in Seq(Block) /\ b \in Nat
      BY <1>2
    <3>2. nb \in [1..b -> Block]
      BY <1>3
    <3>3. blocks' = kb \o nb
      BY <1>4
    <3> QED
      BY <3>1, <3>2, <3>3, AppendNew
  <2> QED
    BY <1>7, <2>1
<1>9. /\ Len(hashes') = n + b /\ DOMAIN hashes' = 1..(n + b)
      /\ \A i \in 1..(n + b) : hashes'[i] = IF i <= n THEN kh[i] ELSE nh[i - n]
  <2>1. /\ Len(hashes') = Len(kh) + b /\ DOMAIN hashes' = 1..(Len(kh) + b)
        /\ \A i \in 1..(Len(kh) + b) :
              hashes'[i] = IF i <= Len(kh) THEN kh[i] ELSE nh[i - Len(kh)]
    <3>1. kh \in Seq(Hash) /\ b \in Nat
      BY <1>2
    <3>2. nh \in [1..b -> Hash]
      BY <1>3
    <3>3. hashes' = kh \o nh
      BY <1>4
    <3> QED
      BY <3>1, <3>2, <3>3, AppendNew
  <2> QED
    BY <1>7, <2>1
<1>10. \A i \in 1..(n + b) : (i <= n /\ i \in 1..n) \/ (~(i <= n) /\ i - n \in 1..b)
  BY <1>2, <1>7
<1>11. NoData(blocks', hashes')
  <2>1. \A p \in 1..n : kb[p].offset = 0 /\ kb[p].blockSize = 0
    BY <1>5, <1>7 DEF NoData
  <2>2. \A p \in 1..n : kh[p].block = NoBlock
    BY <1>5, <1>7 DEF NoData
  <2>3. \A p \in DOMAIN blocks' : blocks'[p].offset = 0 /\ blocks'[p].blockSize = 0
    BY <1>3, <1>8, <1>10, <2>1
  <2>4. \A s \in DOMAIN hashes' : hashes'[s].block = NoBlock
    BY <1>3, <1>9, <1>10, <2>2
  <2> QED
    BY <2>3, <2>4 DEF NoData
<1>12. Even(blocks', hashes')
  <2>1. \A s \in 1..n : ~kh[s].deleted
    BY <1>5, <1>7 DEF Even
  <2>2. \A s \in DOMAIN hashes' : ~hashes'[s].deleted
    BY <1>3, <1>9, <1>10, <2>1
  <2>3. 1 \in 1..(n + b)
    BY <1>2, <1>6, <1>7
  <2>4. blocks'[1].index = 0
    <3>1. CASE n = 0
      <4>1. blocks'[1] = nb[1] /\ 1 \in 1..b
        BY <1>2, <1>6, <1>8, <2>3, <3>1
      <4> QED
        BY <1>3, <4>1
    <3>2. CASE n # 0
      <4>1. blocks'[1] = kb[1]
        BY <1>7, <1>8, <2>3, <3>2
      <4>2. kb # <<>>
        BY <1>7, <3>2
      <4> QED
        BY <1>5, <4>1, <4>2 DEF Even
    <3> QED
      BY <3>1, <3>2
  <2> QED
    BY <1>8, <1>9, <2>2, <2>4 DEF Even
<1>13. TablePair(blocks', hashes')
  BY <1>1, <1>12, PairNext
<1>14. isOpen' => TablesFirst(bto', hto', blocks')
  <2>1. bto' = HeaderSize
    BY DEF AppendEntries
  <2>2. \A p \in DOMAIN blocks' : blocks'[p].offset = 0 /\ blocks'[p].blockSize = 0
    BY <1>11 DEF NoData
  <2> QED
    BY <2>1, <2>2 DEF TablesFirst, CreatedHto
<1> QED
  BY <1>1, <1>11, <1>13, <1>14 DEF MemInv, Placed

(* A change of entries at their places keeps the tables a pair.            *)
LEMMA StillEven ==
    ASSUME TablePair(blocks, hashes), blocks' \in Seq(Block), hashes' \in Seq(Hash),
           DOMAIN blocks' = DOMAIN blocks, DOMAIN hashes' = DOMAIN hashes,
           \A p \in DOMAIN blocks : blocks'[p].index = blocks[p].index,
           \A s \in DOMAIN hashes : ~hashes'[s].deleted
    PROVE  Even(blocks', hashes') /\ Len(blocks') = Len(blocks)
<1>1. blocks \in Seq(Block) /\ hashes \in Seq(Hash) /\ Even(blocks, hashes)
  BY DEF TablePair
<1>2. Len(blocks') = Len(blocks) /\ Len(hashes') = Len(hashes)
  BY <1>1, SameLen
<1>3. blocks' # <<>> => blocks'[1].index = 0
  <2> SUFFICES ASSUME blocks' # <<>> PROVE blocks'[1].index = 0
    OBVIOUS
  <2>1. Len(blocks) \in Nat /\ DOMAIN blocks = 1..Len(blocks) /\ Len(blocks) # 0
    BY <1>1, <1>2, LenProperties
  <2>2. 1 \in DOMAIN blocks /\ blocks # <<>>
    BY <2>1
  <2> QED
    BY <1>1, <2>2 DEF Even
<1> QED
  BY <1>1, <1>2, <1>3 DEF Even

(* The data of a new file is behind the tables.                            *)
LEMMA NextIsBehindTables ==
    ASSUME MemInv, isOpen
    PROVE  NextBlockOffset \in Nat /\ hto + Len(blocks) * EntrySize <= NextBlockOffset
<1>1. TypeOK /\ TablesFirst(bto, hto, blocks) /\ Len(hashes) = Len(blocks)
  BY DEF MemInv, IInv, Placed, TablePair, Even
<1>2. NextBlockOffset \in Nat
  BY <1>1, NextBlockOffsetType
<1>3. \A p \in DOMAIN blocks : blocks[p].offset \in Nat /\ blocks[p].blockSize \in Nat
  <2>1. \A p \in DOMAIN blocks : blocks[p] \in Block
    BY <1>1 DEF TypeOK
  <2> QED
    BY <2>1 DEF Block
<1>4. hto \in Nat /\ Len(blocks) \in Nat
  BY <1>1 DEF TypeOK
<1>5. CASE OffsetBlocks = {}
  BY <1>1, <1>2, <1>4, <1>5 DEF NextBlockOffset, TablesEnd, EntrySize
<1>6. CASE OffsetBlocks # {}
  <2>1. LastOffsetBlock \in OffsetBlocks
    BY <1>6, LastOffsetBlockIsLast, <1>1
  <2> DEFINE p == LastOffsetBlock
  <2>2. p \in DOMAIN blocks /\ blocks[p].offset > 0
        /\ NextBlockOffset = blocks[p].offset + blocks[p].blockSize
    BY <1>6, <2>1 DEF OffsetBlocks, NextBlockOffset
  <2> HIDE DEF p
  <2>3. hto + Len(blocks) * EntrySize <= blocks[p].offset
    BY <1>1, <2>2 DEF TablesFirst
  <2> QED
    BY <1>2, <1>3, <1>4, <2>2, <2>3 DEF EntrySize
<1> QED
  BY <1>5, <1>6

(* addFile() fills a free block and a free hash.                           *)
LEMMA InsertMemory ==
    ASSUME FilesNotEmpty, MemInv, isOpen, NEW k \in Keys, NEW l \in Layouts, CanAdd(l),
           NEW old \in FreeKeys, InsertFile(old, k, l), IInv',
           UNCHANGED <<isOpen, bto, hto>>
    PROVE  /\ MemInv'
           /\ \E s \in DOMAIN hashes' :
                /\ ~FreeHash(hashes'[s]) /\ hashes'[s].key = k
                /\ hashes'[s].block = FirstFreeBlock
<1> DEFINE f == FirstFreeBlock
           g == head[old]
<1>1. /\ TypeOK /\ HeadsLeadGroups /\ OnlyHeadsFree /\ TablePair(blocks, hashes)
      /\ FreeBlocks # {}
  BY DEF MemInv, IInv, CanAdd
<1>2. /\ blocks' \in Seq(Block) /\ hashes' \in Seq(Hash)
      /\ DOMAIN blocks' = DOMAIN blocks /\ DOMAIN hashes' = DOMAIN hashes
      /\ blocks'[f].offset = NextBlockOffset /\ blocks'[f].blockSize = l.blockSize
      /\ \A q \in DOMAIN blocks : q # f => blocks'[q] = blocks[q]
      /\ hashes'[g] = [key |-> k, block |-> f, deleted |-> FALSE]
      /\ \A t \in DOMAIN hashes : t # g => hashes'[t] = hashes[t]
  BY <1>1, InsertShape
<1>3. f \in DOMAIN blocks /\ g \in DOMAIN hashes
  BY <1>1, FirstFreeBlockIsFree, ReplacedEntryIsFree
<1>4. \A p \in DOMAIN blocks : blocks'[p].index = blocks[p].index
  <2> DEFINE c == [blocks[f] EXCEPT !.offset = NextBlockOffset, !.flags = l.flags,
                                    !.blockSize = l.blockSize, !.fileSize = l.fileSize]
  <2>1. blocks' = [blocks EXCEPT ![f] = c]
    BY DEF InsertFile
  <2>2. c.index = blocks[f].index
    <3>1. blocks[f] \in Block
      BY <1>1, <1>3 DEF TypeOK
    <3> QED
      BY <3>1 DEF Block
  <2> HIDE DEF c, f
  <2>3. blocks'[f] = c
    BY <1>3, <2>1
  <2> QED
    BY <1>2, <2>2, <2>3
<1> HIDE DEF f, g
<1>5. \A s \in DOMAIN hashes : ~hashes'[s].deleted
  <2>1. \A s \in DOMAIN hashes : ~hashes[s].deleted
    BY <1>1 DEF TablePair, Even
  <2> QED
    BY <1>2, <2>1
<1>6. Even(blocks', hashes') /\ Len(blocks') = Len(blocks)
  BY <1>1, <1>2, <1>4, <1>5, StillEven
<1>7. TablePair(blocks', hashes')
  BY <1>6, PairNext
<1>8. TablesFirst(bto', hto', blocks')
  <2>1. NextBlockOffset \in Nat /\ hto + Len(blocks) * EntrySize <= NextBlockOffset
    BY NextIsBehindTables
  <2>2. NextBlockOffset > 0
    BY <1>1, DataAfterHeader
  <2>3. TablesFirst(bto, hto, blocks)
    BY DEF MemInv, Placed
  <2>4. \A p \in DOMAIN blocks :
          /\ blocks'[p].blockSize > 0 => blocks'[p].offset > 0
          /\ blocks'[p].offset > 0 => hto + Len(blocks) * EntrySize <= blocks'[p].offset
    BY <1>2, <1>3, <2>1, <2>2, <2>3 DEF TablesFirst
  <2> QED
    BY <1>2, <1>6, <2>3, <2>4 DEF TablesFirst
<1>9. ~FreeHash(hashes'[g]) /\ hashes'[g].key = k /\ hashes'[g].block = f
  <2>1. f # NoBlock
    <3>1. f \in 1..Len(blocks)
      BY <1>1, <1>3 DEF TypeOK
    <3> QED
      BY <3>1 DEF NoBlock
  <2> QED
    BY <1>2, <2>1 DEF FreeHash, EmptyHash
<1>10. MemInv'
  BY <1>7, <1>8 DEF MemInv, Placed
<1> QED
  BY <1>2, <1>3, <1>9, <1>10 DEF f

(* addFile() that cannot write the data moves a free block.                *)
LEMMA DataThrowsMemory ==
    ASSUME MemInv, isOpen, NEW l \in Layouts, AddDataThrows(l)
    PROVE  MemInv'
<1> DEFINE f == FirstFreeBlock
           c == [blocks[f] EXCEPT !.offset = NextBlockOffset, !.flags = l.flags]
<1>1. TypeOK /\ TablePair(blocks, hashes) /\ IInv' /\ FreeKeys # {} /\ FreeBlocks # {}
  BY DataThrowsKeepsInv DEF MemInv, IInv, AddDataThrows, CanAdd
<1>2. blocks' = [blocks EXCEPT ![f] = c] /\ UNCHANGED <<isOpen, hashes, bto, hto>>
  BY DEF AddDataThrows
<1>3. f \in DOMAIN blocks
  BY <1>1, FirstFreeBlockIsFree
<1>4. c.index = blocks[f].index /\ c.offset = NextBlockOffset
  <2>1. blocks[f] \in Block
    BY <1>1, <1>3 DEF TypeOK
  <2> QED
    BY <2>1 DEF Block
<1> HIDE DEF f, c
<1>5. /\ DOMAIN blocks' = DOMAIN blocks /\ blocks'[f] = c
      /\ \A q \in DOMAIN blocks : q # f => blocks'[q] = blocks[q]
  BY <1>2, <1>3
<1>6. blocks' \in Seq(Block) /\ hashes' \in Seq(Hash) /\ DOMAIN hashes' = DOMAIN hashes
  BY <1>1, <1>2 DEF IInv, TypeOK
<1>7. \A p \in DOMAIN blocks : blocks'[p].index = blocks[p].index
  BY <1>4, <1>5
<1>8. \A s \in DOMAIN hashes : ~hashes'[s].deleted
  BY <1>1, <1>2 DEF TablePair, Even
<1>9. Even(blocks', hashes') /\ Len(blocks') = Len(blocks)
  BY <1>1, <1>5, <1>6, <1>7, <1>8, StillEven
<1>10. TablePair(blocks', hashes')
  BY <1>1, <1>9, PairNext
<1>11. TablesFirst(bto', hto', blocks')
  <2>1. NextBlockOffset \in Nat /\ hto + Len(blocks) * EntrySize <= NextBlockOffset
    BY NextIsBehindTables
  <2>2. NextBlockOffset > 0
    BY <1>1, DataAfterHeader
  <2>3. TablesFirst(bto, hto, blocks)
    BY DEF MemInv, Placed
  <2>4. \A p \in DOMAIN blocks :
          /\ blocks'[p].blockSize > 0 => blocks'[p].offset > 0
          /\ blocks'[p].offset > 0 => hto + Len(blocks) * EntrySize <= blocks'[p].offset
    BY <1>3, <1>4, <1>5, <2>1, <2>2, <2>3 DEF TablesFirst
  <2> QED
    BY <1>2, <1>5, <1>9, <2>3, <2>4 DEF TablesFirst
<1> QED
  BY <1>1, <1>2, <1>10, <1>11 DEF MemInv, Placed

(* removeFile() frees the entries of a file, which only an open archive    *)
(* has.                                                                    *)
LEMMA RemoveMemory ==
    ASSUME MemInv, NEW c \in Clients, RemoveEntry(c)
    PROVE  MemInv' /\ isOpen
<1> DEFINE p == hashes[held[c].slot].block
           x == [blocks[p] EXCEPT !.fileSize = 0, !.flags = "None"]
<1>1. TypeOK /\ TablePair(blocks, hashes) /\ IInv'
  BY RemoveKeepsInv DEF MemInv, IInv
<1>2. /\ held[c].slot \in UsedSlots /\ p \in DOMAIN blocks
      /\ blocks' \in Seq(Block) /\ DOMAIN blocks' = DOMAIN blocks
      /\ hashes' \in Seq(Hash) /\ DOMAIN hashes' = DOMAIN hashes
  BY <1>1, RemoveShape
<1>3. ASSUME NEW q \in DOMAIN blocks
      PROVE  blocks'[q].offset = blocks[q].offset /\ blocks'[q].blockSize = blocks[q].blockSize
  <2>1. blocks'[p].offset = blocks[p].offset /\ blocks'[p].blockSize = blocks[p].blockSize
    BY <1>1, RemoveShape
  <2>2. q # p => blocks'[q] = blocks[q]
    BY <1>1, RemoveShape
  <2> QED
    BY <2>1, <2>2
<1>4. ~hashes'[held[c].slot].deleted
  <2>1. hashes'[held[c].slot] = [key |-> hashes[held[c].slot].key,
                                 block |-> NoBlock, deleted |-> FALSE]
    BY <1>1, RemoveShape
  <2> QED
    BY <2>1
<1>5. \A t \in DOMAIN hashes : t # held[c].slot => hashes'[t] = hashes[t]
  BY <1>1, RemoveShape
<1>6. isOpen
  <2>1. held[c].slot \in DOMAIN hashes
    BY <1>2 DEF UsedSlots
  <2>2. p # NoBlock
    BY DEF RemoveEntry
  <2> QED
    BY <2>1, <2>2 DEF MemInv, Placed, NoData
<1>7. blocks' = [blocks EXCEPT ![p] = x] /\ UNCHANGED <<isOpen, bto, hto>>
  BY DEF RemoveEntry
<1>8. x.index = blocks[p].index
  <2>1. blocks[p] \in Block
    BY <1>1, <1>2 DEF TypeOK
  <2> QED
    BY <2>1 DEF Block
<1> HIDE DEF p, x
<1>9. \A q \in DOMAIN blocks : blocks'[q].index = blocks[q].index
  BY <1>2, <1>7, <1>8
<1>10. \A s \in DOMAIN hashes : ~hashes'[s].deleted
  BY <1>1, <1>4, <1>5 DEF TablePair, Even
<1>11. Even(blocks', hashes') /\ Len(blocks') = Len(blocks)
  BY <1>1, <1>2, <1>9, <1>10, StillEven
<1>12. TablePair(blocks', hashes')
  BY <1>1, <1>11, PairNext
<1>13. TablesFirst(bto', hto', blocks')
  <2>1. TablesFirst(bto, hto, blocks)
    BY <1>6 DEF MemInv, Placed
  <2> QED
    BY <1>2, <1>7, <1>11, <1>3, <2>1 DEF TablesFirst
<1> QED
  BY <1>1, <1>6, <1>7, <1>12, <1>13 DEF MemInv, Placed

-----------------------------------------------------------------------------
(* The file.  Holds says that d has the tables of one block and one hash   *)
(* with a header, and the data if there is a file.                         *)
FileOf(H, B, T, D, f) == [header |-> H, btab |-> B, htab |-> T, data |-> D, by |-> f]
Single(b, h) ==
    /\ b \in Block /\ b.index = 0
    /\ h \in Hash /\ ~h.deleted /\ h.block \in {NoBlock, 1}
    /\ h.block # NoBlock => h.key \in Keys /\ ~FreeBlock(b)
    /\ b.blockSize > 0 => b.offset > 0
    /\ b.offset > 0 => HeaderSize + 2 * EntrySize <= b.offset
OneHeader(H) ==
    \E st \in Nat, sz \in 0..(SizeModulus - 1) :
        H = [start |-> st, bto |-> HeaderSize, hto |-> HeaderSize + EntrySize,
             blocks |-> 1, hashes |-> 1, size |-> sz]
Holds(d, b, h) ==
    /\ Single(b, h)
    /\ d.btab = <<BlockEntry(b)>> /\ d.htab = <<HashEntry(h, <<b>>)>>
    /\ OneHeader(d.header)
    /\ d.by # "remove" /\ h.block # NoBlock => DataOf(h.key, b.offset, b) \in d.data
    /\ d.by = "add" => h.block # NoBlock

(* What may be found in it after the process was killed.                   *)
Closed(d) ==
    /\ Len(d.btab) = d.header.blocks /\ Len(d.htab) = d.header.hashes
    /\ d.by = "add" => d.data # {}
Sound(d) ==
    /\ Complete(d) => \E b, h : Holds(d, b, h)
    /\ d.header # NoHeader /\ d.by # "remove" => Closed(d)

(* What it has to do with the tables of the memory.                        *)
Known(tab, entries) == \A i \in DOMAIN tab : tab[i] # Garbage => tab[i] \in entries
HasData(hs, bs, D) ==
    \E s \in DOMAIN hs : /\ ~FreeHash(hs[s])
                         /\ DataOf(hs[s].key, bs[hs[s].block].offset, bs[hs[s].block]) \in D
Shows(d, st, bOff, hOff, bs, hs, sz) ==
    /\ d.header = HeaderOf(st, bOff, hOff, bs, hs, sz)
    /\ Len(d.btab) = Len(bs) /\ Len(d.htab) = Len(hs)
    /\ Known(d.btab, {BlockEntry(bs[p]) : p \in DOMAIN bs})
    /\ Known(d.htab, {HashEntry(hs[s], bs) : s \in DOMAIN hs})
    /\ d.by = "add" => HasData(hs, bs, d.data)

(* What becomes of it by the writes ws, one after the other.               *)
DiskStages(m, d, ws) ==
    /\ m[0] = d
    /\ \A i \in 1..Len(ws) : m[i] = ApplyWrite(m[i - 1], ws[i])
Written(T, m) ==
    /\ pending \in Seq(T) /\ DiskStages(m, disk, pending)
    /\ \A i \in 0..Len(pending) : Sound(m[i])
    /\ isOpen /\ ~threw => Shows(m[Len(pending)], start, bto, hto, blocks, hashes, size)
ArchiveInv == MemInv /\ start \in Nat /\ \E T, m : Written(T, m)

(* One write leads to the next stage.                                      *)
LEMMA WritesOn ==
    ASSUME ArchiveInv, WriteStep
    PROVE  ArchiveInv'
<1>1. PICK T, m : Written(T, m)
  BY DEF ArchiveInv
<1> DEFINE n == Len(pending)
           k == [i \in 0..(n - 1) |-> m[i + 1]]
<1>2. /\ pending \in Seq(T) /\ pending # <<>> /\ pending' = Tail(pending)
      /\ disk' = ApplyWrite(disk, Head(pending))
      /\ UNCHANGED <<vars, start, threw>>
  BY <1>1 DEF WriteStep, Written
<1>3. /\ n \in Nat /\ n >= 1 /\ pending' \in Seq(T) /\ Len(pending') = n - 1
      /\ Head(pending) = pending[1] /\ \A i \in 1..n - 1 : pending'[i] = pending[i + 1]
  BY <1>2
<1>4. m[0] = disk /\ \A i \in 1..n : m[i] = ApplyWrite(m[i - 1], pending[i])
  BY <1>1 DEF Written, DiskStages
<1>5. k[0] = disk'
  <2>1. k[0] = m[1] /\ 1 \in 1..n /\ 1 - 1 = 0
    BY <1>3
  <2> QED
    BY <1>2, <1>3, <1>4, <2>1
<1>6. ASSUME NEW i \in 1..n - 1 PROVE k[i] = ApplyWrite(k[i - 1], pending'[i])
  <2>1. k[i] = m[i + 1] /\ k[i - 1] = m[i] /\ i + 1 \in 1..n /\ (i + 1) - 1 = i
    BY <1>3
  <2>2. m[i + 1] = ApplyWrite(m[(i + 1) - 1], pending[i + 1])
    BY <1>4, <2>1
  <2> QED
    BY <1>3, <2>1, <2>2
<1>7. \A i \in 0..n - 1 : Sound(k[i])
  <2>1. \A i \in 0..n - 1 : i + 1 \in 0..n /\ k[i] = m[i + 1]
    BY <1>3
  <2>2. \A i \in 0..n : Sound(m[i])
    BY <1>1 DEF Written
  <2> QED
    BY <2>1, <2>2
<1>8. k[n - 1] = m[n]
  BY <1>3
<1>9. PICK x : x = k
  OBVIOUS
<1> HIDE DEF k
<1>10. DiskStages(x, disk', pending')
  BY <1>3, <1>5, <1>6, <1>9 DEF DiskStages
<1>11. isOpen' /\ ~threw' => Shows(x[n - 1], start', bto', hto', blocks', hashes', size')
  <2>1. isOpen /\ ~threw => Shows(m[n], start, bto, hto, blocks, hashes, size)
    BY <1>1 DEF Written
  <2>2. x[n - 1] = m[n]
    BY <1>8, <1>9
  <2>3. UNCHANGED <<isOpen, threw, start, bto, hto, blocks, hashes, size>>
    BY <1>2 DEF vars
  <2> HIDE DEF n
  <2> QED
    BY <2>1, <2>2, <2>3
<1>12. Written(T, x)'
  <2> DEFINE last == n - 1
  <2>1. Len(pending') = last /\ \A i \in 0..last : Sound(x[i])
    BY <1>3, <1>7, <1>9
  <2>2. isOpen' /\ ~threw' => Shows(x[Len(pending')], start', bto', hto', blocks', hashes', size')
    BY <1>11, <2>1
  <2> HIDE DEF last
  <2>3. \A i \in 0..Len(pending') : Sound(x[i])
    BY <2>1
  <2> QED
    BY <1>3, <1>10, <2>2, <2>3 DEF Written
<1>13. MemInv' /\ start' \in Nat
  <2>1. UNCHANGED vars /\ start' = start
    BY <1>2
  <2>2. IInv'
    BY <2>1, NoChangeKeepsInv DEF ArchiveInv, MemInv
  <2> QED
    BY <2>1, <2>2, SameMemory DEF ArchiveInv, vars
<1> QED
  BY <1>12, <1>13 DEF ArchiveInv

(* The file is sound at any time.                                          *)
LEMMA FileIsSound ==
    ASSUME ArchiveInv
    PROVE  Sound(disk)
<1>1. PICK T, m : Written(T, m)
  BY DEF ArchiveInv
<1>2. m[0] = disk /\ 0 \in 0..Len(pending)
  BY <1>1 DEF Written, DiskStages
<1> QED
  BY <1>1, <1>2 DEF Written

(* Between two calls it shows what the memory says after one that did not  *)
(* throw.                                                                  *)
LEMMA IdleFile ==
    ASSUME ArchiveInv, Idle, isOpen, ~threw
    PROVE  Shows(disk, start, bto, hto, blocks, hashes, size)
<1>1. PICK T, m : Written(T, m)
  BY DEF ArchiveInv
<1>2. Len(pending) = 0
  BY DEF Idle
<1>3. m[0] = disk
  BY <1>1 DEF Written, DiskStages
<1> QED
  BY <1>1, <1>2, <1>3 DEF Written

(* A call that does the first n of its writes, if each leaves the file     *)
(* sound and, when it does not throw, all of them what the memory says.    *)
LEMMA StartsWell ==
    ASSUME NEW T, NEW ws \in Seq(T), NEW m, NEW n \in 0..Len(ws),
           DiskStages(m, disk, ws), \A i \in 0..n : Sound(m[i]),
           disk' = disk, pending' = SubSeq(ws, 1, n), MemInv', start' \in Nat,
           isOpen' /\ ~threw' => Shows(m[n], start', bto', hto', blocks', hashes', size')
    PROVE  ArchiveInv'
<1>1. /\ n \in Nat /\ Len(ws) \in Nat /\ n <= Len(ws)
      /\ \A i \in 1..n : ws[i] \in T
  OBVIOUS
<1>2. /\ pending' \in Seq(T) /\ Len(pending') = n
      /\ \A i \in 1..n : pending'[i] = ws[i]
  BY <1>1, SubSeqProperties
<1>3. DiskStages(m, disk', pending')
  BY <1>1, <1>2 DEF DiskStages
<1>4. Written(T, m)'
  BY <1>2, <1>3 DEF Written
<1> QED
  BY <1>4 DEF ArchiveInv

(* A call that writes nothing.                                             *)
LEMMA WritesNothing ==
    ASSUME Sound(disk), disk' = disk, pending' = <<>>, MemInv', start' \in Nat,
           isOpen' /\ ~threw' => Shows(disk, start', bto', hto', blocks', hashes', size')
    PROVE  ArchiveInv'
<1>1. PICK d : d = disk
  OBVIOUS
<1> DEFINE m == [i \in 0..0 |-> d]
<1>2. m[0] = d /\ Len(<<>>) = 0 /\ <<>> \in Seq({}) /\ \A i \in 0..0 : i = 0
  OBVIOUS
<1> HIDE DEF m
<1>3. DiskStages(m, d, <<>>)
  BY <1>2 DEF DiskStages
<1>4. isOpen' /\ ~threw' => Shows(d, start', bto', hto', blocks', hashes', size')
  BY <1>1
<1>5. Sound(d)
  BY <1>1
<1>6. Written({}, m)'
  BY <1>1, <1>2, <1>3, <1>4, <1>5 DEF Written
<1> QED
  BY <1>6 DEF ArchiveInv

(* What each write makes of the file.                                      *)
LEMMA AppliesTruncate ==
    \A d, f : ApplyWrite(d, Truncate(f)) = FileOf(NoHeader, NoTable, NoTable, {}, f)
  BY DEF ApplyWrite, Truncate, EmptyFile, FileOf

(* The data is added to what is there.                                     *)
LEMMA AppliesData ==
    \A H, B, T, D, f, v :
        ApplyWrite(FileOf(H, B, T, D, f), Part("data", v)) = FileOf(H, B, T, D \union {v}, f)
  BY DEF ApplyWrite, Part, FileOf

(* The block table is replaced.                                            *)
LEMMA AppliesBlocks ==
    \A H, B, T, D, f, v :
        ApplyWrite(FileOf(H, B, T, D, f), Part("btab", v)) = FileOf(H, v, T, D, f)
  BY DEF ApplyWrite, Part, FileOf

(* The hash table is replaced.                                             *)
LEMMA AppliesHashes ==
    \A H, B, T, D, f, v :
        ApplyWrite(FileOf(H, B, T, D, f), Part("htab", v)) = FileOf(H, B, v, D, f)
  BY DEF ApplyWrite, Part, FileOf

(* The header is replaced, which makes it the header of an archive.        *)
LEMMA AppliesHeader ==
    \A H, B, T, D, f, v :
        ApplyWrite(FileOf(H, B, T, D, f), Part("header", v)) = FileOf(v, B, T, D, f)
  BY DEF ApplyWrite, Part, FileOf

(* The stages of four and of five writes.                                  *)
LEMMA FourStages ==
    ASSUME NEW d, NEW w1, NEW w2, NEW w3, NEW w4, NEW d1, NEW d2, NEW d3, NEW d4,
           d1 = ApplyWrite(d, w1), d2 = ApplyWrite(d1, w2), d3 = ApplyWrite(d2, w3),
           d4 = ApplyWrite(d3, w4)
    PROVE  \E m : /\ m[0] = d /\ m[1] = d1 /\ m[2] = d2 /\ m[3] = d3 /\ m[4] = d4
                  /\ DiskStages(m, d, <<w1, w2, w3, w4>>)
<1> DEFINE m == [i \in 0..4 |-> IF i = 0 THEN d ELSE IF i = 1 THEN d1 ELSE
                                IF i = 2 THEN d2 ELSE IF i = 3 THEN d3 ELSE d4]
           ws == <<w1, w2, w3, w4>>
<1>1. m[0] = d /\ m[1] = d1 /\ m[2] = d2 /\ m[3] = d3 /\ m[4] = d4
  OBVIOUS
<1>2. Len(ws) = 4 /\ ws[1] = w1 /\ ws[2] = w2 /\ ws[3] = w3 /\ ws[4] = w4
  OBVIOUS
<1> HIDE DEF m, ws
<1>3. \A i \in 1..4 : m[i] = ApplyWrite(m[i - 1], ws[i])
  <2>1. \A i \in 1..4 : i = 1 \/ i = 2 \/ i = 3 \/ i = 4
    OBVIOUS
  <2>2. 1 - 1 = 0 /\ 2 - 1 = 1 /\ 3 - 1 = 2 /\ 4 - 1 = 3
    OBVIOUS
  <2> QED BY <1>1, <1>2, <2>1, <2>2
<1>4. DiskStages(m, d, ws)
  BY <1>1, <1>2, <1>3 DEF DiskStages
<1> QED BY <1>1, <1>4 DEF ws

(* The same for five writes.                                               *)
LEMMA FiveStages ==
    ASSUME NEW d, NEW w1, NEW w2, NEW w3, NEW w4, NEW w5,
           NEW d1, NEW d2, NEW d3, NEW d4, NEW d5,
           d1 = ApplyWrite(d, w1), d2 = ApplyWrite(d1, w2), d3 = ApplyWrite(d2, w3),
           d4 = ApplyWrite(d3, w4), d5 = ApplyWrite(d4, w5)
    PROVE  \E m : /\ m[0] = d /\ m[1] = d1 /\ m[2] = d2 /\ m[3] = d3 /\ m[4] = d4 /\ m[5] = d5
                  /\ DiskStages(m, d, <<w1, w2, w3, w4, w5>>)
<1> DEFINE m == [i \in 0..5 |-> IF i = 0 THEN d ELSE IF i = 1 THEN d1 ELSE
                                IF i = 2 THEN d2 ELSE IF i = 3 THEN d3 ELSE
                                IF i = 4 THEN d4 ELSE d5]
           ws == <<w1, w2, w3, w4, w5>>
<1>1. m[0] = d /\ m[1] = d1 /\ m[2] = d2 /\ m[3] = d3 /\ m[4] = d4 /\ m[5] = d5
  OBVIOUS
<1>2. Len(ws) = 5 /\ ws[1] = w1 /\ ws[2] = w2 /\ ws[3] = w3 /\ ws[4] = w4 /\ ws[5] = w5
  OBVIOUS
<1> HIDE DEF m, ws
<1>3. \A i \in 1..5 : m[i] = ApplyWrite(m[i - 1], ws[i])
  <2>1. \A i \in 1..5 : i = 1 \/ i = 2 \/ i = 3 \/ i = 4 \/ i = 5
    OBVIOUS
  <2>2. 1 - 1 = 0 /\ 2 - 1 = 1 /\ 3 - 1 = 2 /\ 4 - 1 = 3 /\ 5 - 1 = 4
    OBVIOUS
  <2> QED BY <1>1, <1>2, <2>1, <2>2
<1>4. DiskStages(m, d, ws)
  BY <1>1, <1>2, <1>3 DEF DiskStages
<1> QED BY <1>1, <1>4 DEF ws

(* A file without a header, or one removeFile() has not finished, does not *)
(* open.                                                                   *)
LEMMA SoundFiles ==
    ASSUME NEW B, NEW T, NEW D, NEW f, NEW H
    PROVE  /\ Sound(FileOf(NoHeader, B, T, D, f))
           /\ Sound(FileOf(H, NoTable, T, D, "remove"))
           /\ Sound(FileOf(H, B, NoTable, D, "remove"))
  BY DEF Sound, Complete, FileOf

(* Only a table of one entry is written without garbage.                   *)
LEMMA OnlyLastWritten ==
    ASSUME NEW n \in Nat \ {0}, NEW e
    PROVE  LET t == LastOnly(n, e)
           IN  /\ Len(t) = n /\ \A i \in DOMAIN t : t[i] # Garbage => t[i] = e
               /\ (\A i \in DOMAIN t : t[i] # Garbage) => n = 1 /\ t = <<e>>
<1> DEFINE t == LastOnly(n, e)
<1>1. DOMAIN t = 1..n /\ Len(t) = n
  BY DEF LastOnly
<1>2. \A i \in 1..n : t[i] = IF i = 1 THEN e ELSE Garbage
  BY DEF LastOnly
<1>3. ASSUME \A i \in DOMAIN t : t[i] # Garbage
      PROVE  n = 1 /\ t = <<e>>
  <2>1. n = 1
    <3>1. CASE n > 1
      <4>1. 2 \in 1..n
        BY <3>1
      <4> HIDE DEF t
      <4> QED
        BY <1>1, <1>2, <1>3, <4>1
    <3> QED
      BY <3>1
  <2> QED
    BY <2>1 DEF LastOnly
<1> HIDE DEF t
<1>4. Len(t) = n /\ \A i \in DOMAIN t : t[i] # Garbage => t[i] = e
  BY <1>1, <1>2
<1> QED
  BY <1>3, <1>4 DEF t

(* The entries of a table and of the other are no garbage.                 *)
LEMMA EntriesAreWritten ==
    ASSUME NEW b, NEW h, NEW bs
    PROVE  BlockEntry(b) # Garbage /\ HashEntry(h, bs) # Garbage
<1>1. /\ DOMAIN BlockEntry(b) = {"offset", "blockSize", "fileSize", "flags"}
      /\ DOMAIN HashEntry(h, bs) = {"key", "index"} /\ DOMAIN Garbage = {"initialised"}
  BY DEF BlockEntry, HashEntry, Garbage
<1> QED
  BY <1>1

(* The tables that a call writes besides the header.                       *)
TablesOf(bt, ht, bs, hs) ==
    /\ Len(bt) = Len(bs) /\ Len(ht) = Len(hs)
    /\ Known(bt, {BlockEntry(bs[p]) : p \in DOMAIN bs})
    /\ Known(ht, {HashEntry(hs[s], bs) : s \in DOMAIN hs})
    /\ \/ \E i \in DOMAIN bt : bt[i] = Garbage
       \/ \E b, h : /\ bs = <<b>> /\ hs = <<h>>
                    /\ bt = <<BlockEntry(b)>> /\ ht = <<HashEntry(h, <<b>>)>>
LEMMA TablesWritten ==
    ASSUME NEW bs, NEW hs, TablePair(bs, hs), NEW ht \in HashTables(hs, bs)
    PROVE  TablesOf(BlockTable(bs), ht, bs, hs)
<1>1. /\ bs \in Seq(Block) /\ hs \in Seq(Hash) /\ Len(bs) = Len(hs)
  BY DEF TablePair, Even
<1>2. PICK s \in DOMAIN hs : ht = LastOnly(Len(bs), HashEntry(hs[s], bs))
  BY DEF HashTables
<1>3. PICK n \in Nat \ {0} : n = Len(bs) /\ n = Len(hs) /\ DOMAIN bs = 1..n /\ DOMAIN hs = 1..n
  BY <1>1, LenProperties
<1> DEFINE be == BlockEntry(bs[n])
           he == HashEntry(hs[s], bs)
           bt == LastOnly(n, be)
<1>4. BlockTable(bs) = bt /\ ht = LastOnly(n, he)
  BY <1>2, <1>3 DEF BlockTable
<1>5. be \in {BlockEntry(bs[p]) : p \in DOMAIN bs}
  <2>1. n \in DOMAIN bs
    BY <1>3
  <2> QED
    BY <2>1
<1>6. he \in {HashEntry(hs[u], bs) : u \in DOMAIN hs}
  OBVIOUS
<1> HIDE DEF be, he
<1>7. /\ Len(bt) = n /\ \A i \in DOMAIN bt : bt[i] # Garbage => bt[i] = be
      /\ (\A i \in DOMAIN bt : bt[i] # Garbage) => n = 1 /\ bt = <<be>>
  BY OnlyLastWritten
<1>8. /\ Len(ht) = n /\ \A i \in DOMAIN ht : ht[i] # Garbage => ht[i] = he
  BY <1>4, OnlyLastWritten
<1> HIDE DEF bt
<1>9. Known(bt, {BlockEntry(bs[p]) : p \in DOMAIN bs})
  BY <1>5, <1>7 DEF Known
<1>10. Known(ht, {HashEntry(hs[u], bs) : u \in DOMAIN hs})
  BY <1>6, <1>8 DEF Known
<1>11. ASSUME \A i \in DOMAIN bt : bt[i] # Garbage
       PROVE  \E b, h : /\ bs = <<b>> /\ hs = <<h>>
                        /\ bt = <<BlockEntry(b)>> /\ ht = <<HashEntry(h, <<b>>)>>
  <2>1. n = 1 /\ bt = <<be>>
    BY <1>7, <1>11
  <2>2. bs = <<bs[1]>> /\ hs = <<hs[1]>> /\ s = 1
    BY <1>1, <1>3, <2>1
  <2>3. ht = <<he>>
    BY <1>4, <2>1 DEF LastOnly
  <2>4. bt = <<BlockEntry(bs[1])>> /\ ht = <<HashEntry(hs[1], bs)>>
    BY <2>1, <2>2, <2>3 DEF be, he
  <2>5. PICK b, h : b = bs[1] /\ h = hs[1]
    OBVIOUS
  <2>6. bs = <<b>> /\ hs = <<h>>
    BY <2>2, <2>5
  <2>7. bt = <<BlockEntry(b)>> /\ ht = <<HashEntry(h, <<b>>)>>
    BY <2>4, <2>5, <2>6
  <2> QED
    BY <2>6, <2>7
<1>12. Len(bs) = n /\ Len(hs) = n /\ Len(bt) = n /\ Len(ht) = n
  BY <1>3, <1>7, <1>8
<1>13. TablesOf(bt, ht, bs, hs)
  BY <1>9, <1>10, <1>11, <1>12 DEF TablesOf
<1> QED
  BY <1>4, <1>13 DEF bt

(* A file with all its parts.                                              *)
LEMMA WholeFile ==
    ASSUME NEW bs, NEW hs, TablePair(bs, hs), NEW bOff, NEW hOff, TablesFirst(bOff, hOff, bs),
           NEW ht \in HashTables(hs, bs), NEW D, NEW f, NEW st \in Nat,
           NEW sz \in 0..(SizeModulus - 1),
           f = "add" => HasData(hs, bs, D),
           f \notin {"add", "remove"} => \A s \in DOMAIN hs : hs[s].block = NoBlock
    PROVE  LET d == FileOf(HeaderOf(st, bOff, hOff, bs, hs, sz), BlockTable(bs), ht, D, f)
           IN  Sound(d) /\ Shows(d, st, bOff, hOff, bs, hs, sz)
<1> DEFINE H == HeaderOf(st, bOff, hOff, bs, hs, sz)
           bt == BlockTable(bs)
           d == FileOf(H, bt, ht, D, f)
<1>1. TablesOf(bt, ht, bs, hs)
  BY TablesWritten
<1>2. /\ Len(bt) = Len(bs) /\ Len(ht) = Len(hs)
      /\ Known(bt, {BlockEntry(bs[p]) : p \in DOMAIN bs})
      /\ Known(ht, {HashEntry(hs[s], bs) : s \in DOMAIN hs})
  BY <1>1 DEF TablesOf
<1>3. H.blocks = Len(bs) /\ H.hashes = Len(hs)
  BY DEF HeaderOf
<1> HIDE DEF bt
<1>4. d.header = H /\ d.btab = bt /\ d.htab = ht /\ d.data = D /\ d.by = f
  BY DEF FileOf
<1>5. H = HeaderOf(st, bOff, hOff, bs, hs, sz)
  OBVIOUS
<1> HIDE DEF H, d
<1>6. Closed(d)
  <2>1. Len(d.btab) = d.header.blocks /\ Len(d.htab) = d.header.hashes
    BY <1>2, <1>3, <1>4
  <2>2. d.by = "add" => d.data # {}
    BY <1>4 DEF HasData
  <2> QED
    BY <2>1, <2>2 DEF Closed
<1>7. Shows(d, st, bOff, hOff, bs, hs, sz)
  BY <1>2, <1>4, <1>5 DEF Shows
<1>8. ASSUME Complete(d) PROVE \E b, h : Holds(d, b, h)
  <2>1. \A i \in DOMAIN bt : bt[i] # Garbage
    BY <1>4, <1>8 DEF Complete
  <2>2. PICK b, h : /\ bs = <<b>> /\ hs = <<h>>
                    /\ bt = <<BlockEntry(b)>> /\ ht = <<HashEntry(h, <<b>>)>>
    BY <1>1, <2>1 DEF TablesOf
  <2>3. /\ Len(bs) = 1 /\ Len(hs) = 1 /\ DOMAIN bs = {1} /\ DOMAIN hs = {1}
        /\ bs[1] = b /\ hs[1] = h /\ bs # <<>>
    BY <2>2
  <2>4. /\ b \in Block /\ h \in Hash /\ b.index = 0 /\ ~h.deleted /\ h.block \in {NoBlock, 1}
    <3>1. bs \in Seq(Block) /\ hs \in Seq(Hash) /\ Even(bs, hs)
          /\ hs[1].block \in {NoBlock} \union DOMAIN bs
      BY <2>3 DEF TablePair
    <3> QED
      BY <2>3, <3>1 DEF Even
  <2>5. h.block # NoBlock => h.key \in Keys /\ ~FreeBlock(b)
    <3>1. hs[1].block # NoBlock => hs[1].key \in Keys /\ ~FreeBlock(bs[hs[1].block])
      BY <2>3 DEF TablePair
    <3> QED
      BY <2>3, <2>4, <3>1
  <2>6. /\ bOff = HeaderSize /\ hOff = HeaderSize + EntrySize
        /\ b.blockSize > 0 => b.offset > 0
        /\ b.offset > 0 => HeaderSize + 2 * EntrySize <= b.offset
    BY <2>3 DEF TablesFirst, HeaderSize, EntrySize
  <2>7. Single(b, h)
    BY <2>4, <2>5, <2>6 DEF Single
  <2>8. OneHeader(d.header)
    BY <1>4, <1>5, <2>3, <2>6 DEF HeaderOf, OneHeader
  <2>9. f = "add" => h.block # NoBlock /\ DataOf(h.key, b.offset, b) \in D
    <3> SUFFICES ASSUME f = "add"
                 PROVE  h.block # NoBlock /\ DataOf(h.key, b.offset, b) \in D
      OBVIOUS
    <3>1. PICK s \in DOMAIN hs :
             /\ ~FreeHash(hs[s])
             /\ DataOf(hs[s].key, bs[hs[s].block].offset, bs[hs[s].block]) \in D
      BY DEF HasData
    <3>2. s = 1 /\ hs[s] = h
      BY <2>3
    <3>3. h.block # NoBlock
      BY <2>4, <3>1, <3>2 DEF FreeHash, EmptyHash
    <3>4. h.block = 1
      BY <2>4, <3>3
    <3> QED
      BY <2>3, <3>1, <3>2, <3>3, <3>4
  <2>10. f \notin {"add", "remove"} => h.block = NoBlock
    BY <2>3
  <2>11. Holds(d, b, h)
    <3>1. d.btab = <<BlockEntry(b)>> /\ d.htab = <<HashEntry(h, <<b>>)>>
      BY <1>4, <2>2
    <3>2. d.by # "remove" /\ h.block # NoBlock => DataOf(h.key, b.offset, b) \in d.data
      BY <1>4, <2>9, <2>10
    <3>3. d.by = "add" => h.block # NoBlock
      BY <1>4, <2>9
    <3> QED
      BY <2>7, <2>8, <3>1, <3>2, <3>3 DEF Holds
  <2> QED
    BY <2>11
<1>9. Sound(d)
  BY <1>6, <1>8 DEF Sound
<1>10. Sound(d) /\ Shows(d, st, bOff, hOff, bs, hs, sz)
  BY <1>7, <1>9
<1> QED
  BY <1>10 DEF d, H, bt

-----------------------------------------------------------------------------
(* The stages of the file in each call that writes it.                     *)
CallStages(T, ws, m, n) ==
    /\ ws \in Seq(T) /\ Len(ws) = n /\ DiskStages(m, disk, ws)
    /\ \A i \in 0..(n - 1) : Sound(m[i])
    /\ isOpen' => Sound(m[n]) /\ Shows(m[n], start', bto', hto', blocks', hashes', size')

(* The file that is there when the last write is done.                     *)
LEMMA LastStage ==
    ASSUME MemInv', isOpen', start' \in Nat, NEW ht \in HashTables(hashes', blocks'), NEW D, NEW f,
           f = "add" => HasData(hashes', blocks', D),
           f \notin {"add", "remove"} => NoData(blocks', hashes')
    PROVE  LET d == FileOf(NewHeader, BlockTable(blocks'), ht, D, f)
           IN  Sound(d) /\ Shows(d, start', bto', hto', blocks', hashes', size')
<1>1. TablePair(blocks', hashes') /\ TablesFirst(bto', hto', blocks')
  BY DEF MemInv, Placed
<1>2. size' \in 0..(SizeModulus - 1)
  BY DEF MemInv, IInv, TypeOK
<1>3. f \notin {"add", "remove"} => \A s \in DOMAIN hashes' : hashes'[s].block = NoBlock
  BY DEF NoData
<1> QED
  BY <1>1, <1>2, <1>3, WholeFile DEF NewHeader

(* create() writes the header last.                                        *)
LEMMA CreateWritten ==
    ASSUME MemInv', NoData(blocks', hashes'), Sound(disk), start' \in Nat,
           NEW ht \in HashTables(hashes', blocks')
    PROVE  \E T, m : CallStages(T, CreateWrites(ht), m, 4)
<1> DEFINE bt == BlockTable(blocks')
           H == NewHeader
           w1 == Truncate("create")
           w2 == Part("btab", bt)
           w3 == Part("htab", ht)
           w4 == Part("header", H)
           d1 == FileOf(NoHeader, NoTable, NoTable, {}, "create")
           d2 == FileOf(NoHeader, bt, NoTable, {}, "create")
           d3 == FileOf(NoHeader, bt, ht, {}, "create")
           d4 == FileOf(H, bt, ht, {}, "create")
           ws == <<w1, w2, w3, w4>>
<1>1. isOpen' => Sound(d4) /\ Shows(d4, start', bto', hto', blocks', hashes', size')
  BY LastStage
<1>2. ws = CreateWrites(ht)
  BY DEF CreateWrites
<1> HIDE DEF bt, H
<1>3. PICK d : d = disk
  OBVIOUS
<1>4. d1 = ApplyWrite(d, w1) /\ d2 = ApplyWrite(d1, w2) /\ d3 = ApplyWrite(d2, w3)
      /\ d4 = ApplyWrite(d3, w4)
  BY AppliesTruncate, AppliesBlocks, AppliesHashes, AppliesHeader
<1>5. Sound(d1) /\ Sound(d2) /\ Sound(d3)
  BY SoundFiles
<1> HIDE DEF d1, d2, d3, d4
<1>6. Len(ws) = 4 /\ ws \in Seq({w1, w2, w3, w4})
  OBVIOUS
<1>7. PICK m : /\ m[0] = d /\ m[1] = d1 /\ m[2] = d2 /\ m[3] = d3 /\ m[4] = d4
               /\ DiskStages(m, d, ws)
  <2> HIDE DEF w1, w2, w3, w4
  <2> QED
    BY <1>4, FourStages
<1> HIDE DEF ws
<1>8. \A i \in 0..(4 - 1) : Sound(m[i])
  <2>1. \A i \in 0..(4 - 1) : i = 0 \/ i = 1 \/ i = 2 \/ i = 3
    OBVIOUS
  <2> QED
    BY <1>3, <1>5, <1>7, <2>1
<1>9. CallStages({w1, w2, w3, w4}, ws, m, 4)
  BY <1>1, <1>3, <1>6, <1>7, <1>8 DEF CallStages
<1> QED
  BY <1>2, <1>9

(* So does addFile(), behind the data.                                     *)
LEMMA AddWritten ==
    ASSUME MemInv', Sound(disk), start' \in Nat, NEW k, NEW s \in DOMAIN hashes',
           ~FreeHash(hashes'[s]), hashes'[s].key = k, hashes'[s].block = FirstFreeBlock,
           NEW ht \in HashTables(hashes', blocks')
    PROVE  \E T, m : CallStages(T, AddWrites(k, ht), m, 5)
<1> DEFINE p == FirstFreeBlock
           bt == BlockTable(blocks')
           H == NewHeader
           v == DataOf(k, blocks'[p].offset, blocks'[p])
           D == {} \union {v}
           w1 == Truncate("add")
           w2 == Part("data", v)
           w3 == Part("btab", bt)
           w4 == Part("htab", ht)
           w5 == Part("header", H)
           d1 == FileOf(NoHeader, NoTable, NoTable, {}, "add")
           d2 == FileOf(NoHeader, NoTable, NoTable, D, "add")
           d3 == FileOf(NoHeader, bt, NoTable, D, "add")
           d4 == FileOf(NoHeader, bt, ht, D, "add")
           d5 == FileOf(H, bt, ht, D, "add")
           ws == <<w1, w2, w3, w4, w5>>
<1>1. HasData(hashes', blocks', D)
  <2>1. v \in D
    OBVIOUS
  <2> HIDE DEF D
  <2> QED
    BY <2>1 DEF HasData
<1>2. isOpen' => Sound(d5) /\ Shows(d5, start', bto', hto', blocks', hashes', size')
  <2> HIDE DEF D
  <2> QED
    BY <1>1, LastStage
<1>3. ws = AddWrites(k, ht)
  BY DEF AddWrites
<1> HIDE DEF bt, H, v, p
<1>4. PICK d : d = disk
  OBVIOUS
<1>5. d1 = ApplyWrite(d, w1) /\ d2 = ApplyWrite(d1, w2) /\ d3 = ApplyWrite(d2, w3)
      /\ d4 = ApplyWrite(d3, w4) /\ d5 = ApplyWrite(d4, w5)
  BY AppliesTruncate, AppliesData, AppliesBlocks, AppliesHashes, AppliesHeader
<1>6. Sound(d1) /\ Sound(d2) /\ Sound(d3) /\ Sound(d4)
  BY SoundFiles
<1> HIDE DEF d1, d2, d3, d4, d5
<1>7. Len(ws) = 5 /\ ws \in Seq({w1, w2, w3, w4, w5})
  OBVIOUS
<1>8. PICK m : /\ m[0] = d /\ m[1] = d1 /\ m[2] = d2 /\ m[3] = d3 /\ m[4] = d4 /\ m[5] = d5
               /\ DiskStages(m, d, ws)
  <2> HIDE DEF w1, w2, w3, w4, w5
  <2> QED
    BY <1>5, FiveStages
<1> HIDE DEF ws
<1>9. \A i \in 0..(5 - 1) : Sound(m[i])
  <2>1. \A i \in 0..(5 - 1) : i = 0 \/ i = 1 \/ i = 2 \/ i = 3 \/ i = 4
    OBVIOUS
  <2> QED
    BY <1>4, <1>6, <1>8, <2>1
<1>10. CallStages({w1, w2, w3, w4, w5}, ws, m, 5)
  BY <1>2, <1>4, <1>7, <1>8, <1>9 DEF CallStages
<1> QED
  BY <1>3, <1>10

(* removeFile() writes the header first, but what it leaves unfinished     *)
(* lacks a table.                                                          *)
LEMMA RemoveWritten ==
    ASSUME MemInv', isOpen', Sound(disk), start' \in Nat, NEW ht \in HashTables(hashes', blocks')
    PROVE  \E T, m : CallStages(T, RemoveWrites(ht), m, 4)
<1> DEFINE bt == BlockTable(blocks')
           H == NewHeader
           w1 == Truncate("remove")
           w2 == Part("header", H)
           w3 == Part("btab", bt)
           w4 == Part("htab", ht)
           d1 == FileOf(NoHeader, NoTable, NoTable, {}, "remove")
           d2 == FileOf(H, NoTable, NoTable, {}, "remove")
           d3 == FileOf(H, bt, NoTable, {}, "remove")
           d4 == FileOf(H, bt, ht, {}, "remove")
           ws == <<w1, w2, w3, w4>>
<1>1. Sound(d4) /\ Shows(d4, start', bto', hto', blocks', hashes', size')
  BY LastStage
<1>2. ws = RemoveWrites(ht)
  BY DEF RemoveWrites
<1> HIDE DEF bt, H
<1>3. PICK d : d = disk
  OBVIOUS
<1>4. d1 = ApplyWrite(d, w1) /\ d2 = ApplyWrite(d1, w2) /\ d3 = ApplyWrite(d2, w3)
      /\ d4 = ApplyWrite(d3, w4)
  BY AppliesTruncate, AppliesBlocks, AppliesHashes, AppliesHeader
<1>5. Sound(d1) /\ Sound(d2) /\ Sound(d3)
  BY SoundFiles
<1> HIDE DEF d1, d2, d3, d4
<1>6. Len(ws) = 4 /\ ws \in Seq({w1, w2, w3, w4})
  OBVIOUS
<1>7. PICK m : /\ m[0] = d /\ m[1] = d1 /\ m[2] = d2 /\ m[3] = d3 /\ m[4] = d4
               /\ DiskStages(m, d, ws)
  <2> HIDE DEF w1, w2, w3, w4
  <2> QED
    BY <1>4, FourStages
<1> HIDE DEF ws
<1>8. \A i \in 0..(4 - 1) : Sound(m[i])
  <2>1. \A i \in 0..(4 - 1) : i = 0 \/ i = 1 \/ i = 2 \/ i = 3
    OBVIOUS
  <2> QED
    BY <1>3, <1>5, <1>7, <2>1
<1>9. CallStages({w1, w2, w3, w4}, ws, m, 4)
  BY <1>1, <1>3, <1>6, <1>7, <1>8 DEF CallStages
<1> QED
  BY <1>2, <1>9

(* A call that does some of its writes, and not all if it throws.          *)
LEMMA CallWrites ==
    ASSUME NEW T, NEW ws, NEW m, NEW z \in Nat, NEW n \in 0..z, CallStages(T, ws, m, z),
           Start(ws, n), MemInv', start' \in Nat, n = z => isOpen'
    PROVE  ArchiveInv'
<1>1. ws \in Seq(T) /\ Len(ws) = z /\ DiskStages(m, disk, ws)
      /\ disk' = disk /\ pending' = SubSeq(ws, 1, n) /\ threw' = (n < z)
  BY DEF CallStages, Start
<1>2. \A i \in 0..n : Sound(m[i])
  <2>1. \A i \in 0..n : i \in 0..(z - 1) \/ (i = z /\ n = z)
    OBVIOUS
  <2>2. \A i \in 0..(z - 1) : Sound(m[i])
    BY DEF CallStages
  <2>3. n = z => Sound(m[z])
    BY DEF CallStages
  <2> QED
    BY <2>1, <2>2, <2>3
<1>3. isOpen' /\ ~threw' => Shows(m[n], start', bto', hto', blocks', hashes', size')
  <2>1. n < z \/ n = z
    OBVIOUS
  <2>2. n < z => threw'
    <3>1. threw' = (n < z)
      BY <1>1
    <3> QED
      BY <3>1, Zenon
  <2>3. isOpen' => Shows(m[z], start', bto', hto', blocks', hashes', size')
    BY DEF CallStages
  <2>4. n = z => m[n] = m[z]
    OBVIOUS
  <2>5. CASE n = z
    BY <2>3, <2>5, Zenon
  <2> QED
    BY <2>1, <2>2, <2>5, Zenon
<1> QED
  BY <1>1, <1>2, <1>3, StartsWell

-----------------------------------------------------------------------------
(* Every step keeps the invariant: the calls one by one.                   *)
LEMMA Modulo ==
    /\ 0 \in 0..(SizeModulus - 1)
    /\ \A x \in Int : x % SizeModulus \in 0..(SizeModulus - 1)
  BY BoundsAssumption

(* create() that gets to its end.                                          *)
LEMMA CreateFileKeeps ==
    ASSUME ArchiveInv, NEW a \in TableSizes, NEW b \in TableSizes,
           NEW st \in StartPositions, CreateFile(a, b, st)
    PROVE  ArchiveInv'
<1>1. MemInv /\ Sound(disk) /\ AppendEntries(b) /\ isOpen' = TRUE /\ start' \in Nat
      /\ hto' = CreatedHto(Len(blocks')) /\ size' = CreatedSize(Len(blocks'))
  BY FileIsSound, StartAssumption DEF ArchiveInv, CreateFile, Create
<1>2. Len(blocks') \in Nat
  <2>1. blocks' \in Seq(Block)
    BY <1>1, AppendShape DEF MemInv, IInv
  <2> QED
    BY <2>1, LenProperties
<1>3. hto' \in Nat /\ size' \in 0..(SizeModulus - 1)
  BY <1>1, <1>2, Modulo DEF CreatedHto, CreatedSize, HeaderSize, EntrySize
<1>4. MemInv' /\ NoData(blocks', hashes')
  BY <1>1, <1>3, CreateMemory
<1>5. PICK ht \in HashTables(hashes', blocks') : Start(CreateWrites(ht), 4)
  BY DEF CreateFile
<1>6. PICK T, m : CallStages(T, CreateWrites(ht), m, 4)
  BY <1>1, <1>4, CreateWritten
<1>7. 4 \in 0..4
  OBVIOUS
<1> QED
  BY <1>1, <1>4, <1>5, <1>6, <1>7, CallWrites

(* create() that throws before it.                                         *)
LEMMA CreateFileThrowsKeeps ==
    ASSUME ArchiveInv, NEW a \in TableSizes, NEW b \in TableSizes,
           NEW st \in StartPositions, CreateFileThrows(a, b, st)
    PROVE  ArchiveInv'
<1>1. MemInv /\ Sound(disk) /\ AppendEntries(b) /\ isOpen' = FALSE /\ start' \in Nat
  BY FileIsSound, StartAssumption DEF ArchiveInv, CreateFileThrows, CreateThrows
<1>2. /\ hto' \in {0, hto, CreatedHto(Len(blocks'))}
      /\ size' \in {0, size, CreatedSize(Len(blocks'))}
  BY DEF CreateFileThrows, CreateThrows
<1>3. Len(blocks') \in Nat
  <2>1. blocks' \in Seq(Block)
    BY <1>1, AppendShape DEF MemInv, IInv
  <2> QED
    BY <2>1, LenProperties
<1>4. hto' \in Nat /\ size' \in 0..(SizeModulus - 1)
  <2>1. hto \in Nat /\ size \in 0..(SizeModulus - 1)
    BY <1>1 DEF MemInv, IInv, TypeOK
  <2>2. ASSUME NEW n \in Nat
        PROVE  CreatedHto(n) \in Nat /\ CreatedSize(n) \in 0..(SizeModulus - 1)
    <3>1. CreatedHto(n) \in Nat /\ HeaderSize + 2 * n * EntrySize \in Int
      BY DEF CreatedHto, HeaderSize, EntrySize
    <3>2. CreatedSize(n) = (HeaderSize + 2 * n * EntrySize) % SizeModulus
      BY DEF CreatedSize
    <3> QED
      BY <3>1, <3>2, Modulo
  <2>3. CreatedHto(Len(blocks')) \in Nat /\ CreatedSize(Len(blocks')) \in 0..(SizeModulus - 1)
    BY <1>3, <2>2
  <2>4. hto' \in Nat
    <3>1. hto' = 0 \/ hto' = hto \/ hto' = CreatedHto(Len(blocks'))
      BY <1>2
    <3> QED
      BY <2>1, <2>3, <3>1
  <2>5. size' \in 0..(SizeModulus - 1)
    <3>1. 0 \in 0..(SizeModulus - 1)
      BY Modulo
    <3>2. size' = 0 \/ size' = size \/ size' = CreatedSize(Len(blocks'))
      BY <1>2
    <3> QED
      BY <2>1, <2>3, <3>1, <3>2, Zenon
  <2> QED
    BY <2>4, <2>5
<1>5. MemInv' /\ NoData(blocks', hashes')
  BY <1>1, <1>4, CreateMemory
<1>6. PICK ht \in HashTables(hashes', blocks'), n \in 1..3 : Start(CreateWrites(ht), n)
  BY DEF CreateFileThrows
<1>7. PICK T, m : CallStages(T, CreateWrites(ht), m, 4)
  BY <1>1, <1>5, CreateWritten
<1>8. n \in 0..4 /\ n # 4
  OBVIOUS
<1> QED
  BY <1>1, <1>5, <1>6, <1>7, <1>8, CallWrites

(* addFile(), once it has put the file into the tables.                    *)
LEMMA AddKeeps ==
    ASSUME FilesNotEmpty, ArchiveInv, isOpen, NEW k \in Keys, NEW l \in Layouts, CanAdd(l),
           NEW old \in FreeKeys, InsertFile(old, k, l), IInv',
           UNCHANGED <<isOpen, bto, hto, start>>, NEW n \in 0..5,
           NEW ht \in HashTables(hashes', blocks'), Start(AddWrites(k, ht), n)
    PROVE  ArchiveInv'
<1>1. MemInv /\ Sound(disk) /\ start' \in Nat
  BY FileIsSound DEF ArchiveInv
<1>2. MemInv'
  BY <1>1, InsertMemory
<1>3. PICK s \in DOMAIN hashes' : /\ ~FreeHash(hashes'[s]) /\ hashes'[s].key = k
                                  /\ hashes'[s].block = FirstFreeBlock
  BY <1>1, InsertMemory
<1>4. PICK T, m : CallStages(T, AddWrites(k, ht), m, 5)
  BY <1>1, <1>2, <1>3, AddWritten
<1> QED
  BY <1>1, <1>2, <1>4, CallWrites

(* m_size stays within its width.                                          *)
LEMMA AddedSize ==
    ASSUME MemInv, NEW l \in Layouts
    PROVE  (size + l.blockSize) % SizeModulus \in 0..(SizeModulus - 1)
<1>1. size + l.blockSize \in Int
  BY LayoutsAssumption, BoundsAssumption DEF MemInv, IInv, TypeOK, Layout
<1> QED
  BY <1>1, Modulo

(* addFile() that gets to its end.                                         *)
LEMMA AddFileKeeps ==
    ASSUME FilesNotEmpty, ArchiveInv, NEW c \in Clients, NEW k \in Keys, NEW l \in Layouts,
           AddFile(c, k, l)
    PROVE  ArchiveInv'
<1>1. /\ MemInv /\ IInv /\ isOpen /\ CanAdd(l) /\ FreeBlocks # {}
      /\ UNCHANGED <<isOpen, bto, hto, start>>
      /\ size' = (size + l.blockSize) % SizeModulus
  BY DEF ArchiveInv, MemInv, AddFile, Add, CanAdd
<1>2. PICK old \in FreeKeys :
         /\ InsertFile(old, k, l)
         /\ held' = [Dangle(held, {head[old]}) EXCEPT ![c] = FindFile(hashes', head', k)]
  BY DEF AddFile, Add
<1>3. size' \in 0..(SizeModulus - 1)
  BY <1>1, AddedSize
<1>4. IInv'
  BY <1>1, <1>2, <1>3, InsertKeepsInv
<1>5. PICK ht \in HashTables(hashes', blocks') : Start(AddWrites(k, ht), 5)
  BY DEF AddFile
<1>6. 5 \in 0..5
  OBVIOUS
<1> QED
  BY <1>1, <1>2, <1>4, <1>5, <1>6, AddKeeps

(* addFile() that throws when the file is in the tables.                   *)
LEMMA AddFileThrowsKeeps ==
    ASSUME FilesNotEmpty, ArchiveInv, NEW k \in Keys, NEW l \in Layouts, AddFileThrows(k, l)
    PROVE  ArchiveInv'
<1>1. /\ MemInv /\ IInv /\ isOpen /\ CanAdd(l) /\ FreeBlocks # {}
      /\ UNCHANGED <<isOpen, bto, hto, start>>
      /\ size' = size \/ size' = (size + l.blockSize) % SizeModulus
  BY DEF ArchiveInv, MemInv, AddFileThrows, AddThrows, CanAdd
<1>2. PICK old \in FreeKeys : InsertFile(old, k, l) /\ held' = Dangle(held, {head[old]})
  BY DEF AddFileThrows, AddThrows
<1>3. size' \in 0..(SizeModulus - 1)
  <2>1. size \in 0..(SizeModulus - 1)
    BY <1>1 DEF IInv, TypeOK
  <2> QED
    BY <1>1, <2>1, AddedSize
<1>4. IInv'
  BY <1>1, <1>2, <1>3, InsertKeepsInv
<1>5. PICK ht \in HashTables(hashes', blocks'), n \in 2..4 : Start(AddWrites(k, ht), n)
  BY DEF AddFileThrows
<1>6. n \in 0..5
  OBVIOUS
<1> QED
  BY <1>1, <1>2, <1>4, <1>5, <1>6, AddKeeps

(* addFile() that cannot write the data has emptied the file, or not even  *)
(* that.                                                                   *)
LEMMA AddFileDataThrowsKeeps ==
    ASSUME ArchiveInv, NEW l \in Layouts, AddFileDataThrows(l)
    PROVE  ArchiveInv'
<1>1. /\ MemInv /\ Sound(disk) /\ start' \in Nat /\ threw' = TRUE /\ disk' = disk
      /\ isOpen /\ AddDataThrows(l)
  BY FileIsSound DEF AddFileDataThrows, ArchiveInv
<1>2. MemInv'
  BY <1>1, DataThrowsMemory
<1>3. PICK n \in 0..1 : pending' = SubSeq(<<Truncate("add")>>, 1, n)
  BY DEF AddFileDataThrows
<1> DEFINE w == Truncate("add")
           ws == <<w>>
           e == FileOf(NoHeader, NoTable, NoTable, {}, "add")
<1>4. PICK d : d = disk
  OBVIOUS
<1> DEFINE m == [i \in 0..1 |-> IF i = 0 THEN d ELSE e]
<1>5. e = ApplyWrite(d, w) /\ Sound(e)
  BY AppliesTruncate, SoundFiles
<1> HIDE DEF e, w
<1>6. /\ m[0] = d /\ m[1] = e /\ Len(ws) = 1 /\ ws[1] = w /\ ws \in Seq({w})
      /\ \A i \in 0..1 : i = 0 \/ i = 1
  OBVIOUS
<1>7. pending' = SubSeq(ws, 1, n)
  BY <1>3 DEF w
<1> HIDE DEF m, ws
<1>8. DiskStages(m, d, ws)
  <2>1. \A i \in 1..1 : i = 1 /\ i - 1 = 0
    OBVIOUS
  <2> QED
    BY <1>5, <1>6, <2>1 DEF DiskStages
<1>9. \A i \in 0..n : Sound(m[i])
  BY <1>1, <1>4, <1>5, <1>6
<1>10. DiskStages(m, disk, ws) /\ n \in 0..Len(ws)
  BY <1>4, <1>6, <1>8
<1> QED
  BY <1>1, <1>2, <1>6, <1>7, <1>9, <1>10, StartsWell

(* removeFile(), whether a write throws or not.                            *)
LEMMA RemoveFileKeeps ==
    ASSUME ArchiveInv, NEW c \in Clients, RemoveFile(c)
    PROVE  ArchiveInv'
<1>1. MemInv /\ Sound(disk) /\ start' \in Nat /\ RemoveEntry(c)
  BY FileIsSound DEF RemoveFile, ArchiveInv
<1>2. MemInv' /\ isOpen'
  <2>1. MemInv' /\ isOpen
    BY <1>1, RemoveMemory
  <2> QED
    BY <1>1, <2>1 DEF RemoveEntry
<1>3. PICK ht \in HashTables(hashes', blocks'), n \in 0..4 : Start(RemoveWrites(ht), n)
  BY DEF RemoveFile
<1>4. PICK T, m : CallStages(T, RemoveWrites(ht), m, 4)
  BY <1>1, <1>2, RemoveWritten
<1>5. 4 \in Nat
  OBVIOUS
<1> QED
  BY <1>1, <1>2, <1>3, <1>4, <1>5, CallWrites

(* open() makes of a complete file the entries it was written from.        *)
LEMMA OpenedEntry ==
    ASSUME NEW d, NEW b, NEW h, Holds(d, b, h)
    PROVE  LET im == ImageOf(d)
           IN  im.blocks = <<b>> /\ im.hashes = <<h>>
<1> DEFINE be == BlockEntry(b)
           he == HashEntry(h, <<b>>)
           B == ImageOf(d).blocks
           T == ImageOf(d).hashes
<1>1. /\ b \in Block /\ b.index = 0 /\ h \in Hash /\ ~h.deleted /\ h.block \in {0, 1}
      /\ d.btab = <<be>> /\ d.htab = <<he>> /\ d.header.blocks = 1 /\ d.header.hashes = 1
  BY DEF Holds, Single, OneHeader, NoBlock
<1>2. /\ be.offset = b.offset /\ be.blockSize = b.blockSize /\ be.fileSize = b.fileSize
      /\ be.flags = b.flags
  BY DEF BlockEntry
<1>3. he.key = h.key /\ he.index + 1 = h.block
  <2>1. <<b>>[1] = b
    OBVIOUS
  <2> QED
    BY <1>1, <2>1 DEF HashEntry, NoBlock
<1> HIDE DEF be, he
<1>4. B = <<b>>
  <2>1. B = [i \in 1..1 |-> [index |-> i - 1, offset |-> <<be>>[i].offset,
                             blockSize |-> <<be>>[i].blockSize, fileSize |-> <<be>>[i].fileSize,
                             flags |-> <<be>>[i].flags]]
    BY <1>1 DEF ImageOf
  <2>2. \A i \in 1..1 : i - 1 = 0 /\ <<be>>[i] = be
    OBVIOUS
  <2>3. b = [index |-> 0, offset |-> b.offset, blockSize |-> b.blockSize,
             fileSize |-> b.fileSize, flags |-> b.flags]
    BY <1>1 DEF Block
  <2>4. \A i \in 1..1 : [index |-> i - 1, offset |-> <<be>>[i].offset,
                         blockSize |-> <<be>>[i].blockSize, fileSize |-> <<be>>[i].fileSize,
                         flags |-> <<be>>[i].flags] = b
    BY <1>2, <2>2, <2>3
  <2> HIDE DEF B
  <2>5. B = [i \in 1..1 |-> b]
    BY <2>1, <2>4
  <2> QED
    BY <2>5
<1>5. T = <<h>>
  <2>1. T = [i \in 1..1 |-> [key |-> <<he>>[i].key, block |-> <<he>>[i].index + 1,
                             deleted |-> FALSE]]
    BY <1>1 DEF ImageOf
  <2>2. \A i \in 1..1 : <<he>>[i] = he
    OBVIOUS
  <2>3. h = [key |-> h.key, block |-> h.block, deleted |-> FALSE]
    BY <1>1 DEF Hash
  <2>4. \A i \in 1..1 : [key |-> <<he>>[i].key, block |-> <<he>>[i].index + 1,
                         deleted |-> FALSE] = h
    BY <1>3, <2>2, <2>3
  <2> HIDE DEF T
  <2>5. T = [i \in 1..1 |-> h]
    BY <2>1, <2>4
  <2> QED
    BY <2>5
<1> HIDE DEF B, T
<1>6. B = <<b>> /\ T = <<h>>
  BY <1>4, <1>5
<1> QED
  BY <1>6 DEF B, T

(* The tables of one block and one hash.                                   *)
LEMMA SingleMemory ==
    ASSUME TypeOK, NEW b, NEW h, Single(b, h),
           isOpen' = TRUE, blocks' = <<b>>, hashes' = <<h>>, head' = InsertedInOrder(<<h>>),
           bto' = HeaderSize, hto' = HeaderSize + EntrySize, size' \in 0..(SizeModulus - 1),
           held' = Dangle(held, DOMAIN hashes)
    PROVE  MemInv'
<1>1. /\ b \in Block /\ b.index = 0 /\ h \in Hash /\ ~h.deleted /\ h.block \in {NoBlock, 1}
      /\ h.block # NoBlock => h.key \in Keys /\ ~FreeBlock(b)
      /\ b.blockSize > 0 => b.offset > 0
      /\ b.offset > 0 => HeaderSize + 2 * EntrySize <= b.offset
  BY DEF Single
<1>2. /\ blocks' \in Seq(Block) /\ hashes' \in Seq(Hash) /\ DOMAIN blocks' = {1}
      /\ DOMAIN hashes' = {1} /\ Len(blocks') = 1 /\ Len(hashes') = 1
      /\ blocks'[1] = b /\ hashes'[1] = h
  BY <1>1
<1>3. h.key \in AllKeys
  BY <1>1 DEF Hash
<1>4. \A k \in AllKeys : head'[k] = IF k = h.key THEN 1 ELSE NoSlot
  <2>1. \A k : Group(<<h>>, k) = IF k = h.key THEN {1} ELSE {}
    BY DEF Group
  <2>2. Least({1}) = 1
    BY DEF Least
  <2> QED
    BY <2>1, <2>2 DEF InsertedInOrder
<1>5. head' \in [AllKeys -> {NoSlot} \union DOMAIN hashes']
  <2>1. head' = [k \in AllKeys |-> head'[k]]
    BY DEF InsertedInOrder
  <2> QED
    BY <1>2, <1>4, <2>1
<1>6. held' \in [Clients -> Handle] /\ \A c \in Clients : held'[c].state # "live"
  <2>1. \A c \in Clients : held[c].state = "live" => held[c].slot \in DOMAIN hashes
    BY DEF TypeOK
  <2> QED
    BY <2>1, DangleShape
<1>7. TypeOK'
  <2>1. hashes'[1].block \in {NoBlock} \union DOMAIN blocks' /\ ~hashes'[1].deleted
    BY <1>1, <1>2
  <2> QED
    BY <1>2, <1>5, <1>6, <2>1 DEF TypeOK, HeaderSize, EntrySize
<1>8. HeadsLeadGroups'
  <2>1. \A k \in AllKeys : Group(hashes', k) = IF k = h.key THEN {1} ELSE {}
    BY <1>2 DEF Group
  <2> QED
    BY <1>4, <2>1 DEF HeadsLeadGroups
<1>9. FreeHash(h) <=> h.block = NoBlock
  BY <1>1 DEF FreeHash, EmptyHash
<1>10. OnlyHeadsFree'
  <2>1. h.key \notin Keys => FreeHash(h)
    BY <1>1, <1>9
  <2>2. head'[h.key] = 1
    BY <1>3, <1>4
  <2> QED
    BY <1>2, <2>1, <2>2 DEF OnlyHeadsFree
<1>11. NoSharedBlock'
  <2>1. ~FreeHash(h) => h.block = 1 /\ ~FreeBlock(b)
    BY <1>1, <1>9
  <2> QED
    BY <1>2, <2>1 DEF NoSharedBlock, UsedSlots, TakenBlocks
<1>12. HandlesLead'
  BY <1>6 DEF HandlesLead
<1>13. IInv'
  BY <1>7, <1>8, <1>10, <1>11, <1>12 DEF IInv
<1>14. Even(blocks', hashes')
  BY <1>1, <1>2 DEF Even
<1>15. TablePair(blocks', hashes')
  BY <1>13, <1>14, PairNext
<1>16. TablesFirst(bto', hto', blocks')
  BY <1>1, <1>2 DEF TablesFirst, HeaderSize, EntrySize
<1> QED
  BY <1>13, <1>15, <1>16 DEF MemInv, Placed

(* open() of a file that is complete.                                      *)
LEMMA OpenFileKeeps ==
    ASSUME ArchiveInv, OpenFile
    PROVE  ArchiveInv'
<1>1. /\ MemInv /\ Sound(disk) /\ Complete(disk) /\ Open(ImageOf(disk))
      /\ start' = disk.header.start /\ disk' = disk /\ pending' = <<>>
  BY FileIsSound DEF OpenFile, Idle, ArchiveInv
<1>2. PICK b, h : Holds(disk, b, h)
  BY <1>1 DEF Sound
<1>3. PICK st \in Nat, sz \in 0..(SizeModulus - 1) :
        disk.header = [start |-> st, bto |-> HeaderSize, hto |-> HeaderSize + EntrySize,
                       blocks |-> 1, hashes |-> 1, size |-> sz]
  BY <1>2 DEF Holds, OneHeader
<1>4. ImageOf(disk).blocks = <<b>> /\ ImageOf(disk).hashes = <<h>>
  BY <1>2, OpenedEntry
<1>5. /\ isOpen' = TRUE /\ blocks' = <<b>> /\ hashes' = <<h>> /\ head' = InsertedInOrder(<<h>>)
      /\ bto' = HeaderSize /\ hto' = HeaderSize + EntrySize /\ size' = sz % SizeModulus
      /\ held' = Dangle(held, DOMAIN hashes) /\ start' = st
  <2>1. /\ ImageOf(disk).bto = disk.header.bto /\ ImageOf(disk).hto = disk.header.hto
        /\ ImageOf(disk).size = disk.header.size
    BY DEF ImageOf
  <2>2. /\ isOpen' = TRUE /\ blocks' = ImageOf(disk).blocks /\ hashes' = ImageOf(disk).hashes
        /\ head' = InsertedInOrder(ImageOf(disk).hashes)
        /\ bto' = ImageOf(disk).bto /\ hto' = ImageOf(disk).hto
        /\ size' = ImageOf(disk).size % SizeModulus
        /\ held' = Dangle(held, DOMAIN hashes)
    BY <1>1 DEF Open
  <2> QED
    BY <1>1, <1>3, <1>4, <2>1, <2>2
<1>6. size' = sz
  BY <1>5, BoundsAssumption
<1>7. Single(b, h)
  BY <1>2 DEF Holds
<1>8. MemInv'
  <2>1. TypeOK
    BY <1>1 DEF MemInv, IInv
  <2> QED
    BY <1>5, <1>6, <1>7, <2>1, SingleMemory
<1>9. Shows(disk, start', bto', hto', blocks', hashes', size')
  <2>1. /\ Len(<<b>>) = 1 /\ Len(<<h>>) = 1 /\ DOMAIN <<b>> = {1} /\ DOMAIN <<h>> = {1}
        /\ <<b>>[1] = b /\ <<h>>[1] = h
    OBVIOUS
  <2>2. disk.header = HeaderOf(start', bto', hto', blocks', hashes', size')
    BY <1>3, <1>5, <1>6, <2>1 DEF HeaderOf
  <2>3. disk.btab = <<BlockEntry(b)>> /\ disk.htab = <<HashEntry(h, <<b>>)>>
    BY <1>2 DEF Holds
  <2> DEFINE be == BlockEntry(b)
             he == HashEntry(h, <<b>>)
  <2>4. be \in {BlockEntry(blocks'[p]) : p \in DOMAIN blocks'}
    BY <1>5, <2>1
  <2>5. he \in {HashEntry(hashes'[s], blocks') : s \in DOMAIN hashes'}
    BY <1>5, <2>1
  <2> HIDE DEF be, he
  <2>6. /\ Len(disk.btab) = Len(blocks') /\ Len(disk.htab) = Len(hashes')
        /\ DOMAIN disk.btab = {1} /\ disk.btab[1] = be
        /\ DOMAIN disk.htab = {1} /\ disk.htab[1] = he
    BY <1>5, <2>1, <2>3 DEF be, he
  <2>7. Known(disk.btab, {BlockEntry(blocks'[p]) : p \in DOMAIN blocks'})
    BY <2>4, <2>6 DEF Known
  <2>8. Known(disk.htab, {HashEntry(hashes'[s], blocks') : s \in DOMAIN hashes'})
    BY <2>5, <2>6 DEF Known
  <2>9. disk.by = "add" => HasData(hashes', blocks', disk.data)
    <3> SUFFICES ASSUME disk.by = "add" PROVE HasData(hashes', blocks', disk.data)
      OBVIOUS
    <3>1. h.block # NoBlock /\ DataOf(h.key, b.offset, b) \in disk.data
      BY <1>2 DEF Holds
    <3>2. ~h.deleted /\ h.block = 1
      BY <1>7, <3>1 DEF Single
    <3>3. ~FreeHash(h)
      BY <3>1, <3>2 DEF FreeHash, EmptyHash
    <3>4. 1 \in DOMAIN hashes' /\ hashes'[1] = h /\ blocks'[hashes'[1].block] = b
      BY <1>5, <2>1, <3>2
    <3> QED
      BY <3>1, <3>3, <3>4 DEF HasData
  <2> QED
    BY <2>2, <2>6, <2>7, <2>8, <2>9 DEF Shows
<1>10. start' \in Nat
  BY <1>5
<1> QED
  BY <1>1, <1>8, <1>9, <1>10, WritesNothing

(* The steps that leave the file alone and empty the memory.               *)
LEMMA StopsKeep ==
    ASSUME ArchiveInv, OpenFileThrows \/ CloseArchive \/ Kill
    PROVE  ArchiveInv'
<1>1. MemInv /\ Sound(disk)
  BY FileIsSound DEF ArchiveInv
<1>2. disk' = disk /\ pending' = <<>> /\ start' = 0
  BY DEF OpenFileThrows, CloseArchive, Kill, Idle
<1>3. MemInv' /\ isOpen' = FALSE
  BY <1>1, StopsEmpty DEF OpenFileThrows, CloseArchive, Kill
<1> QED
  BY <1>1, <1>2, <1>3, WritesNothing

(* The steps that change at most the Files of clients.                     *)
LEMMA QuietKeeps ==
    ASSUME ArchiveInv, UNCHANGED <<isOpen, blocks, hashes, bto, hto, size, diskVars>>, IInv'
    PROVE  ArchiveInv'
<1>1. UNCHANGED <<isOpen, blocks, hashes, bto, hto, size, start, disk, pending, threw>>
  BY DEF diskVars
<1>2. MemInv'
  BY <1>1, SameMemory DEF ArchiveInv
<1>3. \A T, m : Written(T, m) => Written(T, m)'
  BY <1>1 DEF Written
<1> QED
  BY <1>1, <1>2, <1>3 DEF ArchiveInv

(* The calls that leave the file alone.                                    *)
LEMMA QuietCallKeeps ==
    ASSUME ArchiveInv, QuietCall
    PROVE  ArchiveInv'
<1>1. IInv /\ UNCHANGED diskVars
  BY DEF ArchiveInv, MemInv, QuietCall
<1>2. CASE UNCHANGED vars
  BY <1>1, <1>2, NoChangeKeepsInv, QuietKeeps DEF vars
<1>3. ASSUME NEW c \in Clients, CloseFile(c) PROVE ArchiveInv'
  <2>1. HandleOK(hashes, head, NoFile)
    BY NotLiveIsOK DEF NoFile, Handle, NoSlot
  <2>2. IInv'
    BY <1>1, <1>3, <2>1, HandleChangeKeepsInv DEF CloseFile
  <2> QED
    BY <1>1, <1>3, <2>2, QuietKeeps DEF CloseFile, tables
<1>4. ASSUME NEW c \in Clients, NEW k \in Keys, Find(c, k) PROVE ArchiveInv'
  <2>1. HandleOK(hashes, head, FindFile(hashes, head, k))
    BY <1>1, FoundIsOK DEF IInv, TypeOK, HeadsLeadGroups, AllKeys
  <2>2. IInv'
    BY <1>1, <1>4, <2>1, HandleChangeKeepsInv DEF Find
  <2> QED
    BY <1>1, <1>4, <2>2, QuietKeeps DEF Find, tables
<1> QED
  BY <1>2, <1>3, <1>4 DEF QuietCall, AddTooSmall, RemoveRefused

(* The invariant holds at the start: there is no file and nothing to write.*)
LEMMA ArchiveInvStarts ==
    ArchiveInit => ArchiveInv
<1> SUFFICES ASSUME ArchiveInit PROVE ArchiveInv
  OBVIOUS
<1>1. IInv /\ isOpen = FALSE /\ blocks = <<>> /\ hashes = <<>> /\ start = 0
  BY InitInv DEF ArchiveInit, Init
<1>2. MemInv
  <2>1. blocks \in Seq(Block) /\ hashes \in Seq(Hash)
    BY <1>1
  <2> QED
    BY <1>1, <2>1 DEF MemInv, TablePair, Even, Placed, NoData
<1>3. disk = FileOf(NoHeader, NoTable, NoTable, {}, "none") /\ pending = <<>>
  BY DEF ArchiveInit, EmptyFile, FileOf
<1>4. Sound(disk)
  BY <1>3, SoundFiles
<1> DEFINE m == [i \in 0..0 |-> disk]
<1>5. Written({}, m)
  <2>1. Len(pending) = 0 /\ pending \in Seq({}) /\ m[0] = disk
    BY <1>3
  <2>2. \A i \in 0..0 : m[i] = disk
    OBVIOUS
  <2> HIDE DEF m
  <2> QED
    BY <1>1, <1>4, <2>1, <2>2 DEF Written, DiskStages
<1>6. \E T, x : Written(T, x)
  <2> HIDE DEF m
  <2> QED
    BY <1>5
<1> QED
  BY <1>1, <1>2, <1>6 DEF ArchiveInv

(* No step violates it.                                                    *)
LEMMA ArchiveInvStays ==
    ASSUME FilesNotEmpty
    PROVE  ArchiveInv /\ [ArchiveNext]_allVars => ArchiveInv'
<1> SUFFICES ASSUME ArchiveInv, [ArchiveNext]_allVars PROVE ArchiveInv'
  OBVIOUS
<1>1. CASE \E h, b \in TableSizes, st \in StartPositions : CreateFile(h, b, st)
  BY <1>1, CreateFileKeeps
<1>2. CASE \E h, b \in TableSizes, st \in StartPositions : CreateFileThrows(h, b, st)
  BY <1>2, CreateFileThrowsKeeps
<1>3. CASE \E c \in Clients, k \in Keys, l \in Layouts : AddFile(c, k, l)
  BY <1>3, AddFileKeeps
<1>4. CASE \E k \in Keys, l \in Layouts : AddFileThrows(k, l)
  BY <1>4, AddFileThrowsKeeps
<1>5. CASE \E l \in Layouts : AddFileDataThrows(l)
  BY <1>5, AddFileDataThrowsKeeps
<1>6. CASE \E c \in Clients : RemoveFile(c)
  BY <1>6, RemoveFileKeeps
<1>7. CASE WriteStep
  BY <1>7, WritesOn
<1>8. CASE OpenFile
  BY <1>8, OpenFileKeeps
<1>9. CASE OpenFileThrows \/ CloseArchive \/ Kill \/ CrashInRemove
  BY <1>9, StopsKeep DEF CrashInRemove
<1>10. CASE QuietCall
  BY <1>10, QuietCallKeeps
<1>11. CASE UNCHANGED allVars
  <2>1. IInv /\ UNCHANGED vars /\ UNCHANGED diskVars
    BY <1>11 DEF ArchiveInv, MemInv, allVars
  <2> QED
    BY <2>1, NoChangeKeepsInv, QuietKeeps DEF vars
<1> QED
  BY <1>1, <1>2, <1>3, <1>4, <1>5, <1>6, <1>7, <1>8, <1>9, <1>10, <1>11
     DEF ArchiveNext, Begins, Continues

-----------------------------------------------------------------------------
(* After a call that did not throw, whatever calls and kills came before,  *)
(* nothing of an earlier state is left in the file: its header is that of  *)
(* the memory, its tables are as long as the header says, and whatever was *)
(* written into them is an entry of the memory.                            *)
THEOREM FileIsNeverStale ==
    ASSUME FilesNotEmpty
    PROVE  ArchiveSpec => []FileNeverStale
<1>1. ArchiveInv => FileNeverStale
  <2> SUFFICES ASSUME ArchiveInv, Idle, isOpen, ~threw
               PROVE  /\ disk.header = HeaderOf(start, bto, hto, blocks, hashes, size)
                      /\ Len(disk.btab) = Len(blocks) /\ Len(disk.htab) = Len(hashes)
                      /\ \A i \in DOMAIN disk.btab : disk.btab[i] # Garbage =>
                            \E p \in DOMAIN blocks : disk.btab[i] = BlockEntry(blocks[p])
                      /\ \A i \in DOMAIN disk.htab : disk.htab[i] # Garbage =>
                            \E s \in DOMAIN hashes : disk.htab[i] = HashEntry(hashes[s], blocks)
    BY DEF FileNeverStale
  <2>1. Shows(disk, start, bto, hto, blocks, hashes, size)
    BY IdleFile
  <2>2. /\ disk.header = HeaderOf(start, bto, hto, blocks, hashes, size)
        /\ Len(disk.btab) = Len(blocks) /\ Len(disk.htab) = Len(hashes)
    BY <2>1 DEF Shows
  <2>3. \A i \in DOMAIN disk.btab : disk.btab[i] # Garbage =>
           \E p \in DOMAIN blocks : disk.btab[i] = BlockEntry(blocks[p])
    BY <2>1 DEF Shows, Known
  <2>4. \A i \in DOMAIN disk.htab : disk.htab[i] # Garbage =>
           \E s \in DOMAIN hashes : disk.htab[i] = HashEntry(hashes[s], blocks)
    BY <2>1 DEF Shows, Known
  <2> QED
    BY <2>2, <2>3, <2>4
<1> QED
  BY <1>1, ArchiveInvStarts, ArchiveInvStays, PTL DEF ArchiveSpec

(* The file that the last addFile() wrote can be read, however many files  *)
(* are in the tables: of an archive at the start of its file.              *)
THEOREM AddedIsReadable ==
    ASSUME FilesNotEmpty
    PROVE  ArchiveSpec => []AddedReadable
<1>1. ArchiveInv => AddedReadable
  <2> SUFFICES ASSUME ArchiveInv, Idle, isOpen, ~threw, disk.by = "add", start = 0
               PROVE  \E s \in UsedSlots : Readable(disk, start, hashes[s].key,
                                                    blocks[hashes[s].block])
    BY DEF AddedReadable
  <2>1. HasData(hashes, blocks, disk.data)
    BY IdleFile DEF Shows
  <2>2. PICK s \in DOMAIN hashes :
           /\ ~FreeHash(hashes[s])
           /\ DataOf(hashes[s].key, blocks[hashes[s].block].offset, blocks[hashes[s].block])
                \in disk.data
    BY <2>1 DEF HasData
  <2>3. s \in UsedSlots
    BY <2>2 DEF UsedSlots
  <2>4. blocks[hashes[s].block].offset \in Nat
    <3>1. blocks \in Seq(Block) /\ hashes[s].block \in DOMAIN blocks
      BY <2>3, UsedEntriesAreSafe DEF ArchiveInv, MemInv, IInv, TypeOK
    <3>2. blocks[hashes[s].block] \in Block
      BY <3>1
    <3> QED
      BY <3>2 DEF Block
  <2>5. start + blocks[hashes[s].block].offset = blocks[hashes[s].block].offset
    BY <2>4
  <2> QED
    BY <2>2, <2>3, <2>5 DEF Readable
<1> QED
  BY <1>1, ArchiveInvStarts, ArchiveInvStays, PTL DEF ArchiveSpec

(* At any moment of create() and addFile(), and after any kill, an archive *)
(* with a header has tables as long as it says and the data written before *)
(* them, and if its tables can be read, so can every file they list.       *)
THEOREM OpensOnlyComplete ==
    ASSUME FilesNotEmpty
    PROVE  ArchiveSpec => []OpensComplete
<1>1. ArchiveInv => OpensComplete
  <2> SUFFICES ASSUME ArchiveInv, disk.header # NoHeader, disk.by # "remove"
               PROVE  /\ Len(disk.btab) = disk.header.blocks
                      /\ Len(disk.htab) = disk.header.hashes
                      /\ disk.by = "add" => disk.data # {}
                      /\ Complete(disk) /\ disk.header.start = 0 =>
                           LET im == ImageOf(disk)
                           IN  \A i \in DOMAIN im.hashes :
                                 im.hashes[i].block # NoBlock =>
                                     Readable(disk, 0, im.hashes[i].key,
                                              im.blocks[im.hashes[i].block])
    BY DEF OpensComplete
  <2>1. Sound(disk)
    BY FileIsSound
  <2>2. Closed(disk)
    BY <2>1 DEF Sound
  <2> DEFINE im == ImageOf(disk)
  <2>3. ASSUME Complete(disk), NEW i \in DOMAIN im.hashes, im.hashes[i].block # NoBlock
        PROVE  Readable(disk, 0, im.hashes[i].key, im.blocks[im.hashes[i].block])
    <3>1. PICK b, h : Holds(disk, b, h)
      BY <2>1, <2>3 DEF Sound
    <3>2. im.blocks = <<b>> /\ im.hashes = <<h>>
      BY <3>1, OpenedEntry
    <3> HIDE DEF im
    <3>3. i = 1 /\ im.hashes[i] = h
      BY <2>3, <3>2
    <3>4. h.block = 1 /\ b.offset \in Nat
      BY <2>3, <3>1, <3>3 DEF Holds, Single, Block
    <3>5. im.blocks[im.hashes[i].block] = b
      BY <3>2, <3>3, <3>4
    <3>6. DataOf(h.key, b.offset, b) \in disk.data
      BY <2>3, <3>1, <3>3 DEF Holds
    <3>7. 0 + b.offset = b.offset
      BY <3>4
    <3> QED
      BY <3>3, <3>5, <3>6, <3>7 DEF Readable
  <2> HIDE DEF im
  <2>4. Complete(disk) /\ disk.header.start = 0 =>
          \A i \in DOMAIN im.hashes :
             im.hashes[i].block # NoBlock =>
                 Readable(disk, 0, im.hashes[i].key, im.blocks[im.hashes[i].block])
    BY <2>3
  <2> QED
    BY <2>2, <2>4 DEF Closed, im
<1> QED
  BY <1>1, ArchiveInvStarts, ArchiveInvStays, PTL DEF ArchiveSpec

(* In the archives of create() no write of a table touches the data of a   *)
(* file, also after failed writes and after the archive was opened again.  *)
THEOREM TablesAreApart ==
    ASSUME FilesNotEmpty
    PROVE  ArchiveSpec => []TablesApart
<1>1. ArchiveInv => TablesApart
  <2> SUFFICES ASSUME ArchiveInv, NEW p \in DOMAIN blocks
               PROVE  /\ Apart(blocks[p].offset, blocks[p].blockSize, bto, Len(blocks) * EntrySize)
                      /\ Apart(blocks[p].offset, blocks[p].blockSize, hto, Len(hashes) * EntrySize)
    BY DEF TablesApart
  <2>1. /\ blocks \in Seq(Block) /\ Len(hashes) = Len(blocks)
        /\ Placed(isOpen, bto, hto, blocks, hashes) /\ bto \in Nat /\ hto \in Nat
    BY DEF ArchiveInv, MemInv, IInv, TypeOK, TablePair, Even
  <2>2. blocks[p].offset \in Nat /\ blocks[p].blockSize \in Nat /\ Len(blocks) \in Nat
    <3>1. blocks[p] \in Block
      BY <2>1
    <3> QED
      BY <2>1, <3>1 DEF Block
  <2>3. CASE blocks[p].blockSize = 0
    BY <2>3 DEF Apart
  <2>4. CASE blocks[p].blockSize # 0
    <3>1. isOpen
      BY <2>1, <2>4 DEF Placed, NoData
    <3>2. TablesFirst(bto, hto, blocks)
      BY <2>1, <3>1 DEF Placed
    <3>3. /\ bto = HeaderSize /\ hto = HeaderSize + Len(blocks) * EntrySize
          /\ hto + Len(blocks) * EntrySize <= blocks[p].offset
      BY <2>2, <2>4, <3>2 DEF TablesFirst
    <3> QED
      BY <2>1, <2>2, <3>3 DEF Apart, HeaderSize, EntrySize
  <2> QED
    BY <2>3, <2>4
<1> QED
  BY <1>1, ArchiveInvStarts, ArchiveInvStays, PTL DEF ArchiveSpec

-----------------------------------------------------------------------------
(* Memory and file together as the map from paths to files.                *)

(* create() of a file and open() of what is in it begin a session.         *)
LEMMA BeginsOpens ==
    ASSUME Begins, session' = ~session
    PROVE  Files!Open
<1>1. isOpen' = TRUE
  BY DEF Begins, CreateFile, Create, OpenFile, Open
<1>2. DOMAIN [j \in Keys |-> Stored(j)]' = Keys
  OBVIOUS
<1> QED
  BY <1>1, <1>2 DEF Files!Open

(* What closes the archive, or kills its process, drops what it showed.    *)
LEMMA EndsDrop ==
    ASSUME isOpen' = FALSE, UNCHANGED session
    PROVE  Files!Drop
BY ClosedShowsNothingNext DEF Files!Drop

(* Every other step is one of the map or is not seen: what a call writes   *)
(* into the file changes nothing that is found.                            *)
LEMMA ContinuesRefines ==
    ASSUME OneInv, OneInv', Continues, UNCHANGED session
    PROVE  \/ Files!Next
           \/ UNCHANGED <<isOpen, [j \in Keys |-> Stored(j)], session>>
<1>1. CASE Call
  BY <1>1, CallRefines DEF Files!Next
<1>2. CASE isOpen' = FALSE
  BY <1>2, EndsDrop DEF Files!Next
<1>3. CASE WriteStep
  BY <1>3, QuietShowsNothing DEF WriteStep, vars, tables
<1>4. \/ \E h, b \in TableSizes, st \in StartPositions : CreateFileThrows(h, b, st)
      \/ OpenFileThrows \/ CloseArchive \/ CrashInRemove \/ Kill
      => isOpen' = FALSE
  BY DEF CreateFileThrows, CreateThrows, OpenFileThrows, OpenThrows, CloseArchive, Close,
         CrashInRemove, Kill, Crash, Clear
<1>5. \/ \E c \in Clients, k \in Keys, l \in Layouts : AddFile(c, k, l)
      \/ \E k \in Keys, l \in Layouts : AddFileThrows(k, l)
      \/ \E l \in Layouts : AddFileDataThrows(l)
      \/ \E c \in Clients : RemoveFile(c)
      => Call
  BY DEF AddFile, AddFileThrows, AddFileDataThrows, RemoveFile, Call
<1>6. QuietCall => Call
  BY DEF QuietCall, Call
<1> QED
  BY <1>1, <1>2, <1>3, <1>4, <1>5, <1>6 DEF Continues

(* An archive and its file implement the map from paths to files, for      *)
(* clients that keep to one entry per path, through every kill, every      *)
(* failed write and every open() of what the file then holds.              *)
THEOREM ArchiveImplementsFiles ==
    ASSUME FilesNotEmpty
    PROVE  ArchiveOneEntry => ImplementsFiles
<1> DEFINE Inv == ArchiveInv /\ OneEntry
           Step == [ArchiveOneEntryNext]_<<allVars, session>>
<1>1. ArchiveOneEntryInit => Inv /\ Files!Init
  <2> SUFFICES ASSUME ArchiveOneEntryInit PROVE Inv /\ Files!Init
    OBVIOUS
  <2>1. \A k \in Keys : Group(hashes, k) = {}
    BY DEF ArchiveOneEntryInit, ArchiveInit, Init, Group
  <2>2. OneEntry
    BY <2>1, FS_EmptySet DEF OneEntry
  <2>3. ArchiveInv
    BY ArchiveInvStarts DEF ArchiveOneEntryInit
  <2>4. Files!Init
    BY ClosedShowsNothing DEF ArchiveOneEntryInit, ArchiveInit, Init, Files!Init
  <2> QED
    BY <2>2, <2>3, <2>4
<1>2. Inv /\ Step => Inv'
  <2> SUFFICES ASSUME ArchiveInv, OneEntry, Step PROVE ArchiveInv' /\ OneEntry'
    OBVIOUS
  <2>1. [ArchiveNext]_allVars
    BY DEF ArchiveOneEntryNext, ArchiveNext
  <2>2. ArchiveInv'
    BY <2>1, ArchiveInvStays
  <2>3. OneEntry'
    <3>1. CASE ArchiveOneEntryNext
      BY <3>1 DEF ArchiveOneEntryNext, OneEntryPerPath, OneEntry
    <3>2. CASE UNCHANGED <<allVars, session>>
      BY <3>2 DEF OneEntry, allVars, vars
    <3> QED
      BY <3>1, <3>2
  <2> QED
    BY <2>2, <2>3
<1>3. Inv /\ Inv' /\ Step => [Files!Next]_<<isOpen, [k \in Keys |-> Stored(k)], session>>
  <2> SUFFICES ASSUME Inv, Inv', Step
               PROVE  [Files!Next]_<<isOpen, [k \in Keys |-> Stored(k)], session>>
    OBVIOUS
  <2>1. OneInv /\ OneInv'
    BY DEF ArchiveInv, MemInv, OneInv
  <2>2. CASE Begins /\ session' = ~session
    BY <2>2, BeginsOpens DEF Files!Next
  <2>3. CASE Continues /\ UNCHANGED session
    BY <2>1, <2>3, ContinuesRefines
  <2>4. CASE UNCHANGED <<allVars, session>>
    BY <2>4, QuietShowsNothing DEF allVars, vars, tables
  <2> QED
    BY <2>2, <2>3, <2>4 DEF ArchiveOneEntryNext
<1> HIDE DEF Inv
<1> QED
  BY <1>1, <1>2, <1>3, PTL DEF ArchiveOneEntry, ImplementsFiles, Files!Spec
=============================================================================
