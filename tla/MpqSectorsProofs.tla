-------------------------- MODULE MpqSectorsProofs --------------------------
(***************************************************************************)
(* Proofs about MpqSectors, for every size of words, sectors and files:    *)
(* encryption is undone by the same key, the sectors of a file without a   *)
(* table cover it, nothing of an encrypted file gets out without its name, *)
(* what other programs wrote is read, and what addFile() wrote well is     *)
(* read back.                                                              *)
(*                                                                         *)
(* The last two follow from an invariant, ReadInv: the file that was       *)
(* written is laid out in parts the reader finds (Laid), the archive holds *)
(* a beginning of it, and the reader has found and delivered the first of  *)
(* these parts.  That each step of the reader keeps it is shown first,     *)
(* then that both writers lay a file out so.                               *)
(***************************************************************************)
EXTENDS MpqSectors, FoldLemmas, SequenceTheorems, TLAPS

-----------------------------------------------------------------------------
(* What EncryptData() writes, and any beginning of it that ends with the   *)
(* same word, DecryptData() with the same key gives back.                  *)
LEMMA BeginningIsUndone ==
    ASSUME NEW S, NEW cells \in Seq(S), NEW key, NEW n \in 0..Len(cells),
           n - (n % Word) = Whole(cells)
    PROVE  DecryptData(SubSeq(EncryptData(cells, key), 1, n), key) = SubSeq(cells, 1, n)
<1> DEFINE enc == EncryptData(cells, key)
           cut == SubSeq(enc, 1, n)
           begin == SubSeq(cells, 1, n)
<1>1. DOMAIN cells = 1..Len(cells) /\ Len(cells) \in Nat /\ n \in Nat /\ n <= Len(cells)
  OBVIOUS
<1>2. /\ DOMAIN enc = 1..Len(cells)
      /\ \A j \in 1..Len(cells) :
           enc[j] = IF j <= Whole(cells) THEN Encrypted(cells[j], key, j) ELSE cells[j]
  BY <1>1 DEF EncryptData
<1>3. /\ cut \in Seq({enc[j] : j \in 1..Len(cells)}) /\ Len(cut) = n
      /\ \A j \in 1..n : cut[j] = enc[j]
  <2>1. \A j \in 1..n : enc[j] \in {enc[i] : i \in 1..Len(cells)}
    BY <1>1
  <2> HIDE DEF enc
  <2> QED BY <1>1, <2>1, SubSeqProperties
<1>4. /\ begin \in Seq(S) /\ Len(begin) = n /\ \A j \in 1..n : begin[j] = cells[j]
  BY <1>1, SubSeqProperties
<1>5. Whole(cut) = Whole(cells) /\ Whole(cells) \in Int
  BY <1>1, <1>3, SectorsAssumption DEF Whole
<1> HIDE DEF enc, cut, begin
<1>6. \A j \in 1..n : j <= Whole(cells) => Fits(cut[j], key, j) /\ cut[j].cell = cells[j]
  BY <1>1, <1>2, <1>3 DEF Fits, Encrypted
<1>7. ASSUME NEW j \in 1..n, j <= Whole(cells)
      PROVE  \A i \in 1..WordStart(j) : Fits(cut[i], key, i)
  <2>1. WordStart(j) \in Int /\ WordStart(j) <= j - 1
    BY <1>1, SectorsAssumption DEF WordStart
  <2>2. \A i \in 1..WordStart(j) : i \in 1..n /\ i <= Whole(cells)
    BY <1>1, <1>5, <1>7, <2>1
  <2> QED BY <2>2, <1>6
<1>8. DOMAIN cut = 1..n /\ DOMAIN begin = 1..n
  BY <1>1, <1>3, <1>4
<1>9. ASSUME NEW j \in 1..n
      PROVE  DecryptData(cut, key)[j] = begin[j]
  <2>1. CASE j > Whole(cells)
    <3>1. cut[j] = cells[j]
      BY <2>1, <1>1, <1>2, <1>3, <1>5
    <3> QED BY <2>1, <3>1, <1>4, <1>5, <1>8 DEF DecryptData
  <2>2. CASE ~(j > Whole(cells))
    <3>1. j <= Whole(cells)
      BY <2>2, <1>1, <1>5
    <3> QED BY <2>2, <3>1, <1>4, <1>5, <1>6, <1>7, <1>8 DEF DecryptData
  <2> QED BY <2>1, <2>2
<1>10. DecryptData(cut, key) = [j \in 1..n |-> DecryptData(cut, key)[j]]
  BY <1>8 DEF DecryptData
<1>11. begin = [j \in 1..n |-> begin[j]]
  BY <1>4, <1>8
<1>12. DecryptData(cut, key) = begin
  BY <1>9, <1>10, <1>11
<1> QED BY <1>12 DEF cut, enc, begin

(* What EncryptData() writes, DecryptData() with the same key gives back,  *)
(* whatever the bytes and however many are behind the last whole word.     *)
THEOREM EncryptionIsUndone ==
    ASSUME NEW S, NEW cells \in Seq(S), NEW key
    PROVE  DecryptData(EncryptData(cells, key), key) = cells
<1> DEFINE enc == EncryptData(cells, key)
           n == Len(cells)
<1>1. n \in 0..n /\ n - (n % Word) = Whole(cells) /\ DOMAIN cells = 1..n /\ n \in Nat
  BY DEF Whole
<1>2. enc \in Seq({enc[j] : j \in 1..n}) /\ Len(enc) = n
  BY <1>1 DEF EncryptData
<1>3. SubSeq(enc, 1, n) = enc /\ SubSeq(cells, 1, n) = cells
  <2> HIDE DEF enc
  <2> QED BY <1>2, SubSeqFull
<1> QED BY <1>1, <1>3, BeginningIsUndone

-----------------------------------------------------------------------------
(* Without its path nothing of an encrypted file gets out.                 *)
KeylessInv == (pc = "closed" => out = <<>>) /\ KeylessDeliversNothing

(* A reader that does not know the path of an encrypted file delivers none *)
(* of its bytes, at any step of any read.                                  *)
THEOREM KeylessIsSafe == Spec => []KeylessDeliversNothing
<1>1. Init => KeylessInv
  BY DEF Init, KeylessInv, KeylessDeliversNothing
<1>2. KeylessInv /\ [Next]_vars => KeylessInv'
  <2> SUFFICES ASSUME KeylessInv, [Next]_vars PROVE KeylessInv'
    OBVIOUS
  <2> USE DEF KeylessInv, KeylessDeliversNothing, IsEncrypted
  <2>1. CASE AddFile \/ Author
    BY <2>1 DEF AddFile, Author, reader
  <2>2. CASE Lose
    BY <2>2 DEF Lose, reader
  <2>3. CASE OpenWithoutPath \/ OpenPlain \/ OpenSingleUnit \/ OpenTable
    BY <2>3 DEF OpenWithoutPath, OpenPlain, OpenSingleUnit, OpenTable, Open
  <2>4. CASE Sectors
    BY <2>4 DEF Sectors, ListPlain, ListRest, ListFromTable, ListEnd, PushSector, reader
  <2>5. CASE ReadEmpty
    <3>1. (IsEncrypted /\ ~known) => out' = <<>>
      BY <2>5 DEF ReadEmpty, Deliver
    <3> QED BY <2>5, <3>1 DEF ReadEmpty, Deliver, Reading
  <2>6. CASE ReadThrows
    BY <2>6 DEF ReadThrows, Throw, Reading, reader
  <2>7. CASE ReadSector
    <3>1. pc' # "closed" /\ file' = file /\ known' = known /\ (IsEncrypted => known)
      BY <2>7 DEF ReadSector, Reading, Deliver, Throw
    <3> QED BY <3>1
  <2>8. CASE Finish
    BY <2>8 DEF Finish, reader
  <2>9. CASE UNCHANGED vars
    BY <2>9 DEF vars, reader
  <2> QED BY <2>1, <2>2, <2>3, <2>4, <2>5, <2>6, <2>7, <2>8, <2>9 DEF Next, Decompress
<1>3. KeylessInv => KeylessDeliversNothing
  BY DEF KeylessInv
<1> QED BY <1>1, <1>2, <1>3, PTL DEF Spec

-----------------------------------------------------------------------------
(* The sectors cover a file without a table.                               *)

(* The full sectors of a file fit into it and leave less than one.         *)
LEMMA FullSectors ==
    ASSUME NEW n \in Nat
    PROVE  /\ n \div SectorSize \in Nat
           /\ (n \div SectorSize) * SectorSize <= n
           /\ n < (n \div SectorSize) * SectorSize + SectorSize
  BY SectorsAssumption

(* While the loop runs the offset is behind the sectors found, a multiple  *)
(* of the size of a sector for each, and what remains is the rest.         *)
Listed ==
    /\ sectors \in Seq([index : Nat, offset : Nat, size : Nat, uncompressed : Nat])
    /\ \A i \in DOMAIN sectors : IsNext(i)
    /\ pc = "listing" =>
         /\ Len(sectors) <= SectorsCount
         /\ newOffset = Len(sectors) * SectorSize /\ newOffset = End
         /\ remaining \in Nat /\ newOffset + remaining = file.fileSize
    /\ pc \in {"reading", "done", "threw"} => End = file.fileSize
IsCalculated == IsPlain /\ file.blockSize = file.fileSize
CoverInv ==
    /\ file.fileSize \in Nat
    /\ pc \in {"closed", "stored"} => sectors = <<>>
    /\ IsCalculated => Listed

(* A sector of the given size put behind those found.                      *)
LEMMA OneMore ==
    ASSUME Listed, newOffset = End, NEW size \in 1..SectorSize, PushSector(newOffset, size, size)
    PROVE  /\ sectors' \in Seq([index : Nat, offset : Nat, size : Nat, uncompressed : Nat])
           /\ \A i \in DOMAIN sectors' : IsNext(i)'
           /\ Len(sectors') = Len(sectors) + 1
           /\ End' = End + size
<1> DEFINE new == NewSector(Len(sectors), newOffset, size, size)
<1>1. size \in Nat /\ size >= 1 /\ size <= SectorSize
  BY SectorsAssumption
<1>2. /\ Len(sectors) \in Nat /\ DOMAIN sectors = 1..Len(sectors)
      /\ sectors = <<>> <=> Len(sectors) = 0
      /\ \A i \in 1..Len(sectors) :
           sectors[i] \in [index : Nat, offset : Nat, size : Nat, uncompressed : Nat]
      /\ \A i \in 1..Len(sectors) : IsNext(i)
  <2>1. sectors \in Seq([index : Nat, offset : Nat, size : Nat, uncompressed : Nat])
    BY DEF Listed
  <2>2. Len(sectors) \in Nat /\ DOMAIN sectors = 1..Len(sectors)
    BY <2>1
  <2>3. sectors = <<>> <=> Len(sectors) = 0
    BY <2>1
  <2>4. \A i \in 1..Len(sectors) : IsNext(i)
    BY <2>2 DEF Listed
  <2>5. \A i \in 1..Len(sectors) :
           sectors[i] \in [index : Nat, offset : Nat, size : Nat, uncompressed : Nat]
    BY <2>1, ElementOfSeq, Zenon
  <2> QED BY <2>2, <2>3, <2>4, <2>5
<1>3. newOffset \in Nat
  <2>1. CASE Len(sectors) = 0
    BY <2>1, <1>2 DEF End
  <2>2. CASE Len(sectors) # 0
    <3>1. Len(sectors) \in 1..Len(sectors) /\ sectors # <<>>
      BY <2>2, <1>2
    <3>2. sectors[Len(sectors)].offset \in Nat /\ sectors[Len(sectors)].size \in Nat
      BY <3>1, <1>2
    <3>3. newOffset = sectors[Len(sectors)].offset + sectors[Len(sectors)].size
      BY <3>1 DEF End, Last
    <3> QED BY <3>2, <3>3
  <2> QED BY <2>1, <2>2
<1>4. new \in [index : Nat, offset : Nat, size : Nat, uncompressed : Nat]
  BY <1>1, <1>3 DEF NewSector, Listed
<1>5. /\ new.index = Len(sectors) /\ new.offset = newOffset
      /\ new.size = size /\ new.uncompressed = size
  BY DEF NewSector
<1> HIDE DEF new
<1>6. sectors' = Append(sectors, new)
  BY DEF PushSector, new
<1>7. /\ sectors' \in Seq([index : Nat, offset : Nat, size : Nat, uncompressed : Nat])
      /\ Len(sectors') = Len(sectors) + 1
      /\ sectors'[Len(sectors) + 1] = new
      /\ \A i \in 1..Len(sectors) : sectors'[i] = sectors[i]
  BY <1>4, <1>6 DEF Listed
<1>8. End' = End + size
  <2>1. sectors' # <<>> /\ Last(sectors)' = new
    BY <1>2, <1>7 DEF Last
  <2>2. End' = new.offset + new.size
    BY <2>1 DEF End
  <2> QED BY <2>2, <1>5
<1>9. ASSUME NEW i \in DOMAIN sectors'
      PROVE  IsNext(i)'
  <2>1. CASE i \in 1..Len(sectors)
    <3>1. IsNext(i) /\ sectors'[i] = sectors[i]
      BY <2>1, <1>2, <1>7
    <3>2. i # 1 => sectors'[i - 1] = sectors[i - 1]
      <4>1. i # 1 => i - 1 \in 1..Len(sectors)
        BY <2>1, <1>2
      <4> QED BY <4>1, <1>7
    <3> QED BY <3>1, <3>2 DEF IsNext
  <2>2. CASE i = Len(sectors) + 1
    <3>1. sectors'[i] = new /\ i - 1 = Len(sectors)
      BY <2>2, <1>2, <1>7
    <3>2. i = 1 => newOffset = 0
      BY <3>1, <1>2 DEF End
    <3>3. i # 1 => newOffset = sectors'[i - 1].offset + sectors'[i - 1].size
      <4>1. i # 1 => sectors # <<>> /\ Len(sectors) \in 1..Len(sectors)
        BY <2>2, <1>2
      <4>2. i # 1 => sectors'[i - 1] = Last(sectors)
        BY <4>1, <3>1, <1>7 DEF Last
      <4> QED BY <4>1, <4>2 DEF End
    <3> QED BY <3>1, <3>2, <3>3, <1>1, <1>5 DEF IsNext
  <2> QED BY <2>1, <2>2, <1>2, <1>7
<1> QED BY <1>7, <1>8, <1>9

(* The sectors of a file without a table cover it without a gap, whatever  *)
(* the size of the file and of a sector.                                   *)
THEOREM SectorsCoverFiles == Spec => []SectorsCover
<1>1. Init => CoverInv
  BY SectorsAssumption DEF Init, NoFile, CoverInv, IsCalculated, Listed, End
<1>2. CoverInv /\ [Next]_vars => CoverInv'
  <2> SUFFICES ASSUME CoverInv, [Next]_vars PROVE CoverInv'
    OBVIOUS
  <2>1. CASE AddFile \/ Author
    <3>1. pc' = "stored" /\ pc = "closed" /\ sectors' = sectors
      BY <2>1 DEF AddFile, Author, reader
    <3>2. file'.fileSize \in Nat
      <4>1. CASE AddFile
        BY <4>1, SectorsAssumption DEF AddFile
      <4>2. CASE Author
        BY <4>2, SectorsAssumption DEF Author
      <4> QED BY <2>1, <4>1, <4>2
    <3>3. sectors' = <<>>
      BY <3>1 DEF CoverInv
    <3> QED BY <3>1, <3>2, <3>3 DEF CoverInv, Listed, IsCalculated
  <2>2. CASE OpenWithoutPath \/ OpenSingleUnit \/ OpenTable
    <3>1. ~IsPlain /\ file' = file /\ pc' \notin {"closed", "stored"}
      BY <2>2 DEF OpenWithoutPath, OpenSingleUnit, OpenTable, Open, IsPlain, HasTable,
                  HasSectorOffsetTable
    <3> QED BY <3>1 DEF CoverInv, IsCalculated, IsPlain
  <2>3. CASE OpenPlain
    <3>1. /\ file' = file /\ pc' = "listing" /\ sectors' = <<>>
          /\ newOffset' = 0 /\ remaining' = file.fileSize
      BY <2>3 DEF OpenPlain, Open
    <3>2. IsCalculated => SectorsCount \in Nat
      BY FullSectors, <2>3 DEF CoverInv, IsCalculated, OpenPlain, SectorsCount, HasTable, IsPlain,
                        HasSectorOffsetTable
    <3>3. SectorsCount' = SectorsCount /\ (IsCalculated' <=> IsCalculated)
      BY <3>1 DEF SectorsCount, HasTable, IsCalculated, IsPlain
    <3> QED BY <3>1, <3>2, <3>3, SectorsAssumption DEF CoverInv, Listed, End
  <2>4. CASE ListPlain
    <3>1. /\ file' = file /\ pc' = "listing" /\ pc = "listing"
          /\ newOffset' = newOffset + SectorSize
          /\ remaining' = Minus(remaining, SectorSize)
          /\ PushSector(newOffset, SectorSize, SectorSize)
          /\ Len(sectors) < SectorsCount
          /\ ~HasTable
      BY <2>4 DEF ListPlain
    <3>2. SectorsCount' = SectorsCount /\ (IsCalculated' <=> IsCalculated)
      BY <3>1 DEF SectorsCount, HasTable, IsCalculated, IsPlain
    <3>3. ASSUME IsCalculated PROVE Listed'
      <4>1. Listed /\ newOffset = End /\ SectorSize \in 1..SectorSize
        BY <3>1, <3>3, SectorsAssumption DEF CoverInv, Listed
      <4>2. /\ sectors' \in Seq([index : Nat, offset : Nat, size : Nat, uncompressed : Nat])
            /\ \A i \in DOMAIN sectors' : IsNext(i)'
            /\ Len(sectors') = Len(sectors) + 1
            /\ End' = End + SectorSize
        BY <4>1, <3>1, OneMore
      <4>3. /\ SectorsCount \in Nat
            /\ SectorsCount * SectorSize <= file.fileSize
        BY <3>1, <3>3, FullSectors DEF CoverInv, IsCalculated, SectorsCount
      <4>4. /\ Len(sectors) \in Nat /\ newOffset = Len(sectors) * SectorSize
            /\ remaining \in Nat /\ newOffset + remaining = file.fileSize
        BY <4>1, <3>1 DEF Listed
      <4>5. (Len(sectors) + 1) * SectorSize <= SectorsCount * SectorSize
        <5>1. Len(sectors) + 1 <= SectorsCount
          BY <3>1, <4>3, <4>4
        <5> QED BY <5>1, <4>3, <4>4, SectorsAssumption
      <4>6. (Len(sectors) + 1) * SectorSize = newOffset + SectorSize
        BY <4>4, SectorsAssumption
      <4>7. remaining >= SectorSize
        BY <4>3, <4>4, <4>5, <4>6, SectorsAssumption
      <4>8. remaining' = remaining - SectorSize /\ remaining' \in Nat
        BY <3>1, <4>4, <4>7, SectorsAssumption DEF Minus
      <4>9. newOffset' = Len(sectors') * SectorSize /\ newOffset' = End'
        BY <3>1, <4>1, <4>2, <4>6
      <4>10. newOffset' + remaining' = file'.fileSize
        BY <3>1, <4>4, <4>8, SectorsAssumption
      <4>11. Len(sectors') <= SectorsCount'
        BY <3>1, <3>2, <4>2, <4>3, <4>4
      <4> QED BY <3>1, <4>2, <4>8, <4>9, <4>10, <4>11 DEF Listed
    <3> QED BY <3>1, <3>2, <3>3 DEF CoverInv
  <2>5. CASE ListRest
    <3>1. /\ file' = file /\ pc' = "reading" /\ pc = "listing" /\ ~HasTable
          /\ Len(sectors) = SectorsCount
          /\ IF remaining > 0 THEN PushSector(newOffset, remaining, remaining)
                             ELSE UNCHANGED sectors
      BY <2>5 DEF ListRest
    <3>2. IsCalculated' <=> IsCalculated
      BY <3>1 DEF IsCalculated, IsPlain
    <3>3. ASSUME IsCalculated PROVE Listed'
      <4>1. /\ Listed /\ newOffset = End /\ remaining \in Nat
            /\ newOffset = SectorsCount * SectorSize
            /\ newOffset + remaining = file.fileSize
        BY <3>1, <3>3 DEF CoverInv, Listed
      <4>2. /\ SectorsCount \in Nat
            /\ file.fileSize < SectorsCount * SectorSize + SectorSize
        BY <3>1, <3>3, FullSectors DEF CoverInv, IsCalculated, SectorsCount
      <4>3. SectorsCount * SectorSize \in Nat
        BY <4>2, SectorsAssumption
      <4>4. CASE remaining > 0
        <5>1. remaining \in 1..SectorSize
          BY <4>1, <4>2, <4>3, <4>4, SectorsAssumption
        <5>2. /\ sectors' \in Seq([index : Nat, offset : Nat, size : Nat, uncompressed : Nat])
              /\ \A i \in DOMAIN sectors' : IsNext(i)'
              /\ End' = End + remaining
          BY <3>1, <4>1, <4>4, <5>1, OneMore
        <5> QED BY <3>1, <4>1, <5>2 DEF Listed
      <4>5. CASE ~(remaining > 0)
        <5>1. sectors' = sectors /\ End = file.fileSize
          BY <3>1, <4>1, <4>3, <4>5
        <5> QED BY <3>1, <4>1, <5>1 DEF Listed, End, IsNext
      <4> QED BY <4>4, <4>5
    <3> QED BY <3>1, <3>2, <3>3 DEF CoverInv
  <2>6. CASE ListFromTable \/ ListEnd
    <3>1. HasTable /\ file' = file /\ pc' \notin {"closed", "stored"}
      BY <2>6 DEF ListFromTable, ListEnd
    <3>2. ~IsCalculated'
      BY <3>1 DEF HasTable, HasSectorOffsetTable, IsCalculated, IsPlain
    <3> QED BY <3>1, <3>2 DEF CoverInv
  <2>7. CASE Lose \/ UNCHANGED vars
    <3>1. UNCHANGED <<pc, file, sectors, newOffset, remaining>>
      BY <2>7 DEF Lose, vars, reader
    <3> QED BY <3>1 DEF CoverInv, IsCalculated, IsPlain, Listed, IsNext, End, SectorsCount, HasTable
  <2>8. CASE Decompress
    <3>1. /\ UNCHANGED <<file, sectors, newOffset, remaining>>
          /\ pc = "reading" /\ pc' \in {"reading", "done", "threw"}
      BY <2>8 DEF Decompress, ReadEmpty, ReadThrows, ReadSector, Finish, Deliver, Throw, Reading,
                  reader
    <3> QED BY <3>1 DEF CoverInv, IsCalculated, IsPlain, Listed, IsNext, End
  <2> QED BY <2>1, <2>2, <2>3, <2>4, <2>5, <2>6, <2>7, <2>8 DEF Next, Sectors
<1>3. CoverInv => SectorsCover
  BY DEF CoverInv, Listed, IsCalculated, SectorsCover
<1> QED BY <1>1, <1>2, <1>3, PTL DEF Spec

-----------------------------------------------------------------------------
(***************************************************************************)
(* The algorithms a byte names.                                            *)
(***************************************************************************)
(* One turn of the ifs of Sector::compress() and Sector::decompress().     *)
Use(used, a, algorithms) == IF a \in algorithms THEN Append(used, a) ELSE used
UseStages(h, algorithms, order) ==
    /\ h \in [0..Len(order) -> Seq(Algorithms)] /\ h[0] = <<>>
    /\ \A k \in 1..Len(order) : h[k] = Use(h[k - 1], order[k], algorithms)
    /\ h[Len(order)] = InOrder(algorithms, order)

(* There is a list of those used after each of them.                       *)
LEMMA UseStagesExist ==
    ASSUME NEW s \in Seq(Algorithms), NEW chosen
    PROVE  \E h : UseStages(h, chosen, s)
<1> DEFINE D == DOMAIN s
           T == Algorithms
           X == Seq(T)
           step == [p \in X \X T |-> Use(p[1], p[2], chosen)]
           Fold(it) == [x \in SUBSET D |->
                IF x = {} THEN <<>> ELSE Use(it[x \ {Max(x)}], s[Max(x)], chosen)]
<1> HIDE DEF T
<1>0. s \in Seq(T)
  BY DEF T
<1>1. step \in [X \X T -> X]
  BY DEF Use
<1>2. \A x \in X, i \in T : step[<<x, i>>] = Use(x, i, chosen)
  OBVIOUS
<1>3. <<>> \in X /\ \A k \in D : s[k] \in T
  BY <1>0
<1> HIDE DEF X, step, D, Fold
<1>4. PICK g : SeqFold(g, s, X, T, <<>>, step)
  BY <1>0, <1>1, <1>3, SeqFoldExists
<1>5. /\ g \in [SUBSET D -> X]
      /\ g[{}] = <<>>
      /\ \A S \in SUBSET D : S # {} =>
           /\ Max(S) \in D /\ s[Max(S)] \in T /\ g[S \ {Max(S)}] \in X
           /\ g[S] = step[<<g[S \ {Max(S)}], s[Max(S)]>>]
  BY <1>4 DEF SeqFold, D
<1> USE DEF Fold
<1>6. g = Fold(g)
  <2>1. \A S \in SUBSET D : S # {} => g[S] = Use(g[S \ {Max(S)}], s[Max(S)], chosen)
    BY <1>2, <1>5
  <2> QED BY <1>5, <2>1
<1> DEFINE c == CHOOSE it : it = Fold(it)
<1>7. c = Fold(c)
  BY <1>6
<1>8. InOrder(chosen, s) = c[D]
  BY Zenon DEF InOrder, FoldLeft, MapThenFoldSet, Use, D
<1> HIDE DEF c
<1>9. FoldsSeq(c, s, X, <<>>, step)
  <2>1. c[{}] = <<>>
    BY <1>7
  <2>2. ASSUME NEW S \in SUBSET D, S # {}, c[S \ {Max(S)}] \in X
        PROVE  c[S] = step[<<c[S \ {Max(S)}], s[Max(S)]>>]
    <3>1. c[S] = Use(c[S \ {Max(S)}], s[Max(S)], chosen)
      BY <1>7, <2>2
    <3>2. s[Max(S)] \in T
      BY <1>5, <2>2
    <3> QED BY <1>2, <2>2, <3>1, <3>2
  <2> QED BY <2>1, <2>2 DEF FoldsSeq, D
<1> HIDE DEF Fold
<1>10. PICK h : StagesOf(c, h, s, X, <<>>, step)
  BY <1>0, <1>1, <1>3, <1>9, SeqFoldStages
<1>11. Stages(h, s, X, <<>>, step) /\ h[Len(s)] = c[DOMAIN s]
  BY <1>10 DEF StagesOf
<1>12. \A k \in 1..Len(s) : h[k - 1] \in X /\ s[k] \in T
  <2>1. Len(s) \in Nat /\ D = 1..Len(s)
    BY <1>0 DEF D
  <2>2. \A k \in 1..Len(s) : k - 1 \in 0..Len(s)
    BY <2>1
  <2> QED BY <1>3, <1>11, <2>1, <2>2 DEF Stages
<1>13. \A k \in 1..Len(s) : h[k] = Use(h[k - 1], s[k], chosen)
  BY <1>2, <1>11, <1>12 DEF Stages
<1> QED BY <1>8, <1>11, <1>13 DEF UseStages, Stages, X, D, T

(* The orders name all algorithms.                                         *)
LEMMA Orders ==
    /\ WriteOrder \in Seq(Algorithms) /\ Len(WriteOrder) = 6
    /\ ReadOrder \in Seq(Algorithms) /\ Len(ReadOrder) = 6
    /\ \A i \in 1..6 : 7 - i \in 1..6 /\ ReadOrder[i] = WriteOrder[7 - i]
    /\ \A i \in 1..6 : WriteOrder[i] = ReadOrder[7 - i]
    /\ \A i, j \in 1..6 : WriteOrder[i] = WriteOrder[j] => i = j
    /\ \A a \in Algorithms : \E i \in 1..6 : WriteOrder[i] = a
<1>1. /\ Len(WriteOrder) = 6 /\ DOMAIN WriteOrder = 1..6
      /\ WriteOrder[1] = "ImaAdpcmMono" /\ WriteOrder[2] = "ImaAdpcmStereo"
      /\ WriteOrder[3] = "Huffman" /\ WriteOrder[4] = "Deflated"
      /\ WriteOrder[5] = "Imploded" /\ WriteOrder[6] = "Bzip2"
  BY DEF WriteOrder
<1>2. \A i \in 1..6 : i = 1 \/ i = 2 \/ i = 3 \/ i = 4 \/ i = 5 \/ i = 6
  OBVIOUS
<1>3. WriteOrder \in Seq(Algorithms)
  <2>1. \A i \in 1..6 : WriteOrder[i] \in Algorithms
    BY <1>1 DEF Algorithms, ToSet
  <2>2. WriteOrder = [i \in 1..6 |-> WriteOrder[i]]
    BY DEF WriteOrder
  <2> HIDE DEF Algorithms
  <2> QED BY <2>1, <2>2
<1>4. \A i \in 1..6 : 7 - i \in 1..6 /\ ReadOrder[i] = WriteOrder[7 - i]
  BY DEF ReadOrder
<1>5. \A i \in 1..6 : WriteOrder[i] = ReadOrder[7 - i]
  <2> SUFFICES ASSUME NEW i \in 1..6 PROVE WriteOrder[i] = ReadOrder[7 - i]
    OBVIOUS
  <2>1. 7 - i \in 1..6 /\ 7 - (7 - i) = i
    OBVIOUS
  <2> QED BY <1>4, <2>1
<1>6. ReadOrder \in Seq(Algorithms) /\ Len(ReadOrder) = 6
  <2>1. \A i \in 1..6 : WriteOrder[7 - i] \in Algorithms
    BY <1>1, <1>4 DEF Algorithms, ToSet
  <2> HIDE DEF Algorithms
  <2> QED BY <2>1 DEF ReadOrder
<1>7. \A i, j \in 1..6 : WriteOrder[i] = WriteOrder[j] => i = j
  BY <1>1, <1>2
<1>8. \A a \in Algorithms : \E i \in 1..6 : WriteOrder[i] = a
  BY <1>1 DEF Algorithms, ToSet
<1> QED BY <1>1, <1>3, <1>4, <1>5, <1>6, <1>7, <1>8

(* Of algorithms of which the order has one, that one is used.             *)
Only(i, algorithms, order) ==
    /\ i \in 1..Len(order) /\ order[i] \in algorithms
    /\ \A j \in 1..Len(order) : order[j] \in algorithms => j = i

(* Only one of the algorithms is asked for, so only it is used.            *)
LEMMA OnlyOne ==
    ASSUME NEW order \in Seq(Algorithms), NEW algorithms, NEW i, Only(i, algorithms, order)
    PROVE  InOrder(algorithms, order) = <<order[i]>>
<1> DEFINE n == Len(order)
<1>1. PICK h : UseStages(h, algorithms, order)
  BY UseStagesExist
<1> DEFINE Good == {k \in 0..n : h[k] = IF k < i THEN <<>> ELSE <<order[i]>>}
<1>2. n \in Nat /\ i \in 1..n
  BY DEF Only
<1>3. 0 \in Good
  BY <1>1, <1>2 DEF UseStages
<1>4. \A k \in 0..n - 1 : k \in Good => k + 1 \in Good
  <2> SUFFICES ASSUME NEW k \in 0..n - 1, k \in Good PROVE k + 1 \in Good
    OBVIOUS
  <2>1. k + 1 \in 1..n /\ k + 1 \in 0..n /\ (k + 1) - 1 = k /\ k \in Nat
    BY <1>2
  <2>2. h[k + 1] = IF order[k + 1] \in algorithms THEN Append(h[k], order[k + 1]) ELSE h[k]
    BY <1>1, <2>1 DEF UseStages, Use
  <2>3. order[k + 1] \in algorithms <=> k + 1 = i
    BY <2>1 DEF Only
  <2>4. Append(<<>>, order[i]) = <<order[i]>>
    OBVIOUS
  <2>5. h[k] = IF k < i THEN <<>> ELSE <<order[i]>>
    OBVIOUS
  <2>6. h[k + 1] = IF k + 1 < i THEN <<>> ELSE <<order[i]>>
    <3>1. CASE k + 1 = i
      <4>1. k < i /\ ~(k + 1 < i)
        BY <3>1, <1>2, <2>1
      <4>2. h[k] = <<>> /\ h[k + 1] = Append(h[k], order[i])
        BY <3>1, <4>1, <2>2, <2>3, <2>5
      <4> QED BY <4>1, <4>2, <2>4
    <3>2. CASE k + 1 # i
      BY <3>2, <2>1, <2>2, <2>3, <2>5, <1>2
    <3> QED BY <3>1, <3>2
  <2> QED BY <2>1, <2>6
<1> HIDE DEF Good
<1>5. n \in Good
  <2> HIDE DEF n
  <2>1. \A k \in 0..n : k \in Good
    BY <1>2, <1>3, <1>4, InductionTo
  <2> QED BY <1>2, <2>1
<1> QED BY <1>1, <1>2, <1>5 DEF Good, UseStages

(* As many are used as the order has; here, none and one.                  *)
LEMMA UsedAtLeast ==
    ASSUME NEW order \in Seq(Algorithms), NEW algorithms,
           NEW i \in 1..Len(order), order[i] \in algorithms
    PROVE  /\ InOrder(algorithms, order) # <<>> /\ Len(InOrder(algorithms, order)) \in Nat
           /\ \A j \in 1..Len(order) :
                i < j /\ order[j] \in algorithms => Len(InOrder(algorithms, order)) > 1
<1> DEFINE n == Len(order)
<1>1. PICK h : UseStages(h, algorithms, order)
  BY UseStagesExist
<1>2. n \in Nat /\ i \in 1..n
  OBVIOUS
<1>3. \A k \in 0..n : h[k] \in Seq(Algorithms) /\ Len(h[k]) \in Nat
  <2>1. \A k \in 0..n : h[k] \in Seq(Algorithms)
    BY <1>1 DEF UseStages
  <2> QED BY <2>1
<1>4. \A k \in 0..n - 1 :
         /\ k + 1 \in 0..n /\ Len(h[k + 1]) >= Len(h[k])
         /\ order[k + 1] \in algorithms => Len(h[k + 1]) = Len(h[k]) + 1
  <2> SUFFICES ASSUME NEW k \in 0..n - 1
               PROVE  /\ k + 1 \in 0..n /\ Len(h[k + 1]) >= Len(h[k])
                      /\ order[k + 1] \in algorithms => Len(h[k + 1]) = Len(h[k]) + 1
    OBVIOUS
  <2>1. k + 1 \in 1..n /\ k + 1 \in 0..n /\ (k + 1) - 1 = k /\ k \in 0..n
    BY <1>2
  <2>2. h[k + 1] = IF order[k + 1] \in algorithms THEN Append(h[k], order[k + 1]) ELSE h[k]
    BY <1>1, <2>1 DEF UseStages, Use
  <2>3. h[k] \in Seq(Algorithms) /\ order[k + 1] \in Algorithms /\ Len(h[k]) \in Nat
    BY <1>3, <2>1
  <2>4. Len(Append(h[k], order[k + 1])) = Len(h[k]) + 1
    BY <2>3, AppendProperties
  <2> QED BY <2>1, <2>2, <2>3, <2>4
<1> DEFINE Good(m) == {k \in 0..n : k >= m => Len(h[k]) >= Len(h[m])}
<1>5. ASSUME NEW m \in 0..n, NEW l \in 0..n, m <= l PROVE Len(h[l]) >= Len(h[m])
  <2>1. 0 \in Good(m)
    BY <1>2, <1>3
  <2>2. ASSUME NEW k \in 0..n - 1, k \in Good(m) PROVE k + 1 \in Good(m)
    <3>1. k + 1 \in 0..n /\ k \in 0..n /\ Len(h[k + 1]) >= Len(h[k])
      BY <1>2, <1>4
    <3>2. Len(h[k]) \in Nat /\ Len(h[k + 1]) \in Nat /\ Len(h[m]) \in Nat
      BY <1>3, <3>1
    <3>3. CASE k >= m
      BY <2>2, <3>1, <3>2, <3>3
    <3>4. CASE ~(k >= m)
      <4>1. k + 1 >= m => k + 1 = m
        BY <3>4, <1>2
      <4> QED BY <3>1, <3>2, <4>1
    <3> QED BY <3>3, <3>4
  <2> DEFINE Upto == Good(m)
  <2>3. 0 \in Upto /\ \A k \in 0..n - 1 : k \in Upto => k + 1 \in Upto
    BY <2>1, <2>2
  <2> HIDE DEF Upto, n
  <2>4. \A k \in 0..n : k \in Upto
    BY <1>2, <2>3, InductionTo
  <2>5. l \in Upto
    BY <2>4
  <2> QED BY <1>5, <2>5 DEF Upto
<1>6. h[n] = InOrder(algorithms, order)
  BY <1>1 DEF UseStages
<1>7. Len(h[i]) >= 1
  <2>1. i - 1 \in 0..n - 1 /\ (i - 1) + 1 = i /\ i - 1 \in 0..n
    BY <1>2
  <2>2. Len(h[i]) = Len(h[i - 1]) + 1 /\ Len(h[i - 1]) \in Nat
    BY <1>3, <1>4, <2>1
  <2> QED BY <2>2
<1>8. n \in 0..n /\ i \in 0..n
  BY <1>2
<1>9. Len(h[n]) >= 1 /\ Len(h[n]) \in Nat
  <2>1. Len(h[n]) >= Len(h[i]) /\ Len(h[n]) \in Nat /\ Len(h[i]) \in Nat
    BY <1>2, <1>3, <1>5, <1>8
  <2> QED BY <1>7, <2>1
<1>10. h[n] # <<>>
  BY <1>9
<1>11. ASSUME NEW j \in 1..n, i < j, order[j] \in algorithms PROVE Len(h[n]) > 1
  <2>1. j - 1 \in 0..n - 1 /\ (j - 1) + 1 = j /\ j - 1 \in 0..n /\ j \in 0..n /\ j - 1 >= i
    BY <1>2, <1>11
  <2>2. Len(h[j]) = Len(h[j - 1]) + 1
    BY <1>4, <1>11, <2>1
  <2>3. Len(h[j - 1]) >= Len(h[i])
    BY <1>5, <1>8, <2>1, <1>2
  <2>4. Len(h[n]) >= Len(h[j])
    BY <1>2, <1>5, <1>8, <2>1
  <2>5. Len(h[n]) \in Nat /\ Len(h[j]) \in Nat /\ Len(h[j - 1]) \in Nat /\ Len(h[i]) \in Nat
    BY <1>3, <1>8, <2>1
  <2> QED BY <1>7, <2>2, <2>3, <2>4, <2>5
<1> QED BY <1>6, <1>9, <1>10, <1>11

(* One algorithm is used both ways, and none only if there is none.        *)
LEMMA UsedBothWays ==
    ASSUME NEW algorithms \in SUBSET Algorithms
    PROVE  /\ InOrder(algorithms, WriteOrder) = <<>> => algorithms = {}
           /\ Len(InOrder(algorithms, WriteOrder)) = 1 =>
                \E a \in Algorithms : /\ InOrder(algorithms, WriteOrder) = <<a>>
                                      /\ InOrder(algorithms, ReadOrder) = <<a>>
           /\ \A a \in Algorithms : InOrder({a}, ReadOrder) = <<a>>
<1>1. ASSUME NEW i \in 1..6, NEW A, Only(i, A, WriteOrder)
      PROVE  InOrder(A, ReadOrder) = <<WriteOrder[i]>>
  <2>1. Only(7 - i, A, ReadOrder)
    <3>1. 7 - i \in 1..6 /\ ReadOrder[7 - i] = WriteOrder[i]
      BY Orders
    <3>2. ASSUME NEW j \in 1..6, ReadOrder[j] \in A PROVE j = 7 - i
      <4>1. 7 - j \in 1..6 /\ WriteOrder[7 - j] \in A
        BY <3>2, Orders
      <4>2. 7 - j = i
        BY <4>1, <1>1, Orders DEF Only
      <4> QED BY <4>2
    <3>3. ReadOrder[7 - i] \in A
      BY <3>1, <1>1 DEF Only
    <3> QED BY <3>1, <3>2, <3>3, Orders DEF Only
  <2>2. InOrder(A, ReadOrder) = <<ReadOrder[7 - i]>>
    BY <2>1, OnlyOne, Orders
  <2>3. ReadOrder[7 - i] = WriteOrder[i]
    BY Orders
  <2> QED BY <2>2, <2>3
<1>2. ASSUME InOrder(algorithms, WriteOrder) = <<>> PROVE algorithms = {}
  <2> SUFFICES ASSUME NEW a \in algorithms PROVE FALSE
    OBVIOUS
  <2>1. PICK i \in 1..6 : WriteOrder[i] = a
    BY Orders
  <2> QED BY <1>2, <2>1, UsedAtLeast, Orders
<1>3. ASSUME Len(InOrder(algorithms, WriteOrder)) = 1
      PROVE  \E a \in Algorithms : /\ InOrder(algorithms, WriteOrder) = <<a>>
                                   /\ InOrder(algorithms, ReadOrder) = <<a>>
  <2>1. PICK i \in 1..6 : WriteOrder[i] \in algorithms
    <3> SUFFICES ASSUME \A i \in 1..6 : WriteOrder[i] \notin algorithms PROVE FALSE
      OBVIOUS
    <3>1. PICK h : UseStages(h, algorithms, WriteOrder)
      BY UseStagesExist, Orders
    <3>2. h[0] = <<>> /\ \A k \in 1..6 : h[k] = h[k - 1]
      BY <3>1, Orders DEF UseStages, Use
    <3>3. h[1] = <<>> /\ h[2] = h[1] /\ h[3] = h[2] /\ h[4] = h[3] /\ h[5] = h[4] /\ h[6] = h[5]
      BY <3>2
    <3>4. h[6] = InOrder(algorithms, WriteOrder)
      BY <3>1, Orders DEF UseStages
    <3> QED BY <1>3, <3>3, <3>4
  <2>2. ASSUME NEW j \in 1..6, WriteOrder[j] \in algorithms PROVE j = i
    <3>1. WriteOrder \in Seq(Algorithms) /\ i \in 1..Len(WriteOrder) /\ j \in 1..Len(WriteOrder)
      BY Orders
    <3>2. i < j => Len(InOrder(algorithms, WriteOrder)) > 1
      BY <2>1, <2>2, <3>1, UsedAtLeast
    <3>3. j < i => Len(InOrder(algorithms, WriteOrder)) > 1
      BY <2>1, <2>2, <3>1, UsedAtLeast
    <3> QED BY <1>3, <3>2, <3>3
  <2>3. Only(i, algorithms, WriteOrder)
    BY <2>1, <2>2, Orders DEF Only
  <2>4. InOrder(algorithms, WriteOrder) = <<WriteOrder[i]>>
    BY <2>3, OnlyOne, Orders
  <2> QED BY <1>1, <2>1, <2>3, <2>4
<1>4. ASSUME NEW a \in Algorithms PROVE InOrder({a}, ReadOrder) = <<a>>
  <2>1. PICK i \in 1..6 : WriteOrder[i] = a
    BY Orders
  <2>2. Only(i, {a}, WriteOrder)
    BY <2>1, Orders DEF Only
  <2> QED BY <1>1, <2>1, <2>2
<1> QED BY <1>2, <1>3, <1>4

-----------------------------------------------------------------------------
(***************************************************************************)
(* Where the sectors of a file end.                                        *)
(***************************************************************************)
(* What a quotient is known by.                                            *)
LEMMA Quotient ==
    ASSUME NEW d \in Nat \ {0}, NEW x \in Nat, NEW q \in Nat, q * d <= x, x < q * d + d
    PROVE  x \div d = q
<1> DEFINE p == x \div d
<1>1. p \in Nat /\ p * d <= x /\ x < p * d + d
  OBVIOUS
<1> HIDE DEF p
<1>2. ~(p < q)
  <2> SUFFICES ASSUME p + 1 <= q PROVE FALSE
    BY <1>1
  <2>1. PICK r \in Nat : q = p + 1 + r
    <3>1. q - (p + 1) \in Nat /\ q = p + 1 + (q - (p + 1))
      BY <1>1
    <3> QED BY <3>1
  <2>2. q * d = p * d + d + r * d /\ r * d \in Nat /\ p * d \in Nat
    BY <1>1, <2>1
  <2> QED BY <1>1, <2>2
<1>3. ~(q < p)
  <2> SUFFICES ASSUME q + 1 <= p PROVE FALSE
    BY <1>1
  <2>1. PICK r \in Nat : p = q + 1 + r
    <3>1. p - (q + 1) \in Nat /\ p = q + 1 + (p - (q + 1))
      BY <1>1
    <3> QED BY <3>1
  <2>2. p * d = q * d + d + r * d /\ r * d \in Nat /\ q * d \in Nat
    BY <1>1, <2>1
  <2> QED BY <1>1, <2>2
<1> QED BY <1>1, <1>2, <1>3 DEF p

(* Full sectors of n bytes, and one for the rest.                          *)
Cut(n, i) == Least(i * SectorSize, n)
IsCut(n, i) ==
    /\ Cut(n, i - 1) \in Nat /\ Cut(n, i) \in Nat
    /\ Cut(n, i - 1) = (i - 1) * SectorSize
    /\ Cut(n, i - 1) < Cut(n, i) /\ Cut(n, i) <= n
    /\ Cut(n, i) - Cut(n, i - 1) <= SectorSize
    /\ Cut(n, i) - Cut(n, i - 1) = Least(SectorSize, n - Cut(n, i - 1))
    /\ i <= n \div SectorSize => Cut(n, i) = Cut(n, i - 1) + SectorSize
    /\ i > n \div SectorSize => Cut(n, i) = n

(* The places a file is cut at rise from 0 to its size, and the last two   *)
(* tell whether its size is one of whole sectors.                          *)
LEMMA Cuts ==
    ASSUME NEW n \in Nat
    PROVE  /\ Ceiling(n, SectorSize) \in Nat /\ n \div SectorSize \in Nat
           /\ Cut(n, 0) = 0 /\ Cut(n, Ceiling(n, SectorSize)) = n
           /\ \A i \in 0..Ceiling(n, SectorSize) : Cut(n, i) \in 0..n
           /\ \A i \in 1..Ceiling(n, SectorSize) : IsCut(n, i)
           /\ \/ /\ Ceiling(n, SectorSize) = n \div SectorSize
                 /\ n = (n \div SectorSize) * SectorSize
              \/ /\ Ceiling(n, SectorSize) = n \div SectorSize + 1
                 /\ n > (n \div SectorSize) * SectorSize
<1> DEFINE S == SectorSize
           q == n \div S
           c == Ceiling(n, S)
<1>1. S \in Nat /\ S >= 1
  BY SectorsAssumption
<1>2. q \in Nat /\ q * S <= n /\ n < q * S + S
  BY FullSectors
<1>3. q * S \in Nat /\ (q + 1) * S = q * S + S
  BY <1>1, <1>2
<1>4. \/ c = q /\ n = q * S
      \/ c = q + 1 /\ n > q * S
  <2>1. n + S - 1 \in Nat
    BY <1>1
  <2> HIDE DEF q
  <2>2. CASE n = q * S
    <3>1. q * S <= n + S - 1 /\ n + S - 1 < q * S + S
      BY <1>1, <1>2, <2>2
    <3>2. (n + S - 1) \div S = q
      BY <1>1, <1>2, <2>1, <3>1, Quotient
    <3> QED BY <2>2, <3>2 DEF Ceiling
  <2>3. CASE n # q * S
    <3> DEFINE p == q + 1
    <3>1. p \in Nat /\ p * S = q * S + S
      BY <1>2, <1>3
    <3> HIDE DEF p
    <3>2. p * S <= n + S - 1 /\ n + S - 1 < p * S + S
      BY <1>1, <1>2, <1>3, <2>3, <3>1
    <3>3. (n + S - 1) \div S = p
      BY <1>1, <2>1, <3>1, <3>2, Quotient
    <3> QED BY <1>2, <1>3, <2>3, <3>3 DEF Ceiling, p
  <2> QED BY <2>2, <2>3
<1> HIDE DEF q, c
<1>5. c \in Nat
  BY <1>2, <1>4
<1>6. ASSUME NEW i \in Nat, i <= q PROVE i * S \in Nat /\ i * S <= n /\ Cut(n, i) = i * S
  <2>1. PICK r \in Nat : q = i + r
    <3>1. q - i \in Nat /\ q = i + (q - i)
      BY <1>2, <1>6
    <3> QED BY <3>1
  <2>2. q * S = i * S + r * S /\ r * S \in Nat /\ i * S \in Nat
    BY <1>1, <2>1
  <2> QED BY <1>2, <1>3, <2>2 DEF Cut, Least
<1>7. ASSUME NEW i \in Nat, i > q PROVE i = c => Cut(n, i) = n
  <2>1. i = c => i * S = q * S + S
    BY <1>2, <1>3, <1>4, <1>7
  <2> QED BY <1>1, <1>2, <1>3, <2>1 DEF Cut, Least
<1>8. Cut(n, 0) = 0
  <2>1. 0 * S = 0
    BY <1>1
  <2> QED BY <2>1 DEF Cut, Least
<1>9. ASSUME NEW i \in 1..c PROVE IsCut(n, i)
  <2>1. i - 1 \in Nat /\ i - 1 <= q /\ i \in Nat
    BY <1>2, <1>4, <1>5
  <2>2. (i - 1) * S \in Nat /\ (i - 1) * S <= n /\ Cut(n, i - 1) = (i - 1) * S
    BY <1>6, <2>1
  <2>3. i * S = (i - 1) * S + S /\ i * S \in Nat
    BY <1>1, <2>1
  <2>4. CASE i <= q
    <3>1. Cut(n, i) = i * S /\ i * S <= n
      BY <1>6, <2>1, <2>4
    <3>2. Cut(n, i) = Cut(n, i - 1) + S
      BY <2>2, <2>3, <3>1
    <3>3. Least(S, n - Cut(n, i - 1)) = S
      BY <1>1, <2>2, <2>3, <3>1 DEF Least
    <3>4. ~(i > q)
      BY <1>2, <2>1, <2>4
    <3> QED BY <1>1, <2>2, <2>3, <3>1, <3>2, <3>3, <3>4 DEF IsCut, q
  <2>5. CASE ~(i <= q)
    <3>1. i = c /\ i > q /\ i - 1 = q /\ n > q * S
      BY <1>2, <1>4, <2>1, <2>5
    <3>2. Cut(n, i) = n
      BY <1>7, <2>1, <3>1
    <3>3. Cut(n, i - 1) = q * S
      BY <2>2, <3>1
    <3>4. Least(S, n - Cut(n, i - 1)) = n - Cut(n, i - 1)
      BY <1>1, <1>2, <1>3, <3>3 DEF Least
    <3>5. n - Cut(n, i - 1) <= S
      BY <1>1, <1>2, <1>3, <3>3
    <3> QED BY <1>1, <1>2, <1>3, <2>1, <2>2, <2>5, <3>1, <3>2, <3>3, <3>4, <3>5 DEF IsCut, q
  <2> QED BY <2>4, <2>5
<1>10. Cut(n, c) = n
  <2>1. CASE c = q
    BY <1>2, <1>4, <1>6, <2>1
  <2>2. CASE c # q
    BY <1>2, <1>4, <1>5, <1>7, <2>2
  <2> QED BY <2>1, <2>2
<1>11. \A i \in 0..c : Cut(n, i) \in 0..n
  <2> SUFFICES ASSUME NEW i \in 0..c PROVE Cut(n, i) \in 0..n
    OBVIOUS
  <2>1. CASE i = 0
    BY <1>8, <2>1
  <2>2. CASE i # 0
    <3>1. IsCut(n, i)
      BY <1>5, <1>9, <2>2
    <3> QED BY <3>1 DEF IsCut
  <2> QED BY <2>1, <2>2
<1> QED BY <1>2, <1>4, <1>5, <1>8, <1>9, <1>10, <1>11 DEF q, c

-----------------------------------------------------------------------------
(* Pieces of the data.                                                     *)
Cells == {Plain(i) : i \in Int}

(* A piece of the data has the bytes from its first to its last one, and   *)
(* goes on where the data before it ends.                                  *)
LEMMA Pieced ==
    ASSUME NEW x \in Nat, NEW y \in Nat, x <= y
    PROVE  /\ Data(x + 1, y) \in Seq(Cells) /\ Len(Data(x + 1, y)) = y - x
           /\ \A j \in 1..y - x : Data(x + 1, y)[j] = Plain(x + j)
           /\ Data(1, x) \o Data(x + 1, y) = Data(1, y)
<1>1. ASSUME NEW u \in Nat, NEW v \in Nat, u <= v
      PROVE  /\ Data(u + 1, v) \in Seq(Cells) /\ Len(Data(u + 1, v)) = v - u
             /\ \A j \in 1..v - u : Data(u + 1, v)[j] = Plain(u + j)
  <2>1. v - u \in Nat /\ v - (u + 1) + 1 = v - u
    BY <1>1
  <2>2. \A j \in 1..v - u : u + 1 + j - 1 = u + j /\ Plain(u + j) \in Cells
    BY DEF Cells
  <2>3. Data(u + 1, v) = [j \in 1..v - u |-> Plain(u + 1 + j - 1)]
    BY <2>1 DEF Data
  <2>4. Data(u + 1, v) = [j \in 1..v - u |-> Plain(u + j)]
    BY <2>2, <2>3
  <2>5. \A j \in 1..v - u : Plain(u + j) \in Cells
    BY <2>2
  <2> DEFINE p == [j \in 1..v - u |-> Plain(u + j)]
  <2>6. p \in Seq(Cells) /\ Len(p) = v - u /\ \A j \in 1..v - u : p[j] = Plain(u + j)
    <3> HIDE DEF Cells, Plain
    <3> QED BY <2>1, <2>5
  <2> HIDE DEF p, Cells, Plain
  <2> QED BY <2>4, <2>6 DEF p
<1> DEFINE a == Data(1, x)
           b == Data(x + 1, y)
           c == Data(1, y)
<1>2. /\ a \in Seq(Cells) /\ Len(a) = x /\ \A j \in 1..x : a[j] = Plain(j)
      /\ c \in Seq(Cells) /\ Len(c) = y /\ \A j \in 1..y : c[j] = Plain(j)
  <2>1. 0 + 1 = 1 /\ x - 0 = x /\ y - 0 = y /\ 0 <= x /\ 0 <= y /\ 0 \in Nat
    OBVIOUS
  <2>2. /\ Data(0 + 1, x) \in Seq(Cells) /\ Len(Data(0 + 1, x)) = x - 0
        /\ \A j \in 1..x - 0 : Data(0 + 1, x)[j] = Plain(0 + j)
    BY <1>1, <2>1
  <2>3. /\ Data(0 + 1, y) \in Seq(Cells) /\ Len(Data(0 + 1, y)) = y - 0
        /\ \A j \in 1..y - 0 : Data(0 + 1, y)[j] = Plain(0 + j)
    BY <1>1, <2>1
  <2>4. \A j \in Int : 0 + j = j
    OBVIOUS
  <2> HIDE DEF Cells, Plain, Data
  <2> QED BY <2>1, <2>2, <2>3, <2>4
<1>3. /\ b \in Seq(Cells) /\ Len(b) = y - x /\ \A j \in 1..y - x : b[j] = Plain(x + j)
  BY <1>1
<1> HIDE DEF a, b, c, Cells, Plain
<1>4. /\ a \o b \in Seq(Cells) /\ Len(a \o b) = x + (y - x)
      /\ \A j \in 1..x + (y - x) : (a \o b)[j] = IF j <= x THEN a[j] ELSE b[j - x]
  BY <1>2, <1>3, ConcatProperties
<1>5. Len(a \o b) = y /\ \A j \in 1..y : (a \o b)[j] = c[j]
  <2>1. x + (y - x) = y
    OBVIOUS
  <2>2. ASSUME NEW j \in 1..y PROVE (a \o b)[j] = c[j]
    <3>1. CASE j <= x
      BY <3>1, <2>1, <1>2, <1>4
    <3>2. CASE ~(j <= x)
      <4>1. j - x \in 1..y - x /\ x + (j - x) = j
        BY <3>2
      <4> QED BY <3>2, <4>1, <2>1, <1>2, <1>3, <1>4
    <3> QED BY <3>1, <3>2
  <2> QED BY <1>4, <2>1, <2>2
<1>6. a \o b = c
  BY <1>2, <1>4, <1>5, SeqEqual
<1> QED BY <1>3, <1>6 DEF a, b, c

-----------------------------------------------------------------------------
(***************************************************************************)
(* What a file is laid out like that decompress() gives back.              *)
(***************************************************************************)
Plainly(f) == f.flags \cap {"IsCompressed", "IsImploded"} = {}
Secret(f) == "IsEncrypted" \in f.flags
Tabled(f) == HasSectorOffsetTable(f.flags)
InOne(f) == ~Plainly(f) /\ ~Tabled(f)
KeyOf(f, plus) == FileKey("name", f.flags, f.fileSize, plus)
Opened(f, cells, plus) ==
    IF Secret(f) THEN DecryptData(cells, KeyOf(f, plus)) ELSE cells

(* The sectors the data is read in, and how much of it they hold.          *)
Parts(f) == IF InOne(f) THEN 1 ELSE Ceiling(f.dataSize, SectorSize)
Upto(f, i) ==
    IF InOne(f) THEN (IF i = 0 THEN 0 ELSE f.dataSize) ELSE Cut(f.dataSize, i)

(* The parts of a file hold more and more of the data, from none to all of *)
(* it.                                                                     *)
LEMMA Uptos ==
    ASSUME NEW f, f.dataSize \in Nat
    PROVE  /\ Parts(f) \in Nat /\ Upto(f, 0) = 0 /\ Upto(f, Parts(f)) = f.dataSize
           /\ \A i \in 0..Parts(f) : Upto(f, i) \in Nat /\ Upto(f, i) <= f.dataSize
           /\ \A i \in 1..Parts(f) : i - 1 \in 0..Parts(f) /\ Upto(f, i - 1) <= Upto(f, i)
<1> DEFINE n == f.dataSize
<1>1. CASE InOne(f)
  <2>1. Parts(f) = 1 /\ \A i : Upto(f, i) = IF i = 0 THEN 0 ELSE n
    BY <1>1 DEF Parts, Upto
  <2> QED BY <2>1
<1>2. CASE ~InOne(f)
  <2> DEFINE c == Ceiling(n, SectorSize)
  <2>1. Parts(f) = c /\ \A i : Upto(f, i) = Cut(n, i)
    BY <1>2 DEF Parts, Upto
  <2>2. c \in Nat /\ Cut(n, 0) = 0 /\ Cut(n, c) = n /\ \A i \in 0..c : Cut(n, i) \in 0..n
    BY Cuts
  <2>3. \A i \in 1..c : Cut(n, i - 1) < Cut(n, i)
    BY Cuts DEF IsCut
  <2> HIDE DEF n, c
  <2>4. \A i \in 1..c : i - 1 \in 0..c /\ i \in 0..c
    BY <2>2
  <2>5. n \in Nat
    BY DEF n
  <2>6. \A i \in 1..c : Cut(n, i - 1) <= Cut(n, i)
    BY <2>2, <2>3, <2>4, <2>5
  <2> QED BY <2>1, <2>2, <2>4, <2>5, <2>6 DEF n
<1> QED BY <1>1, <1>2

(* The bytes of a sector: the data as it is, or what one algorithm made of *)
(* it behind the byte that names the algorithm.                            *)
IsWhole(f, bytes, i) ==
    /\ Len(bytes) = Upto(f, i) - Upto(f, i - 1)
    /\ Opened(f, bytes, i - 1) = Data(Upto(f, i - 1) + 1, Upto(f, i))
IsShrunk(f, bytes, i) ==
    /\ 0 < Len(bytes) /\ Len(bytes) < Upto(f, i) - Upto(f, i - 1)
    /\ \E a, algorithms : \E size \in Nat \ {0} :
         /\ InOrder(algorithms, ReadOrder) = <<a>>
         /\ Opened(f, bytes, i - 1) =
              <<Mask(algorithms)>> \o Packed(Upto(f, i - 1) + 1, Upto(f, i), <<a>>, size)
HoldsPart(f, cells, ends, i) ==
    \/ IsWhole(f, Between(cells, ends[i - 1], ends[i]), i)
    \/ IsShrunk(f, Between(cells, ends[i - 1], ends[i]), i)

(* The sectors end where the reader looks for their ends.                  *)
EndsAreFound(f, cells, ends) ==
    /\ Plainly(f) => /\ f.blockSize \div SectorSize = f.dataSize \div SectorSize
                     /\ \A i \in 0..Parts(f) : ends[i] = Upto(f, i)
    /\ Tabled(f) => /\ ends[0] = (Parts(f) + 1) * Word
                    /\ \A i \in 0..Parts(f) :
                         NumberAt(Opened(f, SubSeq(cells, 1, ends[0]), -1), i * Word) = ends[i]
    /\ InOne(f) => ends[0] = 0 /\ ends[1] = f.blockSize
Laid(f, cells, ends) ==
    /\ f.dataSize \in Nat /\ f.fileSize = f.dataSize /\ "IsImploded" \notin f.flags
    /\ ends \in [0..Parts(f) -> 0..Len(cells)]
    /\ \A i \in 1..Parts(f) : ends[i - 1] <= ends[i]
    /\ EndsAreFound(f, cells, ends)
    /\ \A i \in 1..Parts(f) : HoldsPart(f, cells, ends, i)

(* Which files are: those that other programs and addFile() write well.    *)
WrittenByOthers(f) ==
    /\ ~f.own /\ "IsImploded" \notin f.flags /\ Len(f.chain) <= 1
    /\ Plainly(f) /\ Secret(f) /\ "IsSingleUnit" \in f.flags => f.dataSize < SectorSize + Word
WrittenByAddFile(f) ==
    /\ f.own
    /\ Secret(f) => f.path = "name" /\ "UsesEncryptionKey" \notin f.flags
    /\ \/ /\ Plainly(f) /\ f.chain = <<>>
          /\ Secret(f) => f.dataSize < SectorSize + Word
       \/ /\ Plainly(f) /\ f.chain # <<>> /\ ~Secret(f)
          /\ (f.dataSize + 1) % SectorSize # 0
       \/ /\ ~Plainly(f) /\ "IsSingleUnit" \in f.flags
          /\ Len(f.chain) = 1 /\ f.packed + 1 < f.dataSize /\ f.packed > 0
          /\ Secret(f) => (f.packed + 2) % Word # 0
Readable(f) == WrittenByOthers(f) \/ WrittenByAddFile(f)

-----------------------------------------------------------------------------
(* How far reading has come.                                               *)
Found(f, ends, k) ==
    [i \in 1..k |-> NewSector(i - 1, ends[i - 1], ends[i] - ends[i - 1],
                              Upto(f, i) - Upto(f, i - 1))]
Listing(ends) ==
    /\ ~InOne(file) /\ next = 1 /\ out = <<>>
    /\ \E k \in 0..Parts(file) :
         /\ sectors = Found(file, ends, k)
         /\ remaining = file.dataSize - Upto(file, k)
         /\ IF Tabled(file) THEN offsets = [i \in 1..(Parts(file) + 1) |-> ends[i - 1]]
            ELSE newOffset = Upto(file, k) /\ k <= file.dataSize \div SectorSize
Progress(ends) ==
    /\ pc = "listing" => Listing(ends)
    /\ pc = "reading" => /\ sectors = Found(file, ends, Parts(file))
                         /\ next \in 1..(Parts(file) + 1)
                         /\ out = Data(1, Upto(file, next - 1))
    /\ pc = "done" => out = Data(1, file.dataSize)
    /\ pc = "threw" => lost /\ \E k \in 0..Parts(file) : out = Data(1, Upto(file, k))
IsBeginning(cells, full) ==
    /\ Len(cells) <= Len(full) /\ cells = SubSeq(full, 1, Len(cells))
    /\ ~lost => cells = full
Reads(T, full, ends) ==
    /\ full \in Seq(T) /\ stored \in Seq(T) /\ IsBeginning(stored, full)
    /\ Laid(file, full, ends)
    /\ known => Progress(ends)
ReadInv ==
    /\ pc \in {"closed", "stored", "listing", "reading", "done", "threw"}
    /\ pc = "closed" => out = <<>> /\ file = NoFile
    /\ pc # "closed" /\ Readable(file) => \E T, full, ends : Reads(T, full, ends)
    /\ pc = "stored" => out = <<>>

(* The data of a file is a sequence of as many bytes as its size says.     *)
LEMMA DataIsSeq ==
    ASSUME NEW n \in Nat
    PROVE  Data(1, n) \in Seq(Cells) /\ Len(Data(1, n)) = n
<1>1. 0 \in Nat /\ 0 <= n /\ 0 + 1 = 1 /\ n - 0 = n
  OBVIOUS
<1>2. Data(0 + 1, n) \in Seq(Cells) /\ Len(Data(0 + 1, n)) = n - 0
  BY <1>1, Pieced
<1> HIDE DEF Cells
<1> QED BY <1>1, <1>2

(* What was written is found to be the beginning of the data.              *)
LEMMA OutIsData ==
    ASSUME ReadInv, known, Readable(file)
    PROVE  /\ Len(out) <= file.dataSize /\ out = Data(1, Len(out))
           /\ pc = "done" => out = Original
           /\ pc = "threw" => lost
<1>1. \A n \in Nat : out = Data(1, n) => Len(out) = n /\ out = Data(1, Len(out))
  <2> SUFFICES ASSUME NEW n \in Nat, out = Data(1, n) PROVE Len(out) = n
    OBVIOUS
  <2> QED BY DataIsSeq
<1>2. CASE pc \in {"closed", "stored"}
  <2>1. out = <<>> /\ <<>> = Data(1, 0)
    BY <1>2 DEF ReadInv, Data
  <2>2. file.dataSize \in Nat
    <3>1. CASE pc = "closed"
      BY <3>1 DEF ReadInv, NoFile
    <3>2. CASE pc = "stored"
      BY <3>2 DEF ReadInv, Reads, Laid
    <3> QED BY <1>2, <3>1, <3>2
  <2>3. Len(out) = 0 /\ out = Data(1, Len(out))
    BY <1>1, <2>1
  <2> QED BY <1>2, <2>2, <2>3
<1>3. CASE pc \notin {"closed", "stored"}
  <2>1. PICK T, full, ends : Reads(T, full, ends)
    BY <1>3 DEF ReadInv
  <2>2. Progress(ends) /\ file.dataSize \in Nat
    BY <2>1 DEF Reads, Laid
  <2>3. /\ Parts(file) \in Nat
        /\ \A i \in 0..Parts(file) : Upto(file, i) \in Nat /\ Upto(file, i) <= file.dataSize
    BY <2>2, Uptos
  <2>4. CASE pc = "listing"
    <3>1. out = <<>> /\ <<>> = Data(1, 0)
      BY <2>2, <2>4 DEF Progress, Listing, Data
    <3>2. Len(out) = 0 /\ out = Data(1, Len(out))
      BY <1>1, <3>1
    <3> QED BY <2>2, <2>4, <3>2
  <2>5. CASE pc = "reading"
    <3>1. next - 1 \in 0..Parts(file) /\ out = Data(1, Upto(file, next - 1))
      BY <2>2, <2>3, <2>5 DEF Progress
    <3> QED BY <1>1, <2>3, <2>5, <3>1
  <2>6. CASE pc = "done"
    <3>1. out = Data(1, file.dataSize)
      BY <2>2, <2>6 DEF Progress
    <3> QED BY <1>1, <2>2, <2>6, <3>1 DEF Original
  <2>7. CASE pc = "threw"
    <3>1. lost /\ \E k \in 0..Parts(file) : out = Data(1, Upto(file, k))
      BY <2>2, <2>7 DEF Progress
    <3> QED BY <1>1, <2>3, <2>7, <3>1
  <2> QED BY <1>3, <2>4, <2>5, <2>6, <2>7 DEF ReadInv
<1> QED BY <1>2, <1>3

(* The invariant implies both promises.                                    *)
LEMMA ReadInvSuffices == ReadInv => AuthoredIsRead /\ OwnReadsBack
<1>1. ReadableByOthers => known /\ WrittenByOthers(file)
  BY DEF ReadableByOthers, WrittenByOthers, Plainly, Secret, IsPlain, IsEncrypted
<1>2. WrittenWell => known /\ ~lost /\ WrittenByAddFile(file)
  BY DEF WrittenWell, WrittenByAddFile, SameKey, Plainly, Secret, IsPlain, IsEncrypted
<1> QED BY <1>1, <1>2, OutIsData DEF AuthoredIsRead, OwnReadsBack, Readable

-----------------------------------------------------------------------------
(***************************************************************************)
(* File::sectors() lists the sectors of a file that is laid out so.        *)
(***************************************************************************)
Part(f, ends, i) ==
    NewSector(i - 1, ends[i - 1], ends[i] - ends[i - 1], Upto(f, i) - Upto(f, i - 1))

(* The sectors found are as many as were looked for, and finding one more  *)
(* appends it.                                                             *)
LEMMA FoundMore ==
    ASSUME NEW f, NEW ends, NEW k \in Nat
    PROVE  /\ Len(Found(f, ends, k)) = k
           /\ \A i \in 1..k : Found(f, ends, k)[i] = Part(f, ends, i)
           /\ Append(Found(f, ends, k), Part(f, ends, k + 1)) = Found(f, ends, k + 1)
           /\ Found(f, ends, 0) = <<>>
<1> DEFINE T == {Part(f, ends, i) : i \in Int}
           p == Part(f, ends, k + 1)
           a == Found(f, ends, k)
           b == Found(f, ends, k + 1)
<1>1. /\ a = [i \in 1..k |-> Part(f, ends, i)] /\ b = [i \in 1..k + 1 |-> Part(f, ends, i)]
      /\ Found(f, ends, 0) = [i \in 1..0 |-> Part(f, ends, i)]
  BY DEF Found, Part
<1>2. \A i \in Int : Part(f, ends, i) \in T
  OBVIOUS
<1> HIDE DEF T, a, b, Part
<1>3. a \in Seq(T) /\ Len(a) = k /\ \A i \in 1..k : a[i] = Part(f, ends, i)
  BY <1>1, <1>2
<1>4. b \in Seq(T) /\ Len(b) = k + 1 /\ \A i \in 1..k + 1 : b[i] = Part(f, ends, i)
  BY <1>1, <1>2
<1>5. p \in T
  BY <1>2
<1>6. Append(a, p) = b
  <2> HIDE DEF p
  <2>1. /\ Append(a, p) \in Seq(T) /\ Len(Append(a, p)) = k + 1
        /\ \A i \in 1..k : Append(a, p)[i] = a[i]
        /\ Append(a, p)[k + 1] = p
    BY <1>3, <1>5
  <2>2. \A i \in 1..k + 1 : Append(a, p)[i] = b[i]
    <3> SUFFICES ASSUME NEW i \in 1..k + 1 PROVE Append(a, p)[i] = b[i]
      OBVIOUS
    <3>1. CASE i \in 1..k
      BY <3>1, <1>3, <1>4, <2>1
    <3>2. CASE i = k + 1
      BY <3>2, <1>4, <2>1 DEF p
    <3>3. i \in 1..k \/ i = k + 1
      OBVIOUS
    <3> QED BY <3>1, <3>2, <3>3
  <2> QED BY <1>4, <2>1, <2>2, SeqEqual
<1>7. Found(f, ends, 0) = <<>>
  BY <1>1
<1> QED BY <1>3, <1>6, <1>7 DEF a, b, p

(* The sectors a file has and its size say how many there are.             *)
LEMMA HowMany ==
    ASSUME NEW full, NEW ends, Laid(file, full, ends)
    PROVE  /\ HasTable => SectorsCount = Parts(file)
           /\ IsPlain => SectorsCount = file.dataSize \div SectorSize
           /\ IsPlain <=> Plainly(file)
           /\ HasTable <=> Tabled(file)
           /\ Tabled(file) => ~Plainly(file)
           /\ IsPlain => ~HasTable
           /\ \A i \in 0..Parts(file) : ~InOne(file) => Upto(file, i) = Cut(file.dataSize, i)
           /\ ~InOne(file) => Parts(file) = Ceiling(file.dataSize, SectorSize)
<1>1. IsPlain <=> Plainly(file)
  BY DEF IsPlain, Plainly
<1>2. HasTable <=> Tabled(file)
  BY DEF HasTable, Tabled
<1>3. Tabled(file) => ~Plainly(file)
  BY DEF Tabled, HasSectorOffsetTable, Plainly
<1>4. IsPlain => SectorsCount = file.dataSize \div SectorSize
  BY <1>1, <1>2, <1>3 DEF SectorsCount, Laid, EndsAreFound
<1>5. HasTable => SectorsCount = Parts(file)
  <2> SUFFICES ASSUME HasTable PROVE SectorsCount = Parts(file)
    OBVIOUS
  <2> DEFINE n == file.dataSize
             q == n \div SectorSize
  <2>1. n \in Nat /\ file.fileSize = n
    BY DEF Laid
  <2>2. Parts(file) = Ceiling(n, SectorSize)
    BY <1>2 DEF Parts, InOne
  <2>3. SectorsCount = q + (IF n % SectorSize > 0 THEN 1 ELSE 0)
    BY <2>1 DEF SectorsCount
  <2>4. n % SectorSize = n - q * SectorSize /\ q \in Nat
    BY <2>1, SectorsAssumption
  <2>5. \/ Ceiling(n, SectorSize) = q /\ n = q * SectorSize
        \/ Ceiling(n, SectorSize) = q + 1 /\ n > q * SectorSize
    BY <2>1, Cuts
  <2> HIDE DEF q, n
  <2>6. q * SectorSize \in Nat
    BY <2>4, SectorsAssumption
  <2> QED BY <2>1, <2>2, <2>3, <2>4, <2>5, <2>6
<1>6. \A i \in 0..Parts(file) : ~InOne(file) => Upto(file, i) = Cut(file.dataSize, i)
  BY DEF Upto
<1>7. ~InOne(file) => Parts(file) = Ceiling(file.dataSize, SectorSize)
  BY DEF Parts
<1> QED BY <1>1, <1>2, <1>3, <1>4, <1>5, <1>6, <1>7

(* One step that leaves the file alone only has to go on.                  *)
LEMMA StillReads ==
    ASSUME NEW T, NEW full, NEW ends, Reads(T, full, ends),
           UNCHANGED <<file, stored, lost>>, known' => Progress(ends)'
    PROVE  Reads(T, full, ends)'
  BY DEF Reads, IsBeginning

(* File::sectors() finds the next full sector of a file that is neither    *)
(* compressed nor imploded.                                                *)
LEMMA ListsPlain ==
    ASSUME NEW T, NEW full, NEW ends, Reads(T, full, ends), ListPlain
    PROVE  Reads(T, full, ends)'
<1> DEFINE n == file.dataSize
           q == n \div SectorSize
<1>1. /\ pc = "listing" /\ ~HasTable /\ Len(sectors) < SectorsCount
      /\ PushSector(newOffset, SectorSize, SectorSize)
      /\ newOffset' = newOffset + SectorSize
      /\ remaining' = Minus(remaining, SectorSize)
      /\ UNCHANGED <<pc, file, stored, lost, known, offsets, next, out>>
  BY DEF ListPlain
<1> SUFFICES ASSUME known PROVE Listing(ends)'
  BY <1>1, StillReads DEF Progress
<1>2. Laid(file, full, ends) /\ Listing(ends) /\ n \in Nat
  BY <1>1 DEF Reads, Progress, Laid
<1>3. IsPlain /\ ~InOne(file) /\ ~Tabled(file) /\ Plainly(file) /\ SectorsCount = q
  BY <1>1, <1>2, HowMany DEF Listing, InOne
<1>4. PICK k \in 0..Parts(file) : /\ sectors = Found(file, ends, k)
                                  /\ remaining = n - Upto(file, k)
                                  /\ newOffset = Upto(file, k) /\ k <= q
  BY <1>2, <1>3 DEF Listing
<1>5. Parts(file) \in Nat /\ q \in Nat /\ (Parts(file) = q \/ Parts(file) = q + 1)
  BY <1>2, <1>3, HowMany, Cuts
<1>6. Len(sectors) = k /\ k \in Nat
  BY <1>4, <1>5, FoundMore
<1> HIDE DEF q, n
<1> DEFINE m == k + 1
<1>7. m \in 1..Parts(file) /\ m - 1 = k /\ m <= q /\ m \in 0..Parts(file) /\ m \in Nat
  BY <1>1, <1>3, <1>5, <1>6
<1>8. /\ Upto(file, m) = Cut(n, m) /\ Upto(file, m - 1) = Cut(n, m - 1)
      /\ Cut(n, m - 1) \in Nat /\ Cut(n, m) \in Nat
      /\ Cut(n, m) = Cut(n, m - 1) + SectorSize /\ Cut(n, m) <= n
  <2>1. IsCut(n, m)
    BY <1>2, <1>3, <1>7, HowMany, Cuts DEF n
  <2> QED BY <1>2, <1>3, <1>7, <2>1, HowMany DEF IsCut, n, q
<1>9. ends[m] = Upto(file, m) /\ ends[m - 1] = Upto(file, m - 1)
  BY <1>2, <1>3, <1>4, <1>7 DEF Laid, EndsAreFound
<1>10. Part(file, ends, m) = NewSector(k, newOffset, SectorSize, SectorSize)
  <2>1. m - 1 = k /\ ends[m - 1] = newOffset
    BY <1>4, <1>7, <1>9
  <2>2. Upto(file, m) - Upto(file, m - 1) = SectorSize /\ ends[m] - ends[m - 1] = SectorSize
    BY <1>8, <1>9, SectorsAssumption
  <2> HIDE DEF m
  <2> QED BY <2>1, <2>2 DEF Part
<1>11. sectors' = Found(file, ends, m)
  <2>1. Append(Found(file, ends, k), Part(file, ends, k + 1)) = Found(file, ends, k + 1)
    BY <1>6, FoundMore
  <2>2. sectors' = Append(sectors, NewSector(k, newOffset, SectorSize, SectorSize))
    BY <1>1, <1>6 DEF PushSector
  <2> QED BY <1>4, <1>10, <2>1, <2>2
<1>12. newOffset' = Upto(file, m) /\ remaining' = n - Upto(file, m)
  <2>1. newOffset' = Upto(file, m)
    BY <1>1, <1>4, <1>7, <1>8
  <2>2. Upto(file, k) = Cut(n, m - 1) /\ Upto(file, m) = Cut(n, m)
    BY <1>7, <1>8
  <2>3. remaining = n - Cut(n, m - 1) /\ remaining >= SectorSize
    BY <1>2, <1>4, <1>8, <2>2, SectorsAssumption
  <2> HIDE DEF m
  <2>4. remaining' = remaining - SectorSize
    BY <1>1, <2>3 DEF Minus
  <2> QED BY <1>2, <1>8, <2>1, <2>2, <2>3, <2>4, SectorsAssumption
<1> HIDE DEF m
<1> QED BY <1>1, <1>2, <1>3, <1>7, <1>11, <1>12 DEF Listing, n, q

(* It finds the rest of such a file, if there is one, and has found all    *)
(* then.                                                                   *)
LEMMA ListsRest ==
    ASSUME NEW T, NEW full, NEW ends, Reads(T, full, ends), ListRest
    PROVE  Reads(T, full, ends)'
<1> DEFINE n == file.dataSize
           q == n \div SectorSize
<1>1. /\ pc = "listing" /\ ~HasTable /\ Len(sectors) = SectorsCount
      /\ IF remaining > 0 THEN PushSector(newOffset, remaining, remaining)
                          ELSE UNCHANGED sectors
      /\ pc' = "reading"
      /\ UNCHANGED <<file, stored, lost, known, offsets, newOffset, remaining, next, out>>
  BY DEF ListRest
<1> SUFFICES ASSUME known
             PROVE  /\ sectors' = Found(file, ends, Parts(file))
                    /\ next \in 1..(Parts(file) + 1)
                    /\ out = Data(1, Upto(file, next - 1))
  BY <1>1, StillReads DEF Progress
<1>2. Laid(file, full, ends) /\ Listing(ends) /\ n \in Nat
  BY <1>1 DEF Reads, Progress, Laid
<1>3. IsPlain /\ ~InOne(file) /\ ~Tabled(file) /\ Plainly(file) /\ SectorsCount = q
  BY <1>1, <1>2, HowMany DEF Listing, InOne
<1>4. PICK k \in 0..Parts(file) : /\ sectors = Found(file, ends, k)
                                  /\ remaining = n - Upto(file, k)
                                  /\ newOffset = Upto(file, k) /\ k <= q
  BY <1>2, <1>3 DEF Listing
<1>5. /\ Parts(file) \in Nat /\ q \in Nat
      /\ \/ Parts(file) = q /\ n = q * SectorSize
         \/ Parts(file) = q + 1 /\ n > q * SectorSize
  BY <1>2, <1>3, HowMany, Cuts
<1>6. Len(sectors) = k /\ k \in Nat /\ k = q
  BY <1>1, <1>3, <1>4, <1>5, FoundMore
<1>7. Upto(file, k) \in Nat /\ Upto(file, k) <= n /\ Upto(file, Parts(file)) = n
  BY <1>2, <1>4, Uptos
<1> HIDE DEF q, n
<1>8. next \in 1..(Parts(file) + 1) /\ out = Data(1, Upto(file, next - 1))
  <2>1. next = 1 /\ out = <<>> /\ <<>> = Data(1, 0)
    BY <1>2 DEF Listing, Data
  <2>2. Upto(file, 0) = 0 /\ next - 1 = 0
    BY <1>2, <2>1, Uptos DEF n
  <2> QED BY <1>5, <2>1, <2>2
<1>9. CASE Parts(file) = k
  BY <1>1, <1>2, <1>4, <1>7, <1>8, <1>9
<1>10. CASE Parts(file) # k
  <2> DEFINE m == k + 1
  <2>1. m \in 1..Parts(file) /\ m - 1 = k /\ m = Parts(file) /\ m \in 0..Parts(file)
    BY <1>5, <1>6, <1>10
  <2>2. ends[m] = Upto(file, m) /\ ends[m - 1] = Upto(file, m - 1)
    BY <1>2, <1>3, <1>4, <2>1 DEF Laid, EndsAreFound
  <2>3. Upto(file, m - 1) < Upto(file, m)
    <3>1. IsCut(n, m)
      BY <1>2, <1>3, <2>1, HowMany, Cuts DEF n
    <3> QED BY <1>2, <1>3, <2>1, <3>1, HowMany DEF IsCut, n
  <2>4. remaining = Upto(file, m) - Upto(file, m - 1) /\ remaining > 0
    BY <1>2, <1>4, <1>7, <2>1, <2>3
  <2>5. Part(file, ends, m) = NewSector(k, newOffset, remaining, remaining)
    <3>1. m - 1 = k /\ ends[m - 1] = newOffset /\ ends[m] - ends[m - 1] = remaining
      BY <1>4, <2>1, <2>2, <2>4
    <3> HIDE DEF m
    <3> QED BY <2>4, <3>1 DEF Part
  <2>6. sectors' = Found(file, ends, m)
    <3>1. Append(Found(file, ends, k), Part(file, ends, k + 1)) = Found(file, ends, k + 1)
      BY <1>6, FoundMore
    <3>2. sectors' = Append(sectors, NewSector(k, newOffset, remaining, remaining))
      BY <1>1, <1>6, <2>4 DEF PushSector
    <3> QED BY <1>4, <2>5, <3>1, <3>2
  <2> HIDE DEF m
  <2> QED BY <1>8, <2>1, <2>6
<1> QED BY <1>9, <1>10

(* It finds the next sector of a file with a table by two offsets of it.   *)
LEMMA ListsFromTable ==
    ASSUME NEW T, NEW full, NEW ends, Reads(T, full, ends), ListFromTable
    PROVE  Reads(T, full, ends)'
<1> DEFINE n == file.dataSize
           i == Len(sectors) + 1
           uncompressed == Least(SectorSize, remaining)
<1>1. /\ pc = "listing" /\ HasTable /\ Len(sectors) < SectorsCount
      /\ PushSector(offsets[i], Minus(offsets[i + 1], offsets[i]), uncompressed)
      /\ remaining' = remaining - uncompressed
      /\ UNCHANGED <<pc, file, stored, lost, known, offsets, newOffset, next, out>>
  BY DEF ListFromTable
<1> SUFFICES ASSUME known PROVE Listing(ends)'
  BY <1>1, StillReads DEF Progress
<1>2. Laid(file, full, ends) /\ Listing(ends) /\ n \in Nat
  BY <1>1 DEF Reads, Progress, Laid
<1>3. ~InOne(file) /\ Tabled(file) /\ SectorsCount = Parts(file)
  BY <1>1, <1>2, HowMany DEF Listing, InOne
<1>4. PICK k \in 0..Parts(file) : /\ sectors = Found(file, ends, k)
                                  /\ remaining = n - Upto(file, k)
                                  /\ offsets = [j \in 1..(Parts(file) + 1) |-> ends[j - 1]]
  BY <1>2, <1>3 DEF Listing
<1>5. Parts(file) \in Nat
  BY <1>2, Uptos
<1>6. Len(sectors) = k /\ k \in Nat
  BY <1>4, <1>5, FoundMore
<1> DEFINE m == k + 1
<1>7. m \in 1..Parts(file) /\ m - 1 = k /\ m \in 0..Parts(file) /\ m \in Nat /\ i = m
  BY <1>1, <1>3, <1>5, <1>6
<1>8. offsets[i] = ends[m - 1] /\ offsets[i + 1] = ends[m]
  <2>1. i \in 1..(Parts(file) + 1) /\ i + 1 \in 1..(Parts(file) + 1) /\ (i + 1) - 1 = i
    BY <1>5, <1>7
  <2> QED BY <1>4, <1>7, <2>1
<1>9. ends[m - 1] \in Nat /\ ends[m] \in Nat /\ ends[m - 1] <= ends[m]
  <2>1. /\ ends \in [0..Parts(file) -> 0..Len(full)] /\ ends[m - 1] <= ends[m]
        /\ m - 1 \in 0..Parts(file)
    BY <1>2, <1>4, <1>7 DEF Laid
  <2> QED BY <1>7, <2>1
<1>10. /\ Upto(file, m) \in Nat /\ Upto(file, m - 1) \in Nat
       /\ uncompressed = Upto(file, m) - Upto(file, m - 1)
  <2>1. IsCut(n, m)
    BY <1>2, <1>3, <1>7, HowMany, Cuts
  <2>2. Upto(file, m) = Cut(n, m) /\ Upto(file, m - 1) = Cut(n, m - 1)
    BY <1>2, <1>3, <1>4, <1>7, HowMany
  <2> QED BY <1>4, <1>7, <2>1, <2>2 DEF IsCut
<1> HIDE DEF n, i, m, uncompressed
<1>11. sectors' = Found(file, ends, m)
  <2>1. Append(Found(file, ends, k), Part(file, ends, k + 1)) = Found(file, ends, k + 1)
    BY <1>6, FoundMore
  <2>2. sectors' = Append(sectors, NewSector(k, ends[m - 1], ends[m] - ends[m - 1], uncompressed))
    BY <1>1, <1>6, <1>8, <1>9 DEF PushSector, Minus
  <2> QED BY <1>4, <1>7, <1>10, <2>1, <2>2 DEF Part, m
<1>12. remaining' = n - Upto(file, m)
  BY <1>1, <1>2, <1>4, <1>7, <1>10
<1> QED BY <1>1, <1>2, <1>3, <1>4, <1>7, <1>11, <1>12 DEF Listing, n

(* With the last one it has found all the sectors of a file with a table.  *)
LEMMA ListsAll ==
    ASSUME NEW T, NEW full, NEW ends, Reads(T, full, ends), ListEnd
    PROVE  Reads(T, full, ends)'
<1>1. /\ pc = "listing" /\ HasTable /\ Len(sectors) = SectorsCount /\ pc' = "reading"
      /\ UNCHANGED <<file, stored, lost, known, sectors, next, out>>
  BY DEF ListEnd, reader
<1> SUFFICES ASSUME known
             PROVE  /\ sectors = Found(file, ends, Parts(file))
                    /\ next \in 1..(Parts(file) + 1)
                    /\ out = Data(1, Upto(file, next - 1))
  BY <1>1, StillReads DEF Progress
<1>2. Laid(file, full, ends) /\ Listing(ends)
  BY <1>1 DEF Reads, Progress
<1>3. Parts(file) \in Nat /\ Upto(file, 0) = 0
  BY <1>2, Uptos DEF Laid
<1>4. PICK k \in 0..Parts(file) : sectors = Found(file, ends, k)
  BY <1>2 DEF Listing
<1>5. k = Parts(file)
  BY <1>1, <1>2, <1>3, <1>4, HowMany, FoundMore
<1>6. next = 1 /\ out = <<>> /\ <<>> = Data(1, 0)
  BY <1>2 DEF Listing, Data
<1> QED BY <1>3, <1>4, <1>5, <1>6

-----------------------------------------------------------------------------
(* Every read starts anew.                                                 *)
LEMMA OpensPlain ==
    ASSUME NEW T, NEW full, NEW ends, Reads(T, full, ends), OpenPlain
    PROVE  Reads(T, full, ends)'
<1>1. /\ UNCHANGED <<file, stored, lost>> /\ IsPlain /\ pc' = "listing"
      /\ newOffset' = 0 /\ remaining' = file.fileSize /\ next' = 1
      /\ out' = <<>> /\ sectors' = <<>>
  BY DEF OpenPlain, Open
<1> SUFFICES Listing(ends)'
  BY <1>1, StillReads DEF Progress
<1>2. Laid(file, full, ends) /\ file.fileSize = file.dataSize /\ file.dataSize \in Nat
  BY DEF Reads, Laid
<1>3. ~InOne(file) /\ ~Tabled(file)
  BY <1>1, <1>2, HowMany DEF InOne
<1>4. Parts(file) \in Nat /\ Upto(file, 0) = 0
  BY <1>2, Uptos
<1>5. sectors' = Found(file, ends, 0)
  BY <1>1, FoundMore
<1>6. file.dataSize \div SectorSize \in Nat
  BY <1>2, Cuts
<1> DEFINE k == 0
<1>7. k \in 0..Parts(file) /\ k <= file.dataSize \div SectorSize /\ remaining' = file.dataSize - k
  BY <1>1, <1>2, <1>4, <1>6
<1> QED BY <1>1, <1>3, <1>4, <1>5, <1>7 DEF Listing

(* A compressed single unit is one sector.                                 *)
LEMMA OpensSingleUnit ==
    ASSUME NEW T, NEW full, NEW ends, Reads(T, full, ends), OpenSingleUnit
    PROVE  Reads(T, full, ends)'
<1>1. /\ UNCHANGED <<file, stored, lost>> /\ ~IsPlain /\ ~HasTable /\ pc' = "reading"
      /\ next' = 1 /\ out' = <<>>
      /\ sectors' = <<NewSector(0, 0, file.blockSize, file.fileSize)>>
  BY DEF OpenSingleUnit, Open
<1>2. Laid(file, full, ends) /\ file.fileSize = file.dataSize /\ file.dataSize \in Nat
  BY DEF Reads, Laid
<1>3. InOne(file) /\ Parts(file) = 1
  BY <1>1, <1>2, HowMany DEF InOne, Parts
<1>4. ends \in [0..1 -> 0..Len(full)] /\ ends[0] = 0 /\ ends[1] = file.blockSize
  BY <1>2, <1>3 DEF Laid, EndsAreFound
<1>5. full \in Seq(T) /\ Len(full) \in Nat
  BY DEF Reads
<1>6. file.blockSize \in Nat /\ Upto(file, 0) = 0 /\ Upto(file, 1) = file.dataSize
  BY <1>3, <1>4, <1>5 DEF Upto
<1>7. Part(file, ends, 0 + 1) = NewSector(0, 0, file.blockSize, file.fileSize)
  <2>1. 0 + 1 = 1 /\ 1 - 1 = 0 /\ file.dataSize - 0 = file.dataSize
        /\ file.blockSize - 0 = file.blockSize
    BY <1>2, <1>6
  <2> QED BY <1>2, <1>4, <1>6, <2>1 DEF Part
<1>8. Append(Found(file, ends, 0), Part(file, ends, 0 + 1)) = Found(file, ends, 0 + 1)
      /\ Found(file, ends, 0) = <<>>
  BY FoundMore
<1>9. \A e : Append(<<>>, e) = <<e>>
  OBVIOUS
<1>10. sectors' = Found(file, ends, 1)
  BY <1>1, <1>7, <1>8, <1>9
<1>11. out' = Data(1, 0) /\ next' - 1 = 0 /\ next' \in 1..2
  BY <1>1 DEF Data
<1>12. Progress(ends)'
  BY <1>1, <1>3, <1>6, <1>10, <1>11 DEF Progress
<1> QED BY <1>1, <1>12, StillReads

(* The offsets that are read and decrypted are those that were written, or *)
(* the archive lost them and reading them throws.                          *)
LEMMA OpensTable ==
    ASSUME NEW T, NEW full, NEW ends, Reads(T, full, ends), OpenTable
    PROVE  Reads(T, full, ends)'
<1> DEFINE bytes == SubSeq(stored, 1, TableBytes)
           cells == IF IsEncrypted THEN DecryptData(bytes, Key(-1)) ELSE bytes
           c == Parts(file)
<1>1. /\ UNCHANGED <<file, stored, lost>> /\ HasTable
      /\ pc' = (IF TableBytes > Len(stored) THEN "threw" ELSE "listing")
      /\ remaining' = file.fileSize /\ next' = 1 /\ out' = <<>> /\ sectors' = <<>>
      /\ offsets' = IF TableBytes > Len(stored) THEN <<>>
                    ELSE [i \in 1..(SectorsCount + 1) |-> NumberAt(cells, (i - 1) * Word)]
  BY DEF OpenTable, Open
<1>2. /\ Laid(file, full, ends) /\ file.fileSize = file.dataSize /\ file.dataSize \in Nat
      /\ full \in Seq(T) /\ stored \in Seq(T) /\ IsBeginning(stored, full)
  BY DEF Reads, Laid
<1>3. Tabled(file) /\ ~InOne(file) /\ SectorsCount = c /\ c \in Nat
  BY <1>1, <1>2, HowMany, Uptos DEF InOne
<1>4. /\ ends \in [0..c -> 0..Len(full)] /\ ends[0] = TableBytes /\ 0 \in 0..c
      /\ \A i \in 0..c : NumberAt(Opened(file, SubSeq(full, 1, ends[0]), -1), i * Word) = ends[i]
  BY <1>2, <1>3 DEF Laid, EndsAreFound, TableBytes
<1>5. TableBytes \in Nat /\ TableBytes <= Len(full)
  BY <1>2, <1>4
<1>6. Upto(file, 0) = 0
  BY <1>2, Uptos
<1>7. CASE TableBytes > Len(stored)
  <2>1. lost
    BY <1>2, <1>5, <1>7 DEF IsBeginning
  <2>2. out' = Data(1, Upto(file, 0))
    BY <1>1, <1>6 DEF Data
  <2> QED BY <1>1, <1>3, <1>4, <1>7, <2>1, <2>2, StillReads DEF Progress
<1>8. CASE ~(TableBytes > Len(stored))
  <2>1. bytes = SubSeq(full, 1, ends[0])
    <3>1. stored = SubSeq(full, 1, Len(stored)) /\ Len(stored) \in Nat /\ Len(full) \in Nat
          /\ Len(stored) <= Len(full) /\ TableBytes <= Len(stored)
      BY <1>2, <1>5, <1>8 DEF IsBeginning
    <3> DEFINE t == Len(stored)
               d == TableBytes
    <3>2. t \in Nat /\ d \in Nat /\ d <= t /\ t <= Len(full)
      BY <1>5, <3>1
    <3> HIDE DEF t, d
    <3>3. SubSeq(SubSeq(full, 1, t), 1, d) = SubSeq(full, 1, d)
      BY <1>2, <3>2
    <3> QED BY <1>4, <3>1, <3>3 DEF t, d
  <2>2. cells = Opened(file, SubSeq(full, 1, ends[0]), -1)
    BY <2>1 DEF Opened, Secret, IsEncrypted, Key, KeyOf
  <2> HIDE DEF cells
  <2>3. offsets' = [i \in 1..(c + 1) |-> NumberAt(cells, (i - 1) * Word)]
    BY <1>1, <1>3, <1>8
  <2>4. \A i \in 1..(c + 1) : NumberAt(cells, (i - 1) * Word) = ends[i - 1]
    <3>1. \A i \in 1..(c + 1) : i - 1 \in 0..c
      BY <1>3
    <3> QED BY <1>4, <2>2, <3>1
  <2>5. offsets' = [i \in 1..(c + 1) |-> ends[i - 1]]
    BY <2>3, <2>4
  <2>6. sectors' = Found(file, ends, 0)
    BY <1>1, FoundMore
  <2> DEFINE k == 0
  <2>7. k \in 0..c /\ remaining' = file.dataSize - Upto(file, k) /\ pc' = "listing"
    BY <1>1, <1>2, <1>3, <1>6, <1>8
  <2>8. Listing(ends)'
    BY <1>1, <1>3, <2>5, <2>6, <2>7 DEF Listing
  <2> QED BY <1>1, <2>7, <2>8, StillReads DEF Progress
<1> QED BY <1>7, <1>8

-----------------------------------------------------------------------------
(***************************************************************************)
(* File::decompress() gets back what the sectors hold.                     *)
(***************************************************************************)
(* A run of bytes, also when the end behind it got lost.                   *)
LEMMA BetweenTwo ==
    ASSUME NEW T, NEW s \in Seq(T), NEW a \in Nat, NEW b \in Nat, a <= b, b <= Len(s)
    PROVE  /\ Between(s, a, b) \in Seq(T) /\ Len(Between(s, a, b)) = b - a
           /\ \A i \in 1..b - a : Between(s, a, b)[i] = s[a + i]
<1> DEFINE m == a + 1
           x == SubSeq(s, m, b)
<1>1. m \in Nat /\ m = a + 1
  OBVIOUS
<1>2. \A i \in m..b : s[i] \in T
  OBVIOUS
<1> HIDE DEF m
<1>3. /\ SubSeq(s, m, b) \in Seq(T)
      /\ Len(SubSeq(s, m, b)) = IF m <= b THEN b - m + 1 ELSE 0
      /\ \A i \in 1..b - m + 1 : SubSeq(s, m, b)[i] = s[m + i - 1]
  BY <1>1, <1>2, SubSeqProperties
<1> HIDE DEF x
<1>4. Len(x) = b - a /\ x \in Seq(T)
  BY <1>1, <1>3 DEF x
<1>5. \A i \in 1..b - a : x[i] = s[a + i]
  <2> SUFFICES ASSUME NEW i \in 1..b - a PROVE x[i] = s[a + i]
    OBVIOUS
  <2>1. i \in 1..b - m + 1 /\ m + i - 1 = a + i
    BY <1>1
  <2> QED BY <1>3, <2>1 DEF x
<1> QED BY <1>1, <1>4, <1>5 DEF Between, x

(* What lies between two places is the same in a beginning that is long    *)
(* enough.                                                                 *)
LEMMA PartOfBeginning ==
    ASSUME NEW T, NEW s \in Seq(T), NEW t \in 0..Len(s), NEW a \in Nat, NEW b \in Nat,
           a <= b, b <= t
    PROVE  /\ Between(SubSeq(s, 1, t), a, b) = Between(s, a, b)
           /\ Len(Between(s, a, b)) = b - a
<1> DEFINE u == SubSeq(s, 1, t)
           x == Between(u, a, b)
           y == Between(s, a, b)
<1>1. u \in Seq(T) /\ Len(u) = t /\ \A i \in 1..t : u[i] = s[i]
  <2>1. \A i \in 1..t : s[i] \in T
    OBVIOUS
  <2> QED BY <2>1, SubSeqProperties
<1> HIDE DEF u, x, y
<1>2. x \in Seq(T) /\ Len(x) = b - a /\ \A i \in 1..b - a : x[i] = u[a + i]
  <2>1. b <= Len(u) /\ u \in Seq(T)
    BY <1>1
  <2>2. /\ Between(u, a, b) \in Seq(T) /\ Len(Between(u, a, b)) = b - a
        /\ \A i \in 1..b - a : Between(u, a, b)[i] = u[a + i]
    BY <2>1, BetweenTwo
  <2> QED BY <2>2 DEF x
<1>3. y \in Seq(T) /\ Len(y) = b - a /\ \A i \in 1..b - a : y[i] = s[a + i]
  <2>1. b <= Len(s)
    OBVIOUS
  <2>2. /\ Between(s, a, b) \in Seq(T) /\ Len(Between(s, a, b)) = b - a
        /\ \A i \in 1..b - a : Between(s, a, b)[i] = s[a + i]
    BY <2>1, BetweenTwo
  <2> QED BY <2>2 DEF y
<1>4. \A i \in 1..b - a : x[i] = y[i]
  <2>1. \A i \in 1..b - a : a + i \in 1..t
    OBVIOUS
  <2> QED BY <1>1, <1>2, <1>3, <2>1
<1>5. x = y
  BY <1>2, <1>3, <1>4, SeqEqual
<1> QED BY <1>3, <1>5 DEF x, y, u

(* What one algorithm made of the data, decompress() undoes.               *)
LEMMA OneIsUndone ==
    ASSUME "IsImploded" \notin file.flags, NEW a, NEW algorithms,
           InOrder(algorithms, ReadOrder) = <<a>>,
           NEW first, NEW last, NEW size \in Nat \ {0}, NEW n
    PROVE  Decompressed(<<Mask(algorithms)>> \o Packed(first, last, <<a>>, size), n)
             = {Gave(Data(first, last))}
<1> DEFINE packed == Packed(first, last, <<a>>, size)
           cells == <<Mask(algorithms)>> \o packed
           T == {packed[j] : j \in 1..size} \cup {Mask(algorithms)}
           used == <<a>>
<1>1. packed \in Seq(T) /\ Len(packed) = size /\ packed # <<>>
  <2>1. packed = [j \in 1..size |-> packed[j]] /\ \A j \in 1..size : packed[j] \in T
    BY DEF Packed
  <2> HIDE DEF packed, T
  <2>2. packed \in Seq(T) /\ Len(packed) = size
    BY <2>1
  <2> QED BY <2>2
<1>2. packed[1] = [kind |-> "packed", first |-> first, last |-> last,
                   chain |-> used, at |-> 1, size |-> size]
  BY DEF Packed
<1> HIDE DEF packed, T
<1>3. Mask(algorithms) \in T
  BY DEF T
<1>4. cells[1] = Mask(algorithms) /\ Tail(cells) = packed
  <2> DEFINE m == Mask(algorithms)
  <2> HIDE DEF m
  <2>1. m \in T
    BY <1>3 DEF m
  <2>2. (<<m>> \o packed)[1] = m /\ Tail(<<m>> \o packed) = packed
    BY <1>1, <2>1
  <2> QED BY <2>2 DEF m
<1>5. cells[1].kind = "mask" /\ cells[1].algorithms = algorithms
  BY <1>4 DEF Mask
<1>6. Intact(packed)
  BY <1>1, <1>2 DEF Intact, packed
<1>7. Last(used) = a /\ Len(used) = 1 /\ used # <<>> /\ DOMAIN used = {1} /\ used[1] = a
  BY DEF Last
<1>8. Undoes(a, packed)
  BY <1>2, <1>6, <1>7 DEF Undoes
<1>9. Undo(a, packed, n) = Data(first, last)
  BY <1>2, <1>7, <1>8 DEF Undo
<1> HIDE DEF cells, used
<1>10. InOrder(cells[1].algorithms, ReadOrder) = used
  BY <1>5 DEF used
<1>11. {i \in DOMAIN used : used[i] \in Noticing /\ ~Undoes(used[i], packed)} = {}
  BY <1>7, <1>8
<1>12. Decompressed(cells, n)
         = {Gave(Undo(Last(used), packed, n))}
             \union {Threw : i \in {i \in DOMAIN used : used[i] \in Noticing
                                                        /\ ~Undoes(used[i], packed)}}
  BY <1>4, <1>5, <1>7, <1>10 DEF Decompressed
<1>13. Decompressed(cells, n) = {Gave(Data(first, last))}
  BY <1>7, <1>9, <1>11, <1>12
<1> QED BY <1>13 DEF cells, packed

(* The sector that is read, and its bytes.                                 *)
LEMMA WhatIsRead ==
    ASSUME NEW T, NEW full, NEW ends, Reads(T, full, ends), known, Reading
    PROVE  /\ next \in 1..Parts(file) /\ Parts(file) \in Nat
           /\ Current = Part(file, ends, next)
           /\ Current.index = next - 1
           /\ Current.offset = ends[next - 1]
           /\ Current.size = ends[next] - ends[next - 1]
           /\ Current.uncompressed = Upto(file, next) - Upto(file, next - 1)
           /\ Current.offset + Current.size = ends[next]
           /\ ends[next - 1] \in Nat /\ ends[next] \in Nat
           /\ ends[next - 1] <= ends[next] /\ ends[next] <= Len(full)
           /\ Len(Between(full, ends[next - 1], ends[next])) = Current.size
<1>1. Laid(file, full, ends) /\ Progress(ends) /\ pc = "reading" /\ full \in Seq(T)
  BY DEF Reads, Reading
<1>2. sectors = Found(file, ends, Parts(file)) /\ next \in 1..(Parts(file) + 1)
  BY <1>1 DEF Progress
<1>3. Parts(file) \in Nat
  BY <1>1, Uptos DEF Laid
<1>4. next \in 1..Parts(file)
  <2>1. next <= Len(sectors) /\ Len(sectors) = Parts(file)
    BY <1>2, <1>3, FoundMore DEF Reading
  <2> QED BY <1>2, <1>3, <2>1
<1>5. Current = Part(file, ends, next)
  BY <1>2, <1>3, <1>4, FoundMore DEF Current
<1>6. /\ ends \in [0..Parts(file) -> 0..Len(full)] /\ ends[next - 1] <= ends[next]
      /\ next - 1 \in 0..Parts(file) /\ next \in 0..Parts(file)
  BY <1>1, <1>3, <1>4 DEF Laid
<1> DEFINE a == ends[next - 1]
           b == ends[next]
<1>7. a \in Nat /\ b \in Nat /\ a <= b /\ b <= Len(full) /\ Len(full) \in 0..Len(full)
  BY <1>1, <1>6
<1> HIDE DEF a, b
<1>8. Len(Between(full, a, b)) = b - a /\ a + (b - a) = b
  BY <1>1, <1>7, PartOfBeginning
<1> QED BY <1>3, <1>4, <1>5, <1>7, <1>8 DEF a, b, Part, NewSector

(* One more part of the data.                                              *)
LEMMA Delivers ==
    ASSUME NEW T, NEW full, NEW ends, Reads(T, full, ends), known, Reading,
           Deliver(Data(Upto(file, next - 1) + 1, Upto(file, next)))
    PROVE  Reads(T, full, ends)'
<1> DEFINE x == Upto(file, next - 1)
           y == Upto(file, next)
<1>1. Laid(file, full, ends) /\ Progress(ends) /\ pc = "reading"
  BY DEF Reads, Reading
<1>2. next \in 1..Parts(file) /\ Parts(file) \in Nat
  BY WhatIsRead
<1>3. x \in Nat /\ y \in Nat /\ x <= y
  <2>1. file.dataSize \in Nat
    BY <1>1 DEF Laid
  <2>2. next - 1 \in 0..Parts(file) /\ next \in 0..Parts(file)
    BY <1>2
  <2> QED BY <1>2, <2>1, <2>2, Uptos
<1>4. out = Data(1, x) /\ sectors = Found(file, ends, Parts(file))
  BY <1>1 DEF Progress
<1>5. /\ out' = out \o Data(x + 1, y) /\ next' = next + 1
      /\ UNCHANGED <<pc, file, stored, lost, known, sectors>>
  BY DEF Deliver
<1> HIDE DEF x, y
<1>6. out' = Data(1, y)
  BY <1>3, <1>4, <1>5, Pieced
<1>7. next' \in 1..(Parts(file) + 1) /\ next' - 1 = next
  BY <1>2, <1>5
<1>8. Progress(ends)'
  BY <1>1, <1>4, <1>5, <1>6, <1>7 DEF Progress, y
<1> QED BY <1>5, <1>8, StillReads

(* Nothing is read for an empty sector, and nothing of the data is in it.  *)
LEMMA ReadsEmpty ==
    ASSUME NEW T, NEW full, NEW ends, Reads(T, full, ends), ReadEmpty
    PROVE  Reads(T, full, ends)'
<1>1. Reading /\ Current.size = 0 /\ Deliver(<<>>)
  BY DEF ReadEmpty
<1>2. CASE ~known
  BY <1>1, <1>2, StillReads DEF Deliver
<1>3. CASE known
  <2> DEFINE a == ends[next - 1]
             b == ends[next]
             x == Upto(file, next - 1)
             y == Upto(file, next)
  <2>1. /\ next \in 1..Parts(file)
        /\ Current.size = b - a /\ a \in Nat /\ b \in Nat
        /\ Len(Between(full, a, b)) = Current.size
    BY <1>1, <1>3, WhatIsRead
  <2>2. HoldsPart(file, full, ends, next) /\ file.dataSize \in Nat
    BY <2>1 DEF Reads, Laid
  <2>3. x \in Nat /\ y \in Nat
    <3>1. next - 1 \in 0..Parts(file) /\ next \in 0..Parts(file)
      BY <1>1, <1>3, WhatIsRead
    <3> QED BY <2>2, <3>1, Uptos
  <2>4. y = x
    <3>1. \/ Len(Between(full, a, b)) = y - x
          \/ 0 < Len(Between(full, a, b))
      BY <2>2 DEF HoldsPart, IsWhole, IsShrunk
    <3> QED BY <1>1, <2>1, <2>3, <3>1
  <2>5. Data(x + 1, y) = <<>>
    <3>1. y - (x + 1) + 1 = 0
      BY <2>3, <2>4
    <3> QED BY <3>1 DEF Data
  <2> HIDE DEF x, y
  <2>6. Deliver(Data(x + 1, y))
    BY <1>1, <2>5
  <2> QED BY <1>1, <1>3, <2>6, Delivers DEF x, y
<1> QED BY <1>2, <1>3

(* Reading throws only where the archive lost its end.                     *)
LEMMA ReadsThrow ==
    ASSUME NEW T, NEW full, NEW ends, Reads(T, full, ends), ReadThrows
    PROVE  Reads(T, full, ends)'
<1>1. /\ Reading /\ (IsBehindEnd \/ (IsEncrypted /\ ~known)) /\ pc' = "threw"
      /\ UNCHANGED <<file, stored, lost, known, out>>
  BY DEF ReadThrows, Throw, reader
<1>2. CASE ~known
  BY <1>1, <1>2, StillReads
<1>3. CASE known
  <2>1. /\ next \in 1..Parts(file) /\ Parts(file) \in Nat
        /\ Current.offset + Current.size = ends[next] /\ ends[next] <= Len(full)
    BY <1>1, <1>3, WhatIsRead
  <2>2. stored # full
    <3>1. ends[next] > Len(stored)
      BY <1>1, <1>3, <2>1 DEF IsBehindEnd
    <3>2. ends[next] \in Nat /\ Len(full) \in Nat /\ Len(stored) \in Nat
      BY <1>1, <1>3, WhatIsRead DEF Reads
    <3> QED BY <2>1, <3>1, <3>2
  <2>3. lost
    BY <2>2 DEF Reads, IsBeginning
  <2>4. Progress(ends) /\ pc = "reading"
    BY <1>1, <1>3 DEF Reads, Reading
  <2>5. next - 1 \in 0..Parts(file) /\ out = Data(1, Upto(file, next - 1))
    BY <2>1, <2>4 DEF Progress
  <2>6. Progress(ends)'
    BY <1>1, <2>3, <2>5 DEF Progress
  <2> QED BY <1>1, <2>6, StillReads
<1> QED BY <1>2, <1>3

(* Any other sector is decrypted and decompressed to its part of the data. *)
LEMMA ReadsSector ==
    ASSUME NEW T, NEW full, NEW ends, Reads(T, full, ends), ReadSector
    PROVE  Reads(T, full, ends)'
<1>1. /\ Reading /\ Current.size > 0 /\ ~IsBehindEnd
      /\ UNCHANGED <<file, stored, lost, known>>
  BY DEF ReadSector, Deliver, Throw
<1>2. CASE ~known
  BY <1>1, <1>2, StillReads
<1>3. CASE known
  <2> DEFINE a == ends[next - 1]
             b == ends[next]
             x == Upto(file, next - 1)
             y == Upto(file, next)
             bytes == Between(full, a, b)
  <2>1. /\ next \in 1..Parts(file) /\ Parts(file) \in Nat
        /\ Current.index = next - 1 /\ Current.offset = a /\ Current.size = b - a
        /\ Current.uncompressed = y - x /\ Current.offset + Current.size = b
        /\ a \in Nat /\ b \in Nat /\ a <= b /\ b <= Len(full) /\ Len(bytes) = b - a
    BY <1>1, <1>3, WhatIsRead
  <2>2. /\ HoldsPart(file, full, ends, next) /\ file.dataSize \in Nat
        /\ "IsImploded" \notin file.flags
        /\ full \in Seq(T) /\ stored \in Seq(T) /\ IsBeginning(stored, full)
    BY <2>1 DEF Reads, Laid
  <2>3. x \in Nat /\ y \in Nat /\ x <= y
    <3>1. next - 1 \in 0..Parts(file) /\ next \in 0..Parts(file)
      BY <2>1
    <3> QED BY <2>1, <2>2, <3>1, Uptos
  <2> HIDE DEF a, b, x, y
  <2>4. Bytes = bytes
    <3> DEFINE t == Len(stored)
    <3>1. stored = SubSeq(full, 1, t) /\ t \in 0..Len(full) /\ b <= t
      <4>1. ~(b > t) /\ t \in Nat /\ Len(full) \in Nat
        BY <1>1, <2>1, <2>2 DEF IsBehindEnd
      <4> QED BY <2>1, <2>2, <4>1 DEF IsBeginning
    <3> HIDE DEF t
    <3>2. Between(SubSeq(full, 1, t), a, b) = bytes
      BY <2>1, <2>2, <3>1, PartOfBeginning
    <3> QED BY <2>1, <3>1, <3>2 DEF Bytes, Between
  <2>5. Decrypted = Opened(file, bytes, next - 1)
    BY <2>1, <2>4 DEF Decrypted, Opened, IsEncrypted, Secret, Key, KeyOf
  <2> HIDE DEF bytes
  <2>6. IsWhole(file, bytes, next) \/ IsShrunk(file, bytes, next)
    BY <2>2 DEF HoldsPart, a, b, bytes
  <2>7. CASE IsWhole(file, bytes, next)
    <3>1. Current.size >= Current.uncompressed /\ Decrypted = Data(x + 1, y)
      BY <2>1, <2>3, <2>5, <2>7 DEF IsWhole, x, y
    <3>2. Deliver(Data(x + 1, y))
      BY <3>1 DEF ReadSector
    <3> QED BY <1>1, <1>3, <3>2, Delivers DEF x, y
  <2>8. CASE IsShrunk(file, bytes, next)
    <3>1. Current.size < Current.uncompressed
      BY <2>1, <2>3, <2>8 DEF IsShrunk, x, y
    <3>2. PICK c, algorithms : \E size \in Nat \ {0} :
            /\ InOrder(algorithms, ReadOrder) = <<c>>
            /\ Decrypted = <<Mask(algorithms)>> \o Packed(x + 1, y, <<c>>, size)
      BY <2>5, <2>8 DEF IsShrunk, x, y
    <3>3. Decompressed(Decrypted, Current.uncompressed) = {Gave(Data(x + 1, y))}
      BY <2>2, <3>2, OneIsUndone
    <3>4. ~(Current.size >= Current.uncompressed)
      BY <2>1, <2>3, <3>1
    <3>5. PICK result \in Decompressed(Decrypted, Current.uncompressed) :
            IF result.threw THEN Throw ELSE Deliver(result.cells)
      BY <3>4 DEF ReadSector
    <3>6. ~result.threw /\ result.cells = Data(x + 1, y)
      BY <3>3, <3>5 DEF Gave
    <3>7. Deliver(Data(x + 1, y))
      BY <3>5, <3>6
    <3> QED BY <1>1, <1>3, <3>7, Delivers DEF x, y
  <2> QED BY <2>6, <2>7, <2>8
<1> QED BY <1>2, <1>3

(* Behind the last sector all of the data is delivered.                    *)
LEMMA Finishes ==
    ASSUME NEW T, NEW full, NEW ends, Reads(T, full, ends), Finish
    PROVE  Reads(T, full, ends)'
<1>1. /\ pc = "reading" /\ next > Len(sectors) /\ pc' = "done"
      /\ UNCHANGED <<file, stored, lost, known, out>>
  BY DEF Finish, reader
<1> SUFFICES ASSUME known PROVE out = Data(1, file.dataSize)
  BY <1>1, StillReads DEF Progress
<1>2. Laid(file, full, ends) /\ Progress(ends)
  BY DEF Reads
<1>3. Parts(file) \in Nat /\ Upto(file, Parts(file)) = file.dataSize
  BY <1>2, Uptos DEF Laid
<1>4. /\ sectors = Found(file, ends, Parts(file)) /\ next \in 1..(Parts(file) + 1)
      /\ out = Data(1, Upto(file, next - 1))
  BY <1>1, <1>2 DEF Progress
<1>5. next - 1 = Parts(file)
  BY <1>1, <1>3, <1>4, FoundMore
<1> QED BY <1>3, <1>4, <1>5

-----------------------------------------------------------------------------
(***************************************************************************)
(* What is written is laid out so.                                         *)
(***************************************************************************)
LEMMA SequenceOfSequences ==
    ASSUME NEW m \in Nat, NEW s, s = [i \in 1..m |-> s[i]],
           \A i \in 1..m : \E V : s[i] \in Seq(V)
    PROVE  \E T : s \in Seq(Seq(T)) /\ Len(s) = m
<1> DEFINE T == UNION {{s[i][j] : j \in 1..Len(s[i])} : i \in 1..m}
<1>1. ASSUME NEW i \in 1..m PROVE s[i] \in Seq(T)
  <2>1. PICK V : s[i] \in Seq(V)
    OBVIOUS
  <2>2. \A j \in 1..Len(s[i]) : s[i][j] \in T
    OBVIOUS
  <2> HIDE DEF T
  <2> DEFINE x == s[i]
  <2> HIDE DEF x
  <2>3. x \in Seq(V) /\ \A j \in 1..Len(x) : x[j] \in T
    BY <2>1, <2>2 DEF x
  <2>4. x \in Seq(T)
    <3>1. x = [j \in 1..Len(x) |-> x[j]] /\ Len(x) \in Nat
      BY <2>3
    <3> QED BY <2>3, <3>1
  <2> QED BY <2>4 DEF x
<1> DEFINE X == Seq(T)
<1>2. \A i \in 1..m : s[i] \in X
  BY <1>1
<1> HIDE DEF X
<1>3. s \in Seq(X) /\ Len(s) = m
  <2>1. [i \in 1..m |-> s[i]] \in Seq(X)
    BY <1>2
  <2>2. s \in Seq(X) /\ DOMAIN s = 1..m
    BY <2>1
  <2> QED BY <2>2
<1> QED BY <1>3 DEF X

(* The place of a byte in its number.                                      *)
LEMMA InNumber ==
    ASSUME NEW i \in Nat \ {0}, NEW j \in 1..Word
    PROVE  LET k == (i - 1) * Word + j
           IN  k \in Nat /\ (k - 1) \div Word + 1 = i /\ (k - 1) % Word = j - 1
<1> DEFINE W == Word
           p == i - 1
           d == p * W
           k == d + j
<1>1. W \in Nat \ {0} /\ p \in Nat /\ d \in Nat /\ p + 1 = i
  BY SectorsAssumption
<1> HIDE DEF d, p
<1>2. k \in Nat /\ k - 1 \in Nat /\ d <= k - 1 /\ k - 1 < d + W /\ k - 1 = d + (j - 1)
  BY <1>1
<1> DEFINE x == k - 1
<1>3. x \in Nat /\ d <= x /\ x < d + W
  BY <1>2
<1> HIDE DEF k, x
<1>4. x \div W = p
  BY <1>1, <1>3, Quotient DEF d
<1>5. x % W = x - (x \div W) * W
  BY <1>1, <1>3
<1>6. x % W = j - 1
  BY <1>1, <1>2, <1>4, <1>5 DEF d, x
<1> QED BY <1>1, <1>2, <1>4, <1>6 DEF k, x, d, p

(* The numbers in a sector offset table are found again.                   *)
LEMMA NumberIsFound ==
    ASSUME NEW V, NEW values \in Seq(V), NEW i \in 1..Len(values)
    PROVE  NumberAt(Numbers(values), (i - 1) * Word) = values[i]
<1> DEFINE cells == Numbers(values)
           n == Len(values)
           d == (i - 1) * Word
           T == {cells[j] : j \in 1..n * Word}
           One(j) == [kind |-> "number", value |-> values[i], at |-> j - 1]
<1>1. Word \in Nat \ {0} /\ n \in Nat /\ i \in Nat \ {0} /\ i <= n /\ n * Word \in Nat
  BY SectorsAssumption
<1>2. d \in Nat /\ d + Word <= n * Word
  <2>1. PICK r \in Nat : n = i + r
    <3>1. n - i \in Nat /\ n = i + (n - i)
      BY <1>1
    <3> QED BY <3>1
  <2>2. n * Word = i * Word + r * Word /\ r * Word \in Nat /\ i * Word = d + Word
    BY <1>1, <2>1
  <2> QED BY <1>1, <2>2
<1>3. cells \in Seq(T) /\ Len(cells) = n * Word
  <2>1. cells = [j \in 1..n * Word |-> cells[j]]
    BY DEF Numbers
  <2> HIDE DEF cells
  <2> QED BY <1>1, <2>1
<1>4. \A j \in 1..Word : cells[d + j] = One(j)
  <2> SUFFICES ASSUME NEW j \in 1..Word PROVE cells[d + j] = One(j)
    OBVIOUS
  <2> DEFINE k == d + j
  <2>1. k \in 1..n * Word
    <3> HIDE DEF d
    <3> QED BY <1>1, <1>2
  <2>2. (k - 1) \div Word + 1 = i /\ (k - 1) % Word = j - 1
    BY <1>1, InNumber
  <2> HIDE DEF k
  <2>3. cells[k] = [kind |-> "number", value |-> values[(k - 1) \div Word + 1],
                    at |-> (k - 1) % Word]
    BY <2>1 DEF Numbers
  <2>4. cells[k] = One(j)
    BY <2>2, <2>3
  <2> QED BY <2>4 DEF k
<1> HIDE DEF cells, d, n
<1>5. cells[d + 1] = [kind |-> "number", value |-> values[i], at |-> 0]
  <2>1. 1 \in 1..Word /\ 1 - 1 = 0
    BY <1>1
  <2> QED BY <1>4, <2>1
<1> HIDE DEF T
<1>6. SubSeq(cells, d + 1, d + Word) = [j \in 1..Word |-> One(j)]
  <2> DEFINE s == Between(cells, d, d + Word)
             b == d + Word
  <2>1. b \in Nat /\ d <= b /\ b <= Len(cells) /\ b - d = Word
    BY <1>1, <1>2, <1>3
  <2> HIDE DEF b
  <2>2. /\ Between(cells, d, b) \in Seq(T) /\ Len(Between(cells, d, b)) = b - d
        /\ \A j \in 1..b - d : Between(cells, d, b)[j] = cells[d + j]
    BY <1>2, <1>3, <2>1, BetweenTwo
  <2>3. s \in Seq(T) /\ Len(s) = Word /\ \A j \in 1..Word : s[j] = cells[d + j]
    BY <2>1, <2>2 DEF b
  <2> HIDE DEF s
  <2>4. s = [j \in 1..Word |-> s[j]]
    BY <2>3
  <2>5. s = [j \in 1..Word |-> One(j)]
    BY <1>4, <2>3, <2>4
  <2> QED BY <2>5 DEF s, Between
<1> DEFINE first == cells[d + 1]
<1>7. \A j \in 1..Word : [first EXCEPT !.at = j - 1] = One(j)
  BY <1>5
<1>8. first.kind = "number" /\ first.value = values[i]
  BY <1>5
<1> HIDE DEF first, One
<1>9. SubSeq(cells, d + 1, d + Word) = [j \in 1..Word |-> [first EXCEPT !.at = j - 1]]
  BY <1>6, <1>7
<1>10. NumberAt(cells, d) = values[i]
  BY <1>8, <1>9 DEF NumberAt, first
<1> QED BY <1>10 DEF cells, d

(* A file that is a single run of plain bytes, with or without more behind *)
(* them, is read in sectors.                                               *)
PlainRun(f, cells) ==
    /\ f.dataSize \in Nat /\ f.fileSize = f.dataSize /\ Plainly(f) /\ ~Secret(f)
    /\ f.blockSize \div SectorSize = f.dataSize \div SectorSize
    /\ f.dataSize <= Len(cells) /\ \A j \in 1..f.dataSize : cells[j] = Plain(j)

(* Such a file is laid out as the reader expects it.                       *)
LEMMA PlainRunIsLaid ==
    ASSUME NEW f, NEW T, NEW cells \in Seq(T), PlainRun(f, cells)
    PROVE  \E ends : Laid(f, cells, ends)
<1> DEFINE n == f.dataSize
           c == Parts(f)
           ends == [i \in 0..c |-> Upto(f, i)]
<1>1. /\ n \in Nat /\ c \in Nat /\ n <= Len(cells) /\ Len(cells) \in Nat
      /\ \A i \in 0..c : Upto(f, i) \in Nat /\ Upto(f, i) <= n
      /\ \A i \in 1..c : i - 1 \in 0..c /\ i \in 0..c /\ Upto(f, i - 1) <= Upto(f, i)
  BY Uptos DEF PlainRun
<1>2. "IsImploded" \notin f.flags /\ ~Tabled(f) /\ ~InOne(f)
  BY DEF PlainRun, Plainly, Tabled, HasSectorOffsetTable, InOne
<1>3. \A i \in 0..c : ends[i] = Upto(f, i) /\ ends[i] \in 0..Len(cells)
  BY <1>1
<1>4. ASSUME NEW i \in 1..c PROVE HoldsPart(f, cells, ends, i)
  <2> DEFINE a == Upto(f, i - 1)
             b == Upto(f, i)
             bytes == Between(cells, a, b)
             data == Data(a + 1, b)
  <2>1. ends[i - 1] = a /\ ends[i] = b /\ a \in Nat /\ b \in Nat /\ a <= b /\ b <= n
        /\ b <= Len(cells)
    BY <1>1, <1>3
  <2> HIDE DEF a, b, ends, n
  <2>2. bytes \in Seq(T) /\ Len(bytes) = b - a /\ \A j \in 1..b - a : bytes[j] = cells[a + j]
    <3>1. a \in Nat /\ b \in Nat /\ a <= b /\ b <= Len(cells) /\ cells \in Seq(T)
      BY <2>1
    <3> QED BY <3>1, BetweenTwo
  <2>3. data \in Seq(Cells) /\ Len(data) = b - a /\ \A j \in 1..b - a : data[j] = Plain(a + j)
    BY <2>1, Pieced
  <2> HIDE DEF bytes, data, Cells, Plain
  <2>4. \A j \in 1..b - a : bytes[j] = data[j]
    <3>1. \A j \in 1..b - a : a + j \in 1..n
      BY <1>1, <2>1
    <3>2. \A j \in 1..n : cells[j] = Plain(j)
      BY DEF PlainRun, n
    <3> QED BY <2>2, <2>3, <3>1, <3>2
  <2>5. bytes = data
    BY <2>2, <2>3, <2>4, SeqEqual
  <2>6. Opened(f, bytes, i - 1) = data
    BY <2>5 DEF Opened, PlainRun
  <2> QED BY <2>1, <2>2, <2>6 DEF HoldsPart, IsWhole, a, b, bytes, data
<1>5. EndsAreFound(f, cells, ends)
  BY <1>2, <1>3 DEF EndsAreFound, PlainRun
<1>6. /\ f.dataSize \in Nat /\ f.fileSize = f.dataSize
      /\ ends \in [0..c -> 0..Len(cells)]
      /\ \A i \in 1..c : ends[i - 1] <= ends[i]
  BY <1>1, <1>3 DEF PlainRun
<1> HIDE DEF ends, c
<1> QED BY <1>2, <1>4, <1>5, <1>6 DEF Laid, c

(* Encrypted as a whole it is read if all but less than a word fits into   *)
(* the first sector.                                                       *)
SecretRun(f, cells) ==
    /\ f.dataSize \in Nat /\ f.fileSize = f.dataSize /\ Plainly(f) /\ Secret(f)
    /\ f.blockSize \div SectorSize = f.dataSize \div SectorSize
    /\ f.dataSize < SectorSize + Word
    /\ cells = EncryptData(Data(1, f.dataSize), KeyOf(f, 0))

(* All whole words are in the first sector, and there is at most one more. *)
LEMMA FirstSector ==
    ASSUME NEW n \in Nat, n < SectorSize + Word, NEW i \in 1..Ceiling(n, SectorSize)
    PROVE  /\ i = 1 => Cut(n, i) - (Cut(n, i) % Word) = n - (n % Word)
           /\ i # 1 => /\ i - 1 = 1
                       /\ Cut(n, i - 1) = n - (n % Word)
                       /\ Cut(n, i) - Cut(n, i - 1) < Word
<1> DEFINE S == SectorSize
           W == Word
           p == S \div W
<1>1. S \in Nat /\ W \in Nat /\ S >= 1 /\ W >= 1 /\ S % W = 0
  BY SectorsAssumption
<1>2. p \in Nat /\ p * W = S
  <2>1. S % W = S - p * W /\ p \in Nat /\ p * W \in Nat
    BY <1>1
  <2> QED BY <1>1, <2>1
<1>3. W <= S
  <2>1. p # 0
    BY <1>1, <1>2
  <2>2. PICK r \in Nat : p = r + 1
    <3>1. p - 1 \in Nat /\ p = (p - 1) + 1
      BY <1>2, <2>1
    <3> QED BY <3>1
  <2>3. p * W = r * W + W /\ r * W \in Nat
    <3> HIDE DEF p
    <3> QED BY <1>1, <2>2
  <2> HIDE DEF p
  <2> QED BY <1>1, <1>2, <2>3
<1>4. IsCut(n, i) /\ Ceiling(n, S) \in Nat
  BY Cuts
<1> DEFINE a == Cut(n, i - 1)
           b == Cut(n, i)
<1>5. a \in Nat /\ b \in Nat /\ a = (i - 1) * S /\ a < b /\ b <= n
  BY <1>4 DEF IsCut
<1>6. n >= S => n - (n % W) = S
  <2> SUFFICES ASSUME n >= S PROVE n - (n % W) = S
    OBVIOUS
  <2>1. p * W <= n /\ n < p * W + W
    <3> HIDE DEF p
    <3> QED BY <1>1, <1>2
  <2>2. n \div W = p
    <3> HIDE DEF p
    <3> QED BY <1>1, <1>2, <2>1, Quotient
  <2>3. n % W = n - (n \div W) * W
    <3> HIDE DEF p, S
    <3> QED BY <1>1
  <2> HIDE DEF p
  <2> QED BY <1>1, <1>2, <2>2, <2>3
<1> HIDE DEF p
<1>7. CASE i = 1
  <2>1. b = IF S <= n THEN S ELSE n
    <3>1. 1 * S = S
      BY <1>1
    <3> QED BY <1>7, <3>1 DEF Cut, Least
  <2>2. b - (b % W) = n - (n % W)
    <3>1. CASE S <= n
      <4>1. b = S /\ b % W = 0 /\ n - (n % W) = S
        BY <1>1, <1>6, <2>1, <3>1
      <4> QED BY <1>1, <4>1
    <3>2. CASE ~(S <= n)
      BY <2>1, <3>2
    <3> QED BY <3>1, <3>2
  <2> QED BY <1>7, <2>2
<1>8. CASE i # 1
  <2>1. i - 1 = 1
    <3> SUFFICES ASSUME i - 1 # 1 PROVE FALSE
      OBVIOUS
    <3>1. PICK r \in Nat : i - 1 = r + 2
      <4>1. i - 3 \in Nat /\ i - 1 = (i - 3) + 2
        BY <1>4, <1>8
      <4> QED BY <4>1
    <3>2. (i - 1) * S = r * S + S + S /\ r * S \in Nat
      BY <1>1, <3>1
    <3> HIDE DEF a, b
    <3> QED BY <1>1, <1>3, <1>5, <3>2
  <2>2. a = S
    BY <1>1, <1>5, <2>1
  <2> HIDE DEF a, b
  <2>3. n >= S /\ b - a < W
    BY <1>1, <1>5, <2>2
  <2> QED BY <1>6, <1>8, <2>1, <2>2, <2>3 DEF a, b
<1> QED BY <1>7, <1>8

(* Less than a word is not encrypted.                                      *)
LEMMA ShortIsItself ==
    ASSUME NEW T, NEW x \in Seq(T), Len(x) < Word, NEW key
    PROVE  DecryptData(x, key) = x
<1>1. Len(x) \in Nat /\ DOMAIN x = 1..Len(x) /\ x = [j \in 1..Len(x) |-> x[j]]
  OBVIOUS
<1>2. Whole(x) = 0
  BY <1>1, SectorsAssumption DEF Whole
<1>3. \A j \in 1..Len(x) : j > Whole(x)
  BY <1>1, <1>2
<1>4. DecryptData(x, key) = [j \in 1..Len(x) |-> x[j]]
  BY <1>1, <1>3 DEF DecryptData
<1> QED BY <1>1, <1>4

(* Such a file is laid out as the reader expects it, too.                  *)
LEMMA SecretRunIsLaid ==
    ASSUME NEW f, NEW cells, SecretRun(f, cells)
    PROVE  \E ends : Laid(f, cells, ends)
<1> DEFINE n == f.dataSize
           c == Parts(f)
           key == KeyOf(f, 0)
           plain == Data(1, n)
           ends == [i \in 0..c |-> Upto(f, i)]
           T == {cells[j] : j \in 1..n}
<1>1. /\ n \in Nat /\ c \in Nat
      /\ \A i \in 0..c : Upto(f, i) \in Nat /\ Upto(f, i) <= n
      /\ \A i \in 1..c : i - 1 \in 0..c /\ i \in 0..c /\ Upto(f, i - 1) <= Upto(f, i)
  BY Uptos DEF SecretRun
<1>2. "IsImploded" \notin f.flags /\ ~Tabled(f) /\ ~InOne(f)
  BY DEF SecretRun, Plainly, Tabled, HasSectorOffsetTable, InOne
<1>3. /\ plain \in Seq(Cells) /\ Len(plain) = n /\ DOMAIN plain = 1..n
      /\ \A j \in 1..n : plain[j] = Plain(j)
  <2>1. plain \in Seq(Cells) /\ Len(plain) = n
    BY <1>1, DataIsSeq
  <2>2. \A j \in 1..n : plain[j] = Plain(j)
    <3>1. plain = [j \in 1..(n - 1 + 1) |-> Plain(1 + j - 1)]
      BY DEF Data
    <3>2. n - 1 + 1 = n /\ \A j \in 1..n : 1 + j - 1 = j
      BY <1>1
    <3> HIDE DEF plain, n
    <3> QED BY <3>1, <3>2
  <2> HIDE DEF plain, Cells
  <2> QED BY <2>1, <2>2
<1>4. cells = EncryptData(plain, key) /\ n < SectorSize + Word
  BY DEF SecretRun
<1> HIDE DEF n, plain, key, ends
<1>5. cells = [j \in 1..n |-> cells[j]] /\ \A j \in 1..n : j > Whole(plain) => cells[j] = Plain(j)
  <2>1. cells = [j \in 1..n |-> IF j <= Whole(plain) THEN Encrypted(plain[j], key, j) ELSE plain[j]]
    BY <1>3, <1>4 DEF EncryptData
  <2>2. Whole(plain) \in Int
    BY <1>1, <1>3, SectorsAssumption DEF Whole
  <2>3. \A j \in 1..n : j > Whole(plain) => ~(j <= Whole(plain))
    BY <1>1, <2>2
  <2> QED BY <1>3, <2>1, <2>3
<1>6. cells \in Seq(T) /\ Len(cells) = n
  BY <1>1, <1>5
<1>7. \A i \in 0..c : ends[i] = Upto(f, i) /\ ends[i] \in 0..Len(cells)
  BY <1>1, <1>6 DEF ends
<1>8. c = Ceiling(n, SectorSize) /\ \A i \in 0..c : Upto(f, i) = Cut(n, i)
  BY <1>2 DEF Parts, Upto, n
<1> HIDE DEF T
<1>9. ASSUME NEW i \in 1..c PROVE HoldsPart(f, cells, ends, i)
  <2> DEFINE a == Upto(f, i - 1)
             b == Upto(f, i)
             bytes == Between(cells, a, b)
             data == Data(a + 1, b)
  <2>1. ends[i - 1] = a /\ ends[i] = b /\ a \in Nat /\ b \in Nat /\ a <= b /\ b <= n
        /\ b <= Len(cells)
    BY <1>1, <1>6, <1>7
  <2>2. /\ a = Cut(n, i - 1) /\ b = Cut(n, i)
        /\ i = 1 => b - (b % Word) = n - (n % Word)
        /\ i # 1 => a = n - (n % Word) /\ b - a < Word
    BY <1>1, <1>4, <1>8, FirstSector
  <2>3. i = 1 => a = 0
    BY <1>1, Uptos DEF n
  <2> HIDE DEF a, b
  <2>4. bytes \in Seq(T) /\ Len(bytes) = b - a /\ \A j \in 1..b - a : bytes[j] = cells[a + j]
    <3>1. a \in Nat /\ b \in Nat /\ a <= b /\ b <= Len(cells) /\ cells \in Seq(T)
      BY <1>6, <2>1
    <3> QED BY <3>1, BetweenTwo
  <2>5. data \in Seq(Cells) /\ Len(data) = b - a /\ \A j \in 1..b - a : data[j] = Plain(a + j)
    BY <2>1, Pieced
  <2>6. Whole(plain) = n - (n % Word)
    BY <1>3 DEF Whole
  <2>7. CASE i = 1
    <3>1. bytes = SubSeq(cells, 1, b)
      BY <2>1, <2>3, <2>7 DEF Between
    <3>2. b \in 0..Len(plain) /\ b - (b % Word) = Whole(plain)
      BY <1>1, <1>3, <2>1, <2>2, <2>6, <2>7
    <3>3. DecryptData(bytes, key) = SubSeq(plain, 1, b)
      BY <1>3, <1>4, <3>1, <3>2, BeginningIsUndone
    <3>4. SubSeq(plain, 1, b) = data
      <4> DEFINE s == SubSeq(plain, 1, b)
      <4>1. s \in Seq(Cells) /\ Len(s) = b /\ \A j \in 1..b : s[j] = plain[j]
        <5>1. \A j \in 1..b : plain[j] \in Cells
          <6> HIDE DEF Cells
          <6> QED BY <1>1, <1>3, <2>1
        <5> HIDE DEF Cells
        <5> QED BY <1>1, <1>3, <2>1, <5>1, SubSeqProperties
      <4> HIDE DEF s, data, Cells, Plain
      <4>2. Len(data) = b /\ \A j \in 1..b : s[j] = data[j]
        <5>1. b - a = b /\ \A j \in 1..b : a + j = j /\ j \in 1..n
          BY <1>1, <2>1, <2>3, <2>7
        <5> QED BY <1>3, <2>5, <4>1, <5>1
      <4>3. s = data
        BY <2>5, <4>1, <4>2, SeqEqual
      <4> QED BY <4>3 DEF s
    <3>5. Opened(f, bytes, i - 1) = data
      <4>1. KeyOf(f, i - 1) = key /\ Secret(f)
        BY <2>7 DEF key, SecretRun
      <4> HIDE DEF data, bytes
      <4> QED BY <3>3, <3>4, <4>1 DEF Opened
    <3> QED BY <2>1, <2>4, <3>5 DEF HoldsPart, IsWhole, a, b
  <2>8. CASE i # 1
    <3> HIDE DEF bytes, data, Cells, Plain
    <3>1. \A j \in 1..b - a : bytes[j] = data[j]
      <4>1. \A j \in 1..b - a : a + j \in 1..n /\ a + j > Whole(plain)
        BY <1>1, <2>1, <2>2, <2>6, <2>8
      <4> QED BY <1>5, <2>4, <2>5, <4>1
    <3>2. bytes = data
      BY <2>4, <2>5, <3>1, SeqEqual
    <3>3. DecryptData(bytes, KeyOf(f, i - 1)) = bytes
      BY <2>2, <2>4, <2>8, ShortIsItself
    <3>4. Opened(f, bytes, i - 1) = data
      BY <3>2, <3>3 DEF Opened
    <3> QED BY <2>1, <2>4, <3>4 DEF HoldsPart, IsWhole, a, b, bytes, data
  <2> QED BY <2>7, <2>8
<1>10. EndsAreFound(f, cells, ends)
  BY <1>2, <1>7 DEF EndsAreFound, SecretRun
<1>11. /\ f.dataSize \in Nat /\ f.fileSize = f.dataSize
       /\ ends \in [0..c -> 0..Len(cells)]
       /\ \A i \in 1..c : ends[i - 1] <= ends[i]
  <2>1. \A i \in 1..c : ends[i - 1] <= ends[i]
    BY <1>1, <1>7
  <2>2. ends \in [0..c -> 0..Len(cells)]
    <3>1. \A i \in 0..c : Upto(f, i) \in 0..Len(cells)
      BY <1>7
    <3> QED BY <3>1 DEF ends
  <2> QED BY <2>1, <2>2 DEF SecretRun
<1> HIDE DEF c
<1> QED BY <1>2, <1>9, <1>10, <1>11 DEF Laid, c

(* What is behind the table, and the table.                                *)
LEMMA BehindTable ==
    ASSUME NEW U, NEW table \in Seq(U), NEW T, NEW flat \in Seq(T)
    PROVE  /\ table \o flat \in Seq(U \cup T) /\ Len(table \o flat) = Len(table) + Len(flat)
           /\ Len(table) \in Nat /\ Len(flat) \in Nat
           /\ \A j \in 1..Len(table) : (table \o flat)[j] = table[j]
           /\ \A j \in 1..Len(flat) : (table \o flat)[Len(table) + j] = flat[j]
           /\ SubSeq(table \o flat, 1, Len(table)) = table
<1> DEFINE X == U \cup T
           t == Len(table)
           cells == table \o flat
<1>1. table \in Seq(X) /\ flat \in Seq(X) /\ t \in Nat /\ Len(flat) \in Nat
  OBVIOUS
<1> HIDE DEF X, t
<1>2. /\ cells \in Seq(X) /\ Len(cells) = t + Len(flat)
      /\ \A j \in 1..t + Len(flat) : cells[j] = IF j <= t THEN table[j] ELSE flat[j - t]
  BY <1>1, ConcatProperties DEF t
<1> HIDE DEF cells
<1>3. \A j \in 1..t : cells[j] = table[j]
  BY <1>1, <1>2
<1>4. \A j \in 1..Len(flat) : cells[t + j] = flat[j]
  <2>1. \A j \in 1..Len(flat) : t + j \in 1..t + Len(flat) /\ ~(t + j <= t) /\ (t + j) - t = j
    BY <1>1
  <2> QED BY <1>2, <2>1
<1>5. SubSeq(cells, 1, t) = table
  <2> DEFINE s == SubSeq(cells, 1, t)
  <2>1. s \in Seq(X) /\ Len(s) = t /\ \A j \in 1..t : s[j] = cells[j]
    <3>1. t \in 0..Len(cells)
      BY <1>1, <1>2
    <3>2. \A j \in 1..t : cells[j] \in X
      BY <1>2, <3>1
    <3> QED BY <1>1, <1>2, <3>1, <3>2, SubSeqProperties
  <2>2. \A j \in 1..t : s[j] = table[j]
    BY <1>1, <1>2, <2>1
  <2> HIDE DEF s
  <2>3. s = table
    BY <1>1, <2>1, <2>2, SeqEqual DEF t
  <2> QED BY <2>3 DEF s
<1> QED BY <1>1, <1>2, <1>3, <1>4, <1>5 DEF X, t, cells

(* A run of bytes is the same wherever it starts.                          *)
SameBytes(cells, p, q, flat, a, b) ==
    q - p = b - a /\ \A j \in 1..b - a : cells[p + j] = flat[a + j]

(* Runs of the same bytes are the same sequence.                           *)
LEMMA SameRun ==
    ASSUME NEW X, NEW cells \in Seq(X), NEW flat \in Seq(X),
           NEW a \in Nat, NEW b \in Nat, a <= b, b <= Len(flat),
           NEW p \in Nat, NEW q \in Nat, p <= q, q <= Len(cells),
           SameBytes(cells, p, q, flat, a, b)
    PROVE  Between(cells, p, q) = Between(flat, a, b)
<1> DEFINE x == Between(cells, p, q)
           y == Between(flat, a, b)
<1> HIDE DEF x, y
<1>2. x \in Seq(X) /\ Len(x) = b - a /\ \A j \in 1..b - a : x[j] = cells[p + j]
  <2>1. /\ Between(cells, p, q) \in Seq(X) /\ Len(Between(cells, p, q)) = q - p
        /\ \A j \in 1..q - p : Between(cells, p, q)[j] = cells[p + j]
    <3>1. p \in Nat /\ q \in Nat /\ p <= q /\ q <= Len(cells) /\ cells \in Seq(X)
      OBVIOUS
    <3> QED BY ONLY <3>1, BetweenTwo
  <2> QED BY <2>1 DEF x, SameBytes
<1>3. y \in Seq(X) /\ Len(y) = b - a /\ \A j \in 1..b - a : y[j] = flat[a + j]
  BY BetweenTwo DEF y
<1>4. \A j \in 1..b - a : x[j] = y[j]
  BY <1>2, <1>3 DEF SameBytes
<1>5. x = y
  BY <1>2, <1>3, <1>4, SeqEqual
<1> QED BY <1>5 DEF x, y

-----------------------------------------------------------------------------
(* Pieces of the data, each compressed or not and encrypted or not, one    *)
(* behind the other with a table of where they end in front.               *)
PieceIs(f, piece, i) ==
    \/ piece = Data(Upto(f, i - 1) + 1, Upto(f, i))
    \/ /\ ~Plainly(f) /\ 0 < Len(piece) /\ Len(piece) < Upto(f, i) - Upto(f, i - 1)
       /\ \E a, algorithms : \E size \in Nat \ {0} :
            /\ InOrder(algorithms, ReadOrder) = <<a>>
            /\ piece = <<Mask(algorithms)>> \o Packed(Upto(f, i - 1) + 1, Upto(f, i), <<a>>, size)
EndOf(f, shrunk, i) ==
    (IF Tabled(f) THEN (Parts(f) + 1) * Word ELSE 0) + Len(FlattenSeq(SubSeq(shrunk, 1, i)))
ArePieces(f, shrunk, written) ==
    /\ shrunk = [i \in 1..Parts(f) |-> shrunk[i]]
    /\ \A i \in 1..Parts(f) : PieceIs(f, shrunk[i], i) /\ \E V : shrunk[i] \in Seq(V)
    /\ written = [i \in 1..Parts(f) |->
                    IF Secret(f) THEN EncryptData(shrunk[i], KeyOf(f, i - 1)) ELSE shrunk[i]]
IsTable(f, shrunk, table) ==
    /\ Len(table) = (IF Tabled(f) THEN (Parts(f) + 1) * Word ELSE 0) /\ \E V : table \in Seq(V)
    /\ Tabled(f) => Opened(f, table, -1)
                      = Numbers([i \in 1..(Parts(f) + 1) |-> EndOf(f, shrunk, i - 1)])
ByPieces(f, shrunk, written, table, cells) ==
    /\ f.dataSize \in Nat /\ f.fileSize = f.dataSize /\ "IsImploded" \notin f.flags
    /\ f.blockSize = Len(cells)
    /\ ArePieces(f, shrunk, written) /\ IsTable(f, shrunk, table)
    /\ cells = table \o FlattenSeq(written)

(* Encrypting leaves the length.                                           *)
LEMMA EncryptedLength ==
    ASSUME NEW V, NEW x \in Seq(V), NEW key
    PROVE  Len(EncryptData(x, key)) = Len(x) /\ \E W : EncryptData(x, key) \in Seq(W)
<1> DEFINE e == EncryptData(x, key)
           T == {e[j] : j \in 1..Len(x)}
<1>1. e = [j \in 1..Len(x) |-> e[j]] /\ Len(x) \in Nat
  BY DEF EncryptData
<1> HIDE DEF e
<1>2. e \in Seq(T) /\ Len(e) = Len(x)
  BY <1>1
<1> QED BY <1>2 DEF e

(* What is put together of such pieces is laid out as the reader expects   *)
(* it.                                                                     *)
LEMMA PiecesAreLaid ==
    ASSUME NEW f, NEW shrunk, NEW written, NEW table, NEW cells,
           ByPieces(f, shrunk, written, table, cells)
    PROVE  \E T, ends : cells \in Seq(T) /\ Laid(f, cells, ends)
<1> DEFINE n == f.dataSize
           m == Parts(f)
           t == IF Tabled(f) THEN (m + 1) * Word ELSE 0
<1>1. /\ n \in Nat /\ m \in Nat /\ Upto(f, 0) = 0 /\ Upto(f, m) = n
      /\ \A i \in 0..m : Upto(f, i) \in Nat
      /\ \A i \in 1..m : i - 1 \in 0..m /\ i \in 0..m /\ Upto(f, i - 1) <= Upto(f, i)
  BY Uptos DEF ByPieces
<1> HIDE DEF n, m
<1>2. /\ shrunk = [i \in 1..m |-> shrunk[i]]
      /\ \A i \in 1..m : PieceIs(f, shrunk[i], i) /\ \E V : shrunk[i] \in Seq(V)
      /\ \A i \in 1..m : written[i] = IF Secret(f) THEN EncryptData(shrunk[i], KeyOf(f, i - 1))
                                                   ELSE shrunk[i]
      /\ written = [i \in 1..m |-> written[i]]
  BY DEF ByPieces, ArePieces, m
<1>3. PICK S : shrunk \in Seq(Seq(S)) /\ Len(shrunk) = m
  BY <1>1, <1>2, SequenceOfSequences
<1>4. \A i \in 1..m : Len(written[i]) = Len(shrunk[i]) /\ \E V : written[i] \in Seq(V)
  BY <1>2, EncryptedLength
<1>5. PICK R : written \in Seq(Seq(R)) /\ Len(written) = m
  BY <1>1, <1>2, <1>4, SequenceOfSequences
<1>6. PICK h : Flats(h, shrunk, S)
  BY <1>3, FlatsExist
<1>7. PICK g : Flats(g, written, R)
  BY <1>5, FlatsExist
<1>8. /\ h[0] = <<>> /\ g[0] = <<>> /\ g[m] \in Seq(R)
      /\ \A i \in 0..m : Len(h[i]) \in Nat /\ Len(g[i]) \in Nat
  <2>1. h \in [0..m -> Seq(S)] /\ g \in [0..m -> Seq(R)] /\ h[0] = <<>> /\ g[0] = <<>>
    BY <1>3, <1>5, <1>6, <1>7 DEF Flats
  <2>2. m \in 0..m /\ \A i \in 0..m : h[i] \in Seq(S) /\ g[i] \in Seq(R)
    <3> DEFINE X == Seq(S)
               Y == Seq(R)
    <3>1. h \in [0..m -> X] /\ g \in [0..m -> Y]
      BY <2>1
    <3> HIDE DEF X, Y
    <3>2. m \in 0..m /\ \A i \in 0..m : h[i] \in X /\ g[i] \in Y
      BY <1>1, <3>1
    <3> QED BY <3>2 DEF X, Y
  <2>3. \A i \in 0..m : Len(h[i]) \in Nat /\ Len(g[i]) \in Nat
    BY <2>2
  <2> QED BY <2>1, <2>2, <2>3
<1>9. \A i \in 1..m : /\ Len(h[i]) = Len(h[i - 1]) + Len(shrunk[i])
                      /\ Len(g[i]) = Len(g[i - 1]) + Len(written[i])
                      /\ Len(g[i]) <= Len(g[m])
                      /\ Between(g[m], Len(g[i - 1]), Len(g[i])) = written[i]
  <2> SUFFICES ASSUME NEW i \in 1..m
               PROVE  /\ Len(h[i]) = Len(h[i - 1]) + Len(shrunk[i])
                      /\ Len(g[i]) = Len(g[i - 1]) + Len(written[i])
                      /\ Len(g[i]) <= Len(g[m])
                      /\ Between(g[m], Len(g[i - 1]), Len(g[i])) = written[i]
    OBVIOUS
  <2>1. i \in 1..Len(shrunk) /\ i \in 1..Len(written)
    BY <1>3, <1>5
  <2>2. Len(h[i]) = Len(h[i - 1]) + Len(shrunk[i])
    BY <1>3, <1>6, <2>1, FlatsParts
  <2>3. /\ Len(g[i]) = Len(g[i - 1]) + Len(written[i])
        /\ Len(g[i]) <= Len(g[Len(written)])
        /\ Between(g[Len(written)], Len(g[i - 1]), Len(g[i])) = written[i]
    BY <1>5, <1>7, <2>1, FlatsParts
  <2> QED BY <1>5, <2>2, <2>3
<1>10. \A i \in 0..m : Len(g[i]) = Len(h[i])
  <2> DEFINE Good == {i \in 0..m : Len(g[i]) = Len(h[i])}
  <2>1. 0 \in Good
    BY <1>1, <1>8
  <2>2. ASSUME NEW i \in 0..m - 1, i \in Good PROVE i + 1 \in Good
    <3>1. i + 1 \in 1..m /\ (i + 1) - 1 = i /\ i + 1 \in 0..m
      BY <1>1
    <3> QED BY <1>4, <1>9, <2>2, <3>1
  <2>3. \A i \in 0..m : i \in Good
    <3> HIDE DEF Good
    <3> QED BY <1>1, <2>1, <2>2, InductionTo
  <2> QED BY <2>3
<1>11. FlattenSeq(written) = g[m] /\ \A i \in 0..m : FlattenSeq(SubSeq(shrunk, 1, i)) = h[i]
  BY <1>3, <1>5, <1>6, <1>7, FlatsEnd, FlatsOfBeginning
<1>12. PICK U : table \in Seq(U) /\ Len(table) = t
  BY DEF ByPieces, IsTable, m
<1>13. t \in Nat
  BY <1>12
<1> HIDE DEF t
<1> DEFINE T == U \cup R
           ends == [i \in 0..m |-> t + Len(h[i])]
<1>14. cells = table \o g[m] /\ f.blockSize = Len(cells)
  BY <1>11 DEF ByPieces
<1>15. /\ cells \in Seq(T) /\ Len(cells) = t + Len(g[m]) /\ SubSeq(cells, 1, t) = table
       /\ \A i \in 1..m : Between(cells, t + Len(g[i - 1]), t + Len(g[i])) = written[i]
  <2>1. 0 <= Len(g[m]) /\ 0 \in Nat
    BY <1>1, <1>8
  <2>2. cells \in Seq(T) /\ Len(cells) = t + Len(g[m]) /\ SubSeq(cells, 1, t) = table
    <3>1. /\ table \o g[m] \in Seq(U \cup R)
          /\ Len(table \o g[m]) = Len(table) + Len(g[m])
          /\ SubSeq(table \o g[m], 1, Len(table)) = table
      <4> DEFINE flat == g[m]
      <4>1. flat \in Seq(R) /\ 0 \in Nat /\ 0 <= 0 /\ 0 <= Len(flat)
        BY <1>8, <2>1
      <4> HIDE DEF flat
      <4>2. /\ table \o flat \in Seq(U \cup R)
            /\ Len(table \o flat) = Len(table) + Len(flat)
            /\ SubSeq(table \o flat, 1, Len(table)) = table
        BY <1>12, <4>1, BehindTable
      <4> QED BY <4>2 DEF flat
    <3> QED BY <1>12, <1>14, <3>1
  <2>3. ASSUME NEW i \in 1..m
        PROVE  Between(cells, t + Len(g[i - 1]), t + Len(g[i])) = written[i]
    <3> DEFINE a == Len(g[i - 1])
               b == Len(g[i])
    <3>1. a \in Nat /\ b \in Nat /\ b <= Len(g[m]) /\ Between(g[m], a, b) = written[i]
      BY <1>1, <1>8, <1>9
    <3>2. a <= b
      <4>1. \E V : written[i] \in Seq(V)
        BY <1>4
      <4>2. Len(written[i]) \in Nat
        BY <4>1
      <4>3. b = a + Len(written[i])
        BY <1>9
      <4> HIDE DEF a, b
      <4> QED BY <3>1, <4>2, <4>3
    <3> HIDE DEF a, b
    <3>3. Between(table \o g[m], t + a, t + b) = Between(g[m], a, b)
      <4> DEFINE flat == g[m]
      <4>1. flat \in Seq(R) /\ a \in Nat /\ b \in Nat /\ a <= b /\ b <= Len(flat)
        BY <1>8, <3>1, <3>2
      <4> HIDE DEF flat
      <4>2. /\ table \o flat \in Seq(T) /\ Len(table \o flat) = t + Len(flat)
            /\ \A j \in 1..Len(flat) : (table \o flat)[t + j] = flat[j]
        <5>1. table \in Seq(U) /\ t = Len(table)
          BY <1>12
        <5>2. \A j \in 1..Len(flat) : (table \o flat)[Len(table) + j] = flat[j]
          BY <4>1, <5>1, BehindTable
        <5>3. table \o flat \in Seq(T) /\ Len(table \o flat) = Len(table) + Len(flat)
          BY <4>1, <5>1, BehindTable
        <5> DEFINE u == Len(table)
        <5>4. u = t
          BY <5>1
        <5>5. /\ table \o flat \in Seq(T) /\ Len(table \o flat) = u + Len(flat)
              /\ \A j \in 1..Len(flat) : (table \o flat)[u + j] = flat[j]
          BY <5>2, <5>3
        <5> HIDE DEF u
        <5> QED BY <5>4, <5>5
      <4>3. Between(table \o flat, t + a, t + b) = Between(flat, a, b)
        <5> DEFINE p == t + a
                   q == t + b
                   all == table \o flat
        <5>1. flat \in Seq(T)
          <6>1. R \subseteq T
            OBVIOUS
          <6> HIDE DEF T
          <6> QED BY <4>1, <6>1
        <5>2. /\ all \in Seq(T) /\ Len(all) = t + Len(flat)
              /\ \A j \in 1..Len(flat) : all[t + j] = flat[j]
          BY <4>2
        <5> HIDE DEF all, T
        <5>3. Len(flat) \in Nat
          BY <4>1
        <5>4. p \in Nat /\ q \in Nat /\ p <= q /\ q <= Len(all) /\ q - p = b - a
          BY <1>13, <4>1, <5>2, <5>3
        <5>5. ASSUME NEW j \in 1..b - a PROVE all[p + j] = flat[a + j]
          <6>1. p + j = t + (a + j) /\ a + j \in 1..Len(flat)
            BY <1>13, <4>1, <5>3
          <6> HIDE DEF p
          <6> QED BY <5>2, <6>1
        <5> HIDE DEF p, q
        <5>6. Between(all, p, q) = Between(flat, a, b)
          <6>1. /\ all \in Seq(T) /\ flat \in Seq(T) /\ a \in Nat /\ b \in Nat
                /\ a <= b /\ b <= Len(flat)
            BY <4>1, <5>1, <5>2
          <6>2. SameBytes(all, p, q, flat, a, b)
            BY <5>4, <5>5 DEF SameBytes
          <6>3. p \in Nat /\ q \in Nat /\ p <= q /\ q <= Len(all)
            BY <5>4
          <6> QED BY ONLY <6>1, <6>2, <6>3, SameRun
        <5> QED BY <5>6 DEF all, p, q
      <4> QED BY <4>3 DEF flat
    <3> QED BY <1>14, <3>1, <3>3 DEF a, b
  <2> QED BY <2>2, <2>3
<1>16. \A i \in 1..m : /\ Between(cells, ends[i - 1], ends[i]) = written[i]
                       /\ ends[i - 1] <= ends[i]
                       /\ ends[i - 1] \in Nat /\ ends[i] \in Nat
  <2> SUFFICES ASSUME NEW i \in 1..m
               PROVE  /\ Between(cells, ends[i - 1], ends[i]) = written[i]
                      /\ ends[i - 1] <= ends[i]
                      /\ ends[i - 1] \in Nat /\ ends[i] \in Nat
    OBVIOUS
  <2>1. ends[i - 1] = t + Len(g[i - 1]) /\ ends[i] = t + Len(g[i])
    BY <1>1, <1>10
  <2>2. \E V : written[i] \in Seq(V)
    BY <1>4
  <2>3. Len(written[i]) \in Nat
    BY <2>2
  <2> DEFINE a == Len(g[i - 1])
             b == Len(g[i])
  <2>4. b = a + Len(written[i]) /\ a \in Nat /\ b \in Nat
    BY <1>1, <1>8, <1>9
  <2>5. Between(cells, t + a, t + b) = written[i]
    BY <1>15
  <2>6. ends[i - 1] = t + a /\ ends[i] = t + b
    BY <2>1
  <2> HIDE DEF ends, a, b
  <2> QED BY <1>13, <2>3, <2>4, <2>5, <2>6
<1>17. ends \in [0..m -> 0..Len(cells)]
  <2> SUFFICES ASSUME NEW i \in 0..m PROVE t + Len(h[i]) \in 0..Len(cells)
    OBVIOUS
  <2>1. Len(g[i]) <= Len(g[m])
    <3>1. CASE i = 0
      <4>1. Len(g[i]) = 0 /\ Len(g[m]) \in Nat
        BY <3>1, <1>1, <1>8
      <4> QED BY <4>1
    <3>2. CASE i # 0
      <4>1. i \in 1..m
        BY <3>2, <1>1
      <4> QED BY <4>1, <1>9
    <3> QED BY <3>1, <3>2
  <2> QED BY <1>1, <1>8, <1>10, <1>13, <1>15, <2>1
<1>18. ASSUME NEW i \in 1..m PROVE HoldsPart(f, cells, ends, i)
  <2> DEFINE x == Upto(f, i - 1)
             y == Upto(f, i)
  <2>1. x \in Nat /\ y \in Nat /\ x <= y
    BY <1>1
  <2>2. Opened(f, written[i], i - 1) = shrunk[i] /\ Len(written[i]) = Len(shrunk[i])
    <3>1. PICK V : shrunk[i] \in Seq(V)
      BY <1>2
    <3>2. DecryptData(EncryptData(shrunk[i], KeyOf(f, i - 1)), KeyOf(f, i - 1)) = shrunk[i]
      BY <3>1, EncryptionIsUndone
    <3> QED BY <1>2, <1>4, <3>2 DEF Opened
  <2>3. PieceIs(f, shrunk[i], i)
    BY <1>2
  <2>4. CASE shrunk[i] = Data(x + 1, y)
    <3>1. Len(shrunk[i]) = y - x
      BY <2>1, <2>4, Pieced
    <3> QED BY <1>16, <2>2, <2>4, <3>1 DEF HoldsPart, IsWhole
  <2>5. CASE ~(shrunk[i] = Data(x + 1, y))
    <3>1. IsShrunk(f, written[i], i)
      BY <2>2, <2>3, <2>5 DEF PieceIs, IsShrunk
    <3> QED BY <1>16, <3>1 DEF HoldsPart
  <2> QED BY <2>4, <2>5
<1>19. EndsAreFound(f, cells, ends)
  <2>1. ASSUME Plainly(f)
        PROVE  /\ f.blockSize \div SectorSize = f.dataSize \div SectorSize
               /\ \A i \in 0..m : ends[i] = Upto(f, i)
    <3>1. t = 0
      BY <2>1 DEF t, Tabled, Plainly, HasSectorOffsetTable
    <3> DEFINE Good == {i \in 0..m : Len(h[i]) = Upto(f, i)}
    <3>2. 0 \in Good
      BY <1>1, <1>8
    <3>3. ASSUME NEW i \in 0..m - 1, i \in Good PROVE i + 1 \in Good
      <4> DEFINE k == i + 1
                 x == Upto(f, k - 1)
                 y == Upto(f, k)
      <4>1. k \in 1..m /\ k - 1 = i /\ k \in 0..m
        BY <1>1
      <4>2. x \in Nat /\ y \in Nat /\ x <= y
        BY <1>1, <4>1
      <4>3. shrunk[k] = Data(x + 1, y)
        BY <1>2, <2>1, <4>1 DEF PieceIs
      <4>4. Len(shrunk[k]) = y - x
        BY <4>2, <4>3, Pieced
      <4>5. Len(h[i]) = x
        BY <3>3, <4>1
      <4>6. Len(h[k]) = Len(h[k - 1]) + Len(shrunk[k])
        BY <1>9, <4>1
      <4> HIDE DEF k, x, y
      <4>7. Len(h[k]) = y
        BY <4>1, <4>2, <4>4, <4>5, <4>6
      <4> QED BY <4>1, <4>7 DEF k, y
    <3>4. \A i \in 0..m : i \in Good
      <4> HIDE DEF Good
      <4> QED BY <1>1, <3>2, <3>3, InductionTo
    <3>5. \A i \in 0..m : ends[i] = Upto(f, i)
      BY <1>8, <3>1, <3>4
    <3>6. Len(cells) = n
      BY <1>1, <1>8, <1>10, <1>15, <3>1, <3>4
    <3> QED BY <1>14, <3>5, <3>6 DEF n
  <2>2. ASSUME Tabled(f)
        PROVE  /\ ends[0] = (m + 1) * Word
               /\ \A i \in 0..m :
                    NumberAt(Opened(f, SubSeq(cells, 1, ends[0]), -1), i * Word) = ends[i]
    <3> DEFINE values == [i \in 1..(m + 1) |-> EndOf(f, shrunk, i - 1)]
    <3>1. ends[0] = t /\ t = (m + 1) * Word
      BY <1>1, <1>8, <1>13, <2>2 DEF t
    <3>2. Opened(f, table, -1) = Numbers(values)
      BY <2>2 DEF ByPieces, IsTable, m
    <3>3. \A i \in 0..m : EndOf(f, shrunk, i) = ends[i]
      BY <1>11, <2>2 DEF EndOf, t, m
    <3>4. values \in Seq({values[i] : i \in 1..(m + 1)}) /\ Len(values) = m + 1
      <4>1. values = [i \in 1..(m + 1) |-> values[i]] /\ m + 1 \in Nat
        BY <1>1
      <4> DEFINE V == {values[i] : i \in 1..(m + 1)}
      <4>2. \A i \in 1..(m + 1) : values[i] \in V
        OBVIOUS
      <4> HIDE DEF values, V
      <4>3. values \in Seq(V) /\ Len(values) = m + 1
        BY <4>1, <4>2
      <4> QED BY <4>3 DEF V
    <3>5. ASSUME NEW i \in 0..m PROVE NumberAt(Numbers(values), i * Word) = ends[i]
      <4> DEFINE k == i + 1
      <4>1. k \in 1..(m + 1) /\ k - 1 = i
        BY <1>1
      <4>2. values[k] = ends[i]
        BY <3>3, <4>1
      <4> HIDE DEF k, values
      <4>3. NumberAt(Numbers(values), (k - 1) * Word) = values[k]
        BY <3>4, <4>1, NumberIsFound
      <4> QED BY <4>1, <4>2, <4>3
    <3> HIDE DEF ends, values
    <3> QED BY <1>15, <3>1, <3>2, <3>5
  <2>3. ASSUME InOne(f) PROVE ends[0] = 0 /\ ends[1] = f.blockSize
    <3>1. t = 0 /\ m = 1
      BY <2>3 DEF InOne, t, m, Parts
    <3>2. Len(h[1]) = Len(g[m]) /\ 1 \in 0..m /\ 0 \in 0..m
      BY <1>10, <3>1
    <3> QED BY <1>8, <1>14, <1>15, <3>1, <3>2
  <2> HIDE DEF ends
  <2> QED BY <2>1, <2>2, <2>3 DEF EndsAreFound, m
<1>20. f.dataSize \in Nat /\ f.fileSize = f.dataSize /\ "IsImploded" \notin f.flags
  BY DEF ByPieces
<1> HIDE DEF ends
<1>21. Laid(f, cells, ends)
  BY <1>16, <1>17, <1>18, <1>19, <1>20 DEF Laid, m
<1> QED BY <1>15, <1>21

-----------------------------------------------------------------------------

(* A file that is written as a single run of bytes.                        *)
LEMMA RunIsLaid ==
    ASSUME NEW f, NEW cells,
           f.dataSize \in Nat, f.fileSize = f.dataSize, Plainly(f),
           f.blockSize \div SectorSize = f.dataSize \div SectorSize,
           Secret(f) => f.dataSize < SectorSize + Word,
           cells = IF Secret(f) THEN EncryptData(Data(1, f.dataSize), KeyOf(f, 0))
                                ELSE Data(1, f.dataSize)
    PROVE  \E T, ends : cells \in Seq(T) /\ Laid(f, cells, ends)
<1> DEFINE n == f.dataSize
           plain == Data(1, n)
<1>1. plain \in Seq(Cells) /\ Len(plain) = n
  BY DataIsSeq
<1>2. \A j \in 1..n : plain[j] = Plain(j)
  <2>1. plain = [j \in 1..(n - 1 + 1) |-> Plain(1 + j - 1)]
    BY DEF Data
  <2>2. n - 1 + 1 = n /\ \A j \in 1..n : 1 + j - 1 = j
    OBVIOUS
  <2> HIDE DEF plain, n
  <2> QED BY <2>1, <2>2
<1> HIDE DEF plain
<1>3. CASE Secret(f)
  <2>1. cells = EncryptData(plain, KeyOf(f, 0))
    BY <1>3 DEF plain
  <2>2. \E T : cells \in Seq(T)
    BY <1>1, <2>1, EncryptedLength
  <2>3. SecretRun(f, cells)
    BY <1>3, <2>1 DEF SecretRun, plain
  <2> QED BY <2>2, <2>3, SecretRunIsLaid
<1>4. CASE ~Secret(f)
  <2>1. cells = plain
    BY <1>4 DEF plain
  <2>2. PlainRun(f, cells)
    BY <1>1, <1>2, <1>4, <2>1 DEF PlainRun
  <2> QED BY <1>1, <2>1, <2>2, PlainRunIsLaid
<1> QED BY <1>3, <1>4

(* What compressing a piece leaves of it.                                  *)
LEMMA ShrunkPiece ==
    ASSUME NEW f, "IsImploded" \notin f.flags, NEW chain \in Chains, Len(chain) <= 1,
           f.flags \in AuthorFlags(chain), NEW i \in Nat, NEW size \in Nat \ {0},
           Upto(f, i - 1) \in Nat, Upto(f, i) \in Nat, Upto(f, i - 1) <= Upto(f, i)
    PROVE  LET piece == Data(Upto(f, i - 1) + 1, Upto(f, i))
           IN  /\ PieceIs(f, Shrunk(piece, f.flags, chain, size), i)
               /\ \E V : Shrunk(piece, f.flags, chain, size) \in Seq(V)
<1> DEFINE x == Upto(f, i - 1)
           y == Upto(f, i)
           piece == Data(x + 1, y)
           masked == IF "IsCompressed" \in f.flags
                     THEN <<Mask({chain[j] : j \in DOMAIN chain})>> ELSE <<>>
<1>1. /\ piece \in Seq(Cells) /\ Len(piece) = y - x
      /\ \A j \in 1..y - x : piece[j] = Plain(x + j)
  BY Pieced
<1>2. CASE Shrunk(piece, f.flags, chain, size) = piece
  <2> HIDE DEF Cells
  <2> QED BY <1>1, <1>2 DEF PieceIs
<1>3. CASE Shrunk(piece, f.flags, chain, size) # piece
  <2>1. /\ f.flags \cap {"IsCompressed", "IsImploded"} # {}
        /\ Len(masked) + size < Len(piece)
        /\ Shrunk(piece, f.flags, chain, size)
             = masked \o Packed(piece[1].at, Last(piece).at, chain, size)
    BY <1>3 DEF Shrunk
  <2>2. ~Plainly(f) /\ "IsCompressed" \in f.flags
    BY <2>1 DEF Plainly
  <2>3. chain # <<>>
    BY <2>1 DEF AuthorFlags
  <2>4. chain \in Seq(Algorithms)
    BY SectorsAssumption
  <2>5. chain = <<chain[1]>> /\ chain[1] \in Algorithms /\ DOMAIN chain = {1}
    <3> DEFINE X == Algorithms
    <3> HIDE DEF X
    <3>1. chain \in Seq(X)
      BY <2>4 DEF X
    <3>2. Len(chain) \in Nat /\ DOMAIN chain = 1..Len(chain) /\ (Len(chain) = 0 => chain = <<>>)
      BY <3>1
    <3>3. Len(chain) = 1
      BY <2>3, <3>2
    <3>4. DOMAIN chain = {1} /\ chain[1] \in X
      <4>1. 1..1 = {1}
        OBVIOUS
      <4>2. DOMAIN chain = {1}
        BY <3>2, <3>3, <4>1
      <4>3. 1 \in 1..Len(chain)
        BY <3>3
      <4> QED BY <3>1, <4>2, <4>3
    <3>5. chain = <<chain[1]>>
      BY <3>1, <3>3
    <3> QED BY <3>4, <3>5 DEF X
  <2> DEFINE a == chain[1]
  <2>6. {chain[j] : j \in DOMAIN chain} = {a}
    BY <2>5
  <2>7. InOrder({a}, ReadOrder) = <<a>>
    BY <2>5, UsedBothWays
  <2>8. masked = <<Mask({a})>> /\ Len(masked) = 1
    BY <2>2, <2>6
  <2>9. 1 + size < y - x
    BY <1>1, <2>1, <2>8
  <2>10. piece[1].at = x + 1 /\ Last(piece).at = y
    <3>1. 1 \in 1..y - x /\ y - x \in 1..y - x /\ x + (y - x) = y
      BY <2>9
    <3>2. Last(piece) = piece[y - x]
      BY <1>1 DEF Last
    <3> HIDE DEF piece
    <3>3. piece[1] = Plain(x + 1) /\ Last(piece) = Plain(y)
      BY <1>1, <3>1, <3>2
    <3> QED BY <3>3 DEF Plain
  <2> DEFINE packed == Packed(x + 1, y, <<a>>, size)
             m == Mask({a})
             V == {packed[j] : j \in 1..size} \cup {m}
             s == <<m>> \o packed
  <2>11. Shrunk(piece, f.flags, chain, size) = s
    <3>1. Packed(x + 1, y, chain, size) = packed
      BY <2>5
    <3> HIDE DEF packed, masked, piece
    <3> QED BY <2>1, <2>8, <2>10, <3>1
  <2>12. packed = [j \in 1..size |-> packed[j]]
    BY DEF Packed
  <2> HIDE DEF packed, m
  <2>13. m \in V /\ \A j \in 1..size : packed[j] \in V
    OBVIOUS
  <2> HIDE DEF V
  <2>14. packed \in Seq(V) /\ Len(packed) = size
    BY <2>12, <2>13
  <2>15. s \in Seq(V) /\ Len(s) = 1 + size
    BY <2>13, <2>14
  <2>16. 0 < Len(s) /\ Len(s) < y - x
    BY <2>9, <2>15
  <2> HIDE DEF piece, x, y
  <2>17. PieceIs(f, s, i)
    <3>1. /\ InOrder({a}, ReadOrder) = <<a>>
          /\ s = <<Mask({a})>> \o Packed(Upto(f, i - 1) + 1, Upto(f, i), <<a>>, size)
      BY <2>7 DEF m, packed, x, y
    <3>2. \E b, algorithms : \E c \in Nat \ {0} :
            /\ InOrder(algorithms, ReadOrder) = <<b>>
            /\ s = <<Mask(algorithms)>> \o Packed(Upto(f, i - 1) + 1, Upto(f, i), <<b>>, c)
      <4> HIDE DEF s, a
      <4> DEFINE A == {a}
      <4>1. /\ InOrder(A, ReadOrder) = <<a>>
            /\ s = <<Mask(A)>> \o Packed(Upto(f, i - 1) + 1, Upto(f, i), <<a>>, size)
        BY <3>1
      <4> HIDE DEF A
      <4> QED BY <4>1
    <3> HIDE DEF s
    <3> QED BY <2>2, <2>16, <3>2 DEF PieceIs, x, y
  <2> HIDE DEF s
  <2> QED BY <2>11, <2>15, <2>17 DEF s, piece, x, y
<1> QED BY <1>2, <1>3

(* What other programs write, if it is not of the exceptions.              *)
LEMMA AuthorLays ==
    ASSUME Author, WrittenByOthers(file')
    PROVE  \E T, ends : stored' \in Seq(T) /\ Laid(file', stored', ends)
<1> DEFINE Shr(n, chain, flags, packed) ==
               [i \in DOMAIN Pieces(n, flags) |->
                   Shrunk(Pieces(n, flags)[i], flags, chain, packed[i])]
           Wri(n, chain, flags, packed) ==
               [i \in DOMAIN Pieces(n, flags) |->
                   IF "IsEncrypted" \in flags
                   THEN EncryptData(Shr(n, chain, flags, packed)[i],
                                    FileKey("name", flags, n, i - 1))
                   ELSE Shr(n, chain, flags, packed)[i]]
           Ends(n, chain, flags, packed) ==
               [i \in 0..Len(Pieces(n, flags)) |->
                   (Len(Pieces(n, flags)) + 1) * Word
                     + Len(FlattenSeq(SubSeq(Shr(n, chain, flags, packed), 1, i)))]
           Num(n, chain, flags, packed) ==
               Numbers([i \in 1..(Len(Pieces(n, flags)) + 1) |->
                           Ends(n, chain, flags, packed)[i - 1]])
           Tab(n, chain, flags, packed) ==
               IF ~HasSectorOffsetTable(flags) THEN <<>>
               ELSE IF "IsEncrypted" \in flags
                    THEN EncryptData(Num(n, chain, flags, packed), FileKey("name", flags, n, -1))
                    ELSE Num(n, chain, flags, packed)
           File(n, chain, path, flags) ==
               [own |-> FALSE, path |-> path, flags |-> flags, chain |-> chain,
                dataSize |-> n, blockSize |-> Len(stored'), fileSize |-> n, packed |-> 0]
<1>1. PICK n \in DataSizes, chain \in Chains, path \in Paths :
        \E flags \in AuthorFlags(chain) :
        \E packed \in [DOMAIN Pieces(n, flags) -> IF chain = <<>> THEN {1} ELSE PackedSizes] :
          /\ stored' = Tab(n, chain, flags, packed) \o FlattenSeq(Wri(n, chain, flags, packed))
          /\ file' = File(n, chain, path, flags)
  BY DEF Author
<1> HIDE DEF File, Tab, Wri, Num, Ends, Shr
<1>2. PICK flags \in AuthorFlags(chain) :
        \E packed \in [DOMAIN Pieces(n, flags) -> IF chain = <<>> THEN {1} ELSE PackedSizes] :
          /\ stored' = Tab(n, chain, flags, packed) \o FlattenSeq(Wri(n, chain, flags, packed))
          /\ file' = File(n, chain, path, flags)
  BY <1>1
<1>3. PICK packed \in [DOMAIN Pieces(n, flags) -> IF chain = <<>> THEN {1} ELSE PackedSizes] :
        /\ stored' = Tab(n, chain, flags, packed) \o FlattenSeq(Wri(n, chain, flags, packed))
        /\ file' = File(n, chain, path, flags)
  BY <1>2
<1> DEFINE f == file'
           cells == stored'
           pieces == Pieces(n, flags)
           shrunk == Shr(n, chain, flags, packed)
           written == Wri(n, chain, flags, packed)
           table == Tab(n, chain, flags, packed)
<1>4. /\ f.flags = flags /\ f.chain = chain /\ f.dataSize = n /\ f.fileSize = n
      /\ f.blockSize = Len(cells) /\ cells = table \o FlattenSeq(written)
      /\ "IsImploded" \notin flags /\ Len(chain) <= 1
      /\ Plainly(f) /\ Secret(f) /\ "IsSingleUnit" \in flags => n < SectorSize + Word
  BY <1>3 DEF File, WrittenByOthers
<1>5. n \in Nat
  BY SectorsAssumption
<1>6. /\ shrunk = [i \in DOMAIN pieces |-> Shrunk(pieces[i], flags, chain, packed[i])]
      /\ written = [i \in DOMAIN pieces |->
                      IF "IsEncrypted" \in flags
                      THEN EncryptData(shrunk[i], FileKey("name", flags, n, i - 1))
                      ELSE shrunk[i]]
      /\ Secret(f) <=> "IsEncrypted" \in flags
      /\ \A i : KeyOf(f, i) = FileKey("name", flags, n, i)
  BY <1>4 DEF Shr, Wri, Secret, KeyOf
<1> HIDE DEF f, cells, shrunk, written, table
<1>7. CASE "IsSingleUnit" \in flags /\ Plainly(f)
  <2> DEFINE plain == Data(1, n)
             e == IF Secret(f) THEN EncryptData(plain, KeyOf(f, 0)) ELSE plain
  <2>1. pieces = <<plain>> /\ DOMAIN pieces = {1} /\ pieces[1] = plain
    BY <1>7 DEF Pieces
  <2>2. Shrunk(plain, flags, chain, packed[1]) = plain
    BY <1>4, <1>7 DEF Shrunk, Plainly
  <2>3. table = <<>>
    BY <1>4, <1>7 DEF table, Tab, HasSectorOffsetTable
  <2> HIDE DEF plain, pieces
  <2>4. shrunk = [i \in {1} |-> plain]
    BY <1>6, <2>1, <2>2
  <2>5. written = [i \in {1} |-> e]
    <3>1. 1 - 1 = 0
      OBVIOUS
    <3>2. \A i \in {1} : shrunk[i] = plain /\ i - 1 = 0
      BY <2>4, <3>1
    <3> QED BY <1>6, <2>1, <3>2
  <2>6. plain \in Seq(Cells) /\ Len(plain) = n
    BY <1>5, DataIsSeq DEF plain
  <2>7. Len(e) = n /\ \E V : e \in Seq(V)
    BY <2>6, EncryptedLength
  <2>8. PICK V : e \in Seq(V)
    BY <2>7
  <2> HIDE DEF e
  <2>9. written = <<e>>
    BY <2>5
  <2>10. cells = e
    <3>1. FlattenSeq(written) = e
      BY <2>8, <2>9, OneFlattened
    <3> QED BY <1>4, <2>3, <2>8, <3>1, ConcatEmptySeq
  <2> QED BY <1>4, <1>5, <1>7, <2>7, <2>10, RunIsLaid DEF e, plain, f, cells
<1>8. CASE ~("IsSingleUnit" \in flags /\ Plainly(f))
  <2> DEFINE m == Parts(f)
  <2>1. /\ m \in Nat
        /\ \A i \in 1..m : /\ Upto(f, i - 1) \in Nat /\ Upto(f, i) \in Nat
                           /\ Upto(f, i - 1) <= Upto(f, i)
    <3>1. \A i \in 1..m : i - 1 \in 0..m /\ i \in 0..m /\ Upto(f, i - 1) <= Upto(f, i)
      BY <1>4, <1>5, Uptos
    <3> QED BY <1>4, <1>5, <3>1, Uptos
  <2>2. /\ DOMAIN pieces = 1..m /\ Len(pieces) = m
        /\ \A i \in 1..m : pieces[i] = Data(Upto(f, i - 1) + 1, Upto(f, i))
    <3>1. CASE "IsSingleUnit" \in flags
      <4>1. InOne(f)
        BY <1>4, <1>8, <3>1 DEF InOne, Tabled, HasSectorOffsetTable
      <4>2. m = 1 /\ Upto(f, 0) = 0 /\ Upto(f, 1) = n
        BY <1>4, <4>1 DEF Parts, Upto
      <4>3. pieces = <<Data(1, n)>>
        BY <3>1 DEF Pieces
      <4>4. DOMAIN pieces = 1..1 /\ Len(pieces) = 1 /\ pieces[1] = Data(1, n)
        BY <4>3
      <4>5. Data(Upto(f, 1 - 1) + 1, Upto(f, 1)) = Data(1, n)
        <5>1. 1 - 1 = 0 /\ 0 + 1 = 1
          OBVIOUS
        <5> QED BY <4>2, <5>1
      <4>6. \A i \in 1..1 : i = 1
        OBVIOUS
      <4> HIDE DEF pieces, m
      <4> QED BY <4>2, <4>4, <4>5, <4>6
    <3>2. CASE ~("IsSingleUnit" \in flags)
      <4> DEFINE c == Ceiling(n, SectorSize)
      <4>1. ~InOne(f)
        BY <1>4, <3>2 DEF InOne, Tabled, HasSectorOffsetTable, Plainly
      <4>2. m = c /\ \A i : Upto(f, i) = Cut(n, i)
        BY <1>4, <4>1 DEF Parts, Upto
      <4>3. pieces = [i \in 1..c |->
                        Data((i - 1) * SectorSize + 1, Least(i * SectorSize, n))]
        BY <3>2 DEF Pieces
      <4>4. c \in Nat /\ \A i \in 1..c : Cut(n, i - 1) = (i - 1) * SectorSize
        BY <1>5, Cuts DEF IsCut
      <4> HIDE DEF pieces, m, c
      <4>5. \A i \in 1..c : pieces[i] = Data(Upto(f, i - 1) + 1, Upto(f, i))
        BY <4>2, <4>3, <4>4 DEF Cut
      <4>6. DOMAIN pieces = 1..c /\ Len(pieces) = c
        BY <4>3, <4>4
      <4> QED BY <4>2, <4>5, <4>6
    <3> QED BY <3>1, <3>2
  <2> HIDE DEF pieces, m
  <2>3. \A i \in 1..m : packed[i] \in Nat \ {0}
    <3>1. (IF chain = <<>> THEN {1} ELSE PackedSizes) \subseteq Nat \ {0}
      BY SectorsAssumption
    <3>2. packed \in [1..m -> IF chain = <<>> THEN {1} ELSE PackedSizes]
      BY <1>3, <2>2 DEF pieces
    <3> QED BY <3>1, <3>2
  <2>4. ASSUME NEW i \in 1..m
        PROVE  PieceIs(f, shrunk[i], i) /\ \E V : shrunk[i] \in Seq(V)
    <3> DEFINE piece == Data(Upto(f, i - 1) + 1, Upto(f, i))
    <3>1. shrunk[i] = Shrunk(piece, f.flags, chain, packed[i])
      BY <1>4, <1>6, <2>2
    <3>2. /\ f.flags \in AuthorFlags(chain) /\ chain \in Chains /\ Len(chain) <= 1
          /\ "IsImploded" \notin f.flags /\ packed[i] \in Nat \ {0}
      BY <1>4, <2>3
    <3>3. /\ PieceIs(f, Shrunk(piece, f.flags, chain, packed[i]), i)
          /\ \E V : Shrunk(piece, f.flags, chain, packed[i]) \in Seq(V)
      <4> DEFINE size == packed[i]
      <4>1. size \in Nat \ {0} /\ i \in Nat
        BY <3>2
      <4> HIDE DEF size
      <4>2. /\ PieceIs(f, Shrunk(piece, f.flags, chain, size), i)
            /\ \E V : Shrunk(piece, f.flags, chain, size) \in Seq(V)
        BY <2>1, <3>2, <4>1, ShrunkPiece
      <4> QED BY <4>2 DEF size
    <3> QED BY <3>1, <3>3
  <2>5. ArePieces(f, shrunk, written)
    <3>1. shrunk = [i \in 1..m |-> shrunk[i]]
      BY <1>6, <2>2
    <3>2. written = [i \in 1..m |->
                       IF Secret(f) THEN EncryptData(shrunk[i], KeyOf(f, i - 1)) ELSE shrunk[i]]
      BY <1>6, <2>2
    <3> QED BY <2>4, <3>1, <3>2 DEF ArePieces, m
  <2>6. IsTable(f, shrunk, table)
    <3>1. CASE ~Tabled(f)
      <4>1. table = <<>>
        BY <1>4, <3>1 DEF Tabled, table, Tab
      <4>2. Len(table) = 0 /\ table \in Seq({})
        BY <4>1
      <4> QED BY <3>1, <4>2 DEF IsTable
    <3>2. CASE Tabled(f)
      <4> DEFINE values == [i \in 1..(m + 1) |-> EndOf(f, shrunk, i - 1)]
                 numbers == Numbers(values)
                 V == {numbers[j] : j \in 1..(m + 1) * Word}
      <4>1. Num(n, chain, flags, packed) = numbers
        <5>1. Len(Pieces(n, flags)) = m
          BY <2>2 DEF pieces
        <5>2. \A i \in 0..m : Ends(n, chain, flags, packed)[i] = EndOf(f, shrunk, i)
          BY <3>2, <5>1 DEF Ends, EndOf, m, shrunk
        <5>3. \A i \in 1..(m + 1) : i - 1 \in 0..m
          BY <2>1
        <5>4. [i \in 1..(m + 1) |-> Ends(n, chain, flags, packed)[i - 1]] = values
          BY <5>2, <5>3
        <5> QED BY <5>1, <5>4 DEF Num
      <4>2. Len(values) = m + 1 /\ (m + 1) * Word \in Nat
        BY <2>1, SectorsAssumption
      <4>3. numbers = [j \in 1..(m + 1) * Word |-> numbers[j]]
        <5> HIDE DEF values
        <5> QED BY <4>2 DEF Numbers
      <4> HIDE DEF numbers
      <4>4. \A j \in 1..(m + 1) * Word : numbers[j] \in V
        OBVIOUS
      <4> HIDE DEF V
      <4>5. numbers \in Seq(V) /\ Len(numbers) = (m + 1) * Word
        BY <4>2, <4>3, <4>4
      <4>6. table = IF Secret(f) THEN EncryptData(numbers, KeyOf(f, -1)) ELSE numbers
        BY <1>4, <1>6, <3>2, <4>1 DEF table, Tab, Tabled
      <4>7. Opened(f, table, -1) = numbers
        <5>1. DecryptData(EncryptData(numbers, KeyOf(f, -1)), KeyOf(f, -1)) = numbers
          BY <4>5, EncryptionIsUndone
        <5> QED BY <4>6, <5>1 DEF Opened
      <4>8. Len(table) = (m + 1) * Word /\ \E W : table \in Seq(W)
        BY <4>5, <4>6, EncryptedLength
      <4> QED BY <3>2, <4>7, <4>8 DEF IsTable, m, numbers, values
    <3> QED BY <3>1, <3>2
  <2>7. ByPieces(f, shrunk, written, table, cells)
    BY <1>4, <1>5, <2>5, <2>6 DEF ByPieces
  <2>8. \E T, ends : cells \in Seq(T) /\ Laid(f, cells, ends)
    BY <2>7, PiecesAreLaid
  <2> QED BY <2>8 DEF f, cells
<1> QED BY <1>7, <1>8

(* The quotient of a number that is no multiple and of the one before.     *)
LEMMA OneLess ==
    ASSUME NEW d \in Nat \ {0}, NEW x \in Nat, (x + 1) % d # 0
    PROVE  /\ (x + 1) \div d = x \div d
           /\ x - (x % d) = (x + 1) - ((x + 1) % d)
<1> DEFINE y == x + 1
           q == y \div d
           r == q * d
<1>1. y \in Nat /\ y = x + 1
  OBVIOUS
<1> HIDE DEF y
<1>2. q \in Nat /\ r \in Nat /\ r <= y /\ y < r + d /\ y % d = y - r
  <2>1. q \in Nat /\ q * d \in Nat /\ q * d <= y /\ y < q * d + d /\ y % d = y - q * d
    BY <1>1
  <2> QED BY <2>1
<1>3. y % d # 0
  BY DEF y
<1> HIDE DEF q
<1>4. r <= x /\ x < r + d
  <2> HIDE DEF r
  <2> QED BY <1>1, <1>2, <1>3
<1>5. x \div d = q
  BY <1>2, <1>4, Quotient
<1>6. x % d = x - r
  <2>1. x % d = x - (x \div d) * d
    OBVIOUS
  <2> QED BY <1>5, <2>1
<1> HIDE DEF r
<1>7. x - (x % d) = r /\ y - (y % d) = r
  BY <1>1, <1>2, <1>6
<1> QED BY <1>5, <1>7 DEF q, y

(* A compressed file as one sector, with a byte too much behind it.        *)
OneSector(f, a, size, cells) ==
    /\ f.dataSize \in Nat /\ f.fileSize = f.dataSize /\ "IsImploded" \notin f.flags
    /\ InOne(f) /\ f.blockSize = size + 1 /\ size + 1 < f.dataSize
    /\ Secret(f) => (size + 2) % Word # 0
    /\ \E algorithms :
         /\ InOrder(algorithms, ReadOrder) = <<a>>
         /\ LET packed == Packed(1, f.dataSize, <<a>>, size)
                masked == <<Mask(algorithms)>> \o Append(packed, Junk)
            IN  cells = IF Secret(f) THEN EncryptData(masked, KeyOf(f, 0)) ELSE masked

(* The reader takes the size from the Block, which leaves the last byte    *)
(* out, the one too much.                                                  *)
LEMMA OneSectorIsLaid ==
    ASSUME NEW f, NEW a, NEW size \in Nat \ {0}, NEW cells, OneSector(f, a, size, cells)
    PROVE  \E T, ends : cells \in Seq(T) /\ Laid(f, cells, ends)
<1> DEFINE n == f.dataSize
           packed == Packed(1, n, <<a>>, size)
<1>1. PICK algorithms :
         /\ InOrder(algorithms, ReadOrder) = <<a>>
         /\ LET masked == <<Mask(algorithms)>> \o Append(packed, Junk)
            IN  cells = IF Secret(f) THEN EncryptData(masked, KeyOf(f, 0)) ELSE masked
  BY DEF OneSector
<1> DEFINE m == Mask(algorithms)
           S == {packed[j] : j \in 1..size} \cup {m, Junk}
           masked == <<m>> \o Append(packed, Junk)
           whole == <<m>> \o packed
           b == size + 1
<1>2. packed = [j \in 1..size |-> packed[j]]
  BY DEF Packed
<1>3. cells = IF Secret(f) THEN EncryptData(masked, KeyOf(f, 0)) ELSE masked
  BY <1>1
<1>4. whole = <<Mask(algorithms)>> \o Packed(0 + 1, n, <<a>>, size)
  OBVIOUS
<1> HIDE DEF packed, m
<1>5. m \in S /\ Junk \in S /\ \A j \in 1..size : packed[j] \in S
  OBVIOUS
<1> DEFINE junk == Junk
<1>6. junk \in S
  BY <1>5
<1> HIDE DEF S, junk
<1>7. packed \in Seq(S) /\ Len(packed) = size
  BY <1>2, <1>5
<1>8. /\ masked \in Seq(S) /\ Len(masked) = size + 2
      /\ whole \in Seq(S) /\ Len(whole) = size + 1
      /\ SubSeq(masked, 1, size + 1) = whole
  <2> DEFINE p == Append(packed, junk)
  <2>1. p \in Seq(S) /\ Len(p) = size + 1 /\ \A j \in 1..size : p[j] = packed[j]
    BY <1>6, <1>7
  <2> HIDE DEF p
  <2>2. /\ <<m>> \o p \in Seq(S) /\ Len(<<m>> \o p) = size + 2
        /\ \A j \in 1..size + 2 : (<<m>> \o p)[j] = IF j = 1 THEN m ELSE p[j - 1]
    BY <1>5, <2>1
  <2>3. /\ whole \in Seq(S) /\ Len(whole) = size + 1
        /\ \A j \in 1..size + 1 : whole[j] = IF j = 1 THEN m ELSE packed[j - 1]
    BY <1>5, <1>7
  <2> DEFINE all == <<m>> \o p
  <2>4. masked = all
    BY DEF p, junk
  <2> HIDE DEF all, whole, masked
  <2>5. all \in Seq(S) /\ Len(all) = size + 2
        /\ \A j \in 1..size + 2 : all[j] = IF j = 1 THEN m ELSE p[j - 1]
    BY <2>2 DEF all
  <2> DEFINE s == SubSeq(all, 1, size + 1)
             k == size + 1
  <2>6. k \in 0..Len(all)
    BY <2>5
  <2>7. \A j \in 1..k : all[j] \in S
    BY <2>5, <2>6
  <2> HIDE DEF k
  <2>8. SubSeq(all, 1, k) \in Seq(S) /\ Len(SubSeq(all, 1, k)) = k
        /\ \A j \in 1..k : SubSeq(all, 1, k)[j] = all[j]
    BY <2>5, <2>6, <2>7, SubSeqProperties
  <2>9. s \in Seq(S) /\ Len(s) = size + 1 /\ \A j \in 1..size + 1 : s[j] = all[j]
    BY <2>8 DEF k
  <2> HIDE DEF s
  <2>10. \A j \in 1..size + 1 : s[j] = whole[j]
    <3> SUFFICES ASSUME NEW j \in 1..size + 1 PROVE s[j] = whole[j]
      OBVIOUS
    <3>1. j # 1 => j - 1 \in 1..size
      OBVIOUS
    <3>2. j \in 1..size + 2
      OBVIOUS
    <3> QED BY <2>1, <2>3, <2>5, <2>9, <3>1, <3>2
  <2>11. s = whole
    BY <2>3, <2>9, <2>10, SeqEqual
  <2> QED BY <2>3, <2>4, <2>5, <2>11 DEF s
<1> HIDE DEF masked, whole
<1>9. PICK T : cells \in Seq(T) /\ Len(cells) = size + 2
  <2>1. CASE Secret(f)
    <3>1. Len(EncryptData(masked, KeyOf(f, 0))) = Len(masked)
          /\ \E V : EncryptData(masked, KeyOf(f, 0)) \in Seq(V)
      BY <1>8, EncryptedLength
    <3> QED BY <1>3, <1>8, <2>1, <3>1
  <2>2. CASE ~Secret(f)
    BY <1>3, <1>8, <2>2
  <2> QED BY <2>1, <2>2
<1>10. /\ n \in Nat /\ f.fileSize = n /\ "IsImploded" \notin f.flags /\ InOne(f)
       /\ f.blockSize = b /\ b < n /\ b \in Nat /\ b > 0
  BY DEF OneSector
<1> DEFINE ends == [i \in 0..1 |-> IF i = 0 THEN 0 ELSE b]
           bytes == SubSeq(cells, 1, b)
<1>11. Parts(f) = 1 /\ Upto(f, 0) = 0 /\ Upto(f, 1) = n
  BY <1>10 DEF Parts, Upto
<1>12. Opened(f, bytes, 0) = whole
  <2>1. CASE Secret(f)
    <3>1. b \in 0..Len(masked)
      BY <1>8
    <3>2. b - (b % Word) = Whole(masked)
      <4>1. (b + 1) % Word # 0 /\ Len(masked) = b + 1
        BY <1>8, <2>1 DEF OneSector
      <4>2. b - (b % Word) = (b + 1) - ((b + 1) % Word)
        <5> HIDE DEF b
        <5> QED BY <1>10, <4>1, OneLess, SectorsAssumption
      <4> QED BY <4>1, <4>2 DEF Whole
    <3>3. DecryptData(SubSeq(EncryptData(masked, KeyOf(f, 0)), 1, b), KeyOf(f, 0))
            = SubSeq(masked, 1, b)
      BY <1>8, <3>1, <3>2, BeginningIsUndone
    <3> QED BY <1>3, <1>8, <2>1, <3>3 DEF Opened
  <2>2. CASE ~Secret(f)
    BY <1>3, <1>8, <2>2 DEF Opened
  <2> QED BY <2>1, <2>2
<1>13. HoldsPart(f, cells, ends, 1)
  <2>1. 1 - 1 = 0 /\ ends[0] = 0 /\ ends[1] = b /\ 0 + 1 = 1 /\ n - 0 = n
    BY <1>10
  <2>2. Between(cells, 0, b) = bytes /\ Len(bytes) = b
    <3>1. 0 \in Nat /\ b \in Nat /\ 0 <= b /\ b <= Len(cells) /\ b - 0 = b
      BY <1>9, <1>10
    <3>2. Len(Between(cells, 0, b)) = b - 0
      <4> HIDE DEF b
      <4> QED BY <1>9, <3>1, BetweenTwo
    <3> QED BY <2>1, <3>1, <3>2 DEF Between
  <2>3. IsShrunk(f, bytes, 1)
    <3>1. /\ InOrder(algorithms, ReadOrder) = <<a>>
          /\ Opened(f, bytes, 1 - 1) =
               <<Mask(algorithms)>> \o Packed(Upto(f, 1 - 1) + 1, Upto(f, 1), <<a>>, size)
      BY <1>1, <1>4, <1>11, <1>12, <2>1
    <3>2. 0 < Len(bytes) /\ Len(bytes) < Upto(f, 1) - Upto(f, 1 - 1)
      BY <1>10, <1>11, <2>1, <2>2
    <3> HIDE DEF bytes
    <3> QED BY <3>1, <3>2 DEF IsShrunk
  <2> QED BY <2>1, <2>2, <2>3 DEF HoldsPart
<1>14. EndsAreFound(f, cells, ends)
  BY <1>10 DEF EndsAreFound, InOne
<1>15. ends \in [0..1 -> 0..Len(cells)] /\ ends[1 - 1] <= ends[1]
  BY <1>9, <1>10
<1>16. \A i \in 1..Parts(f) : i = 1
  BY <1>11
<1> HIDE DEF ends
<1>17. Laid(f, cells, ends)
  BY <1>10, <1>11, <1>13, <1>14, <1>15, <1>16 DEF Laid
<1> QED BY <1>9, <1>17

(* What addFile() writes, where it writes well.                            *)
LEMMA AddFileLays ==
    ASSUME AddFile, WrittenByAddFile(file')
    PROVE  \E T, ends : stored' \in Seq(T) /\ Laid(file', stored', ends)
<1> DEFINE Dat(n, flags, mask, packed) == Compress(n, flags, mask, packed)
           New(n, flags, mask, packed) ==
               NewSectors(n, flags, mask, Len(Dat(n, flags, mask, packed)))
           Tab(n, flags, mask, packed, path) ==
               WriteSectors(New(n, flags, mask, packed), n, flags, path,
                            Len(Dat(n, flags, mask, packed)))
           One(flags, mask, path) == [flags |-> flags, mask |-> mask, path |-> path]
           Wri(n, flags, mask, packed, path) ==
               [i \in DOMAIN New(n, flags, mask, packed) |->
                   WriteCompressed(Dat(n, flags, mask, packed), New(n, flags, mask, packed)[i],
                                   One(flags, mask, path))]
           File(n, flags, mask, packed, path) ==
               [own |-> TRUE, path |-> path, flags |-> flags, chain |-> InOrder(mask, WriteOrder),
                dataSize |-> n,
                blockSize |-> Len(Tab(n, flags, mask, packed, path))
                                + IF New(n, flags, mask, packed) = <<>> THEN 0
                                  ELSE Last(New(n, flags, mask, packed)).offset
                                         + Last(New(n, flags, mask, packed)).size,
                fileSize |-> IF HasSectorOffsetTable(flags) THEN 0 ELSE n,
                packed |-> Len(Dat(n, flags, mask, packed))]
<1>1. PICK n \in DataSizes, flags \in SUBSET (Flags \ {"IsImploded"}), mask \in Masks,
           packed \in PackedSizes, path \in Paths :
        /\ stored' = Tab(n, flags, mask, packed, path)
                       \o FlattenSeq(Wri(n, flags, mask, packed, path))
        /\ file' = File(n, flags, mask, packed, path)
  BY DEF AddFile
<1> HIDE DEF File, Wri, Tab, New, Dat
<1> DEFINE f == file'
           cells == stored'
           data == Dat(n, flags, mask, packed)
           new == New(n, flags, mask, packed)
           table == Tab(n, flags, mask, packed, path)
           written == Wri(n, flags, mask, packed, path)
<1>2. n \in Nat /\ mask \in SUBSET Algorithms /\ packed \in Nat \ {0} /\ "IsImploded" \notin flags
  BY SectorsAssumption
<1>3. /\ f.own /\ f.flags = flags /\ f.chain = InOrder(mask, WriteOrder) /\ f.dataSize = n
      /\ f.path = path /\ f.packed = Len(data)
      /\ f.fileSize = IF HasSectorOffsetTable(flags) THEN 0 ELSE n
      /\ f.blockSize = Len(table) + IF new = <<>> THEN 0 ELSE Last(new).offset + Last(new).size
      /\ cells = table \o FlattenSeq(written)
      /\ WrittenByAddFile(f)
  BY <1>1 DEF File
<1>4. /\ data = Compress(n, flags, mask, packed)
      /\ new = NewSectors(n, flags, mask, Len(data))
      /\ table = WriteSectors(new, n, flags, path, Len(data))
      /\ written = [i \in DOMAIN new |-> WriteCompressed(data, new[i], One(flags, mask, path))]
  BY DEF Dat, New, Tab, Wri
<1> HIDE DEF f, cells, data, new, table, written
<1> DEFINE plus == IF mask = {} THEN 0 ELSE 1
           size == Len(data) + plus
           bytes == [j \in 1..size |-> IF j <= Len(data) THEN data[j] ELSE Junk]
           masked == IF "IsCompressed" \in flags THEN <<Mask(mask)>> \o bytes ELSE bytes
<1>5. ~HasSectorOffsetTable(flags) /\ ~Tabled(f)
  BY <1>3 DEF WrittenByAddFile, Plainly, HasSectorOffsetTable, Tabled
<1>6. /\ new = <<NewSector(0, 0, size, n)>> /\ table = <<>> /\ f.fileSize = n
      /\ Secret(f) <=> "IsEncrypted" \in flags
  BY <1>3, <1>4, <1>5 DEF NewSectors, WriteSectors, Secret
<1>7. Secret(f) => FileKey(path, flags, 0, 0) = KeyOf(f, 0)
  BY <1>3 DEF WrittenByAddFile, FileKey, KeyOf
<1>8. ASSUME size \in Nat
      PROVE  /\ f.blockSize = size
             /\ written = <<IF Secret(f) THEN EncryptData(masked, KeyOf(f, 0)) ELSE masked>>
  <2> DEFINE s == NewSector(0, 0, size, n)
  <2>1. s.offset = 0 /\ s.size = size /\ s.index = 0
    BY DEF NewSector
  <2>2. Last(new) = s /\ new # <<>> /\ Len(table) = 0
    BY <1>6 DEF Last
  <2>3. f.blockSize = size
    BY <1>3, <1>8, <2>1, <2>2
  <2>5. [j \in 1..size |-> IF s.offset + j <= Len(data) THEN data[s.offset + j] ELSE Junk] = bytes
    <3>1. \A j \in 1..size : s.offset + j = j
      BY <1>8, <2>1
    <3> HIDE DEF s, size
    <3> QED BY <3>1
  <2>6. WriteCompressed(data, s, One(flags, mask, path))
          = IF Secret(f) THEN EncryptData(masked, KeyOf(f, 0)) ELSE masked
    <3> HIDE DEF s, bytes, size
    <3>1. [j \in 1..s.size |-> IF s.offset + j <= Len(data) THEN data[s.offset + j] ELSE Junk]
            = bytes
      BY <2>1, <2>5
    <3> HIDE DEF Junk
    <3> QED BY <1>6, <1>7, <2>1, <3>1 DEF WriteCompressed
  <2> HIDE DEF s, masked
  <2>7. new = <<s>> /\ DOMAIN new = {1} /\ new[1] = s
    BY <1>6 DEF s
  <2>8. written = [i \in {1} |-> IF Secret(f) THEN EncryptData(masked, KeyOf(f, 0)) ELSE masked]
    <3>1. written = [i \in {1} |-> WriteCompressed(data, s, One(flags, mask, path))]
      BY <1>4, <2>7
    <3> QED BY <2>6, <3>1
  <2>9. written = <<IF Secret(f) THEN EncryptData(masked, KeyOf(f, 0)) ELSE masked>>
    BY <2>8
  <2> QED BY <2>3, <2>9
<1> DEFINE one == IF Secret(f) THEN EncryptData(masked, KeyOf(f, 0)) ELSE masked
<1>9. ASSUME size \in Nat, NEW V, masked \in Seq(V)
      PROVE  cells = one /\ f.blockSize = size
  <2>1. PICK W : one \in Seq(W)
    <3> HIDE DEF masked
    <3>1. \E W : EncryptData(masked, KeyOf(f, 0)) \in Seq(W)
      BY <1>9, EncryptedLength
    <3> QED BY <1>9, <3>1
  <2>2. written = <<one>> /\ f.blockSize = size
    BY <1>8, <1>9
  <2> HIDE DEF one
  <2>3. FlattenSeq(written) = one
    BY <2>1, <2>2, OneFlattened
  <2>4. cells = <<>> \o one
    BY <1>3, <1>6, <2>3
  <2>5. <<>> \o one = one
    BY <2>1, ConcatEmptySeq
  <2> QED BY <2>2, <2>4, <2>5
<1>10. ASSUME Plainly(f) PROVE \E T, ends : cells \in Seq(T) /\ Laid(f, cells, ends)
  <2>1. "IsCompressed" \notin flags /\ data = Data(1, n) /\ masked = bytes
    BY <1>3, <1>4, <1>10 DEF Plainly, Compress
  <2>2. data \in Seq(Cells) /\ Len(data) = n /\ Data(1, n) = data
    <3> HIDE DEF Cells
    <3> QED BY <1>2, <2>1, DataIsSeq
  <2>3. size \in Nat /\ size = n + plus /\ n \in Nat /\ size >= n
    BY <1>2, <2>2
  <2>4. \A j \in 1..n : data[j] = Plain(j)
    <3>1. data = [j \in 1..(n - 1 + 1) |-> Plain(1 + j - 1)]
      BY <2>1 DEF Data
    <3>2. n - 1 + 1 = n /\ \A j \in 1..n : 1 + j - 1 = j
      BY <1>2
    <3> QED BY <3>1, <3>2
  <2> DEFINE V == {data[j] : j \in 1..n} \cup {Junk}
             junk == Junk
  <2>5. \A j \in 1..n : data[j] \in V
    OBVIOUS
  <2>6. junk \in V
    OBVIOUS
  <2>7. bytes = [j \in 1..size |-> IF j <= n THEN data[j] ELSE junk]
    BY <2>2
  <2> HIDE DEF V, junk, bytes, size
  <2>8. /\ bytes \in Seq(V) /\ Len(bytes) = size
        /\ \A j \in 1..size : bytes[j] = IF j <= n THEN data[j] ELSE junk
    BY <1>2, <2>3, <2>5, <2>6, <2>7
  <2>9. cells = one /\ f.blockSize = size
    <3> HIDE DEF one, masked
    <3> QED BY <1>9, <2>1, <2>3, <2>8
  <2>10. CASE mask = {}
    <3>1. size = n
      BY <2>3, <2>10
    <3>2. bytes = data
      <4>1. \A j \in 1..n : bytes[j] = data[j]
        BY <2>8, <3>1
      <4> HIDE DEF Cells
      <4> QED BY <2>2, <2>8, <3>1, <4>1, SeqEqual
    <3>3. Secret(f) => f.dataSize < SectorSize + Word
      BY <1>3, <1>10 DEF WrittenByAddFile
    <3>4. f.dataSize \in Nat /\ f.fileSize = f.dataSize /\ f.blockSize = f.dataSize
      BY <1>2, <1>3, <1>6, <2>9, <3>1
    <3>5. cells = IF Secret(f) THEN EncryptData(Data(1, f.dataSize), KeyOf(f, 0))
                               ELSE Data(1, f.dataSize)
      BY <1>3, <2>1, <2>9, <3>2
    <3>6. f.blockSize \div SectorSize = f.dataSize \div SectorSize
      BY <3>4
    <3> QED BY <1>10, <3>3, <3>4, <3>5, <3>6, RunIsLaid
  <2>11. CASE mask # {}
    <3>1. f.chain # <<>>
      BY <1>2, <1>3, <2>11, UsedBothWays
    <3>2. ~Secret(f) /\ (f.dataSize + 1) % SectorSize # 0
      BY <1>3, <1>10, <3>1 DEF WrittenByAddFile
    <3>3. size = n + 1
      BY <2>3, <2>11
    <3>4. (n + 1) \div SectorSize = n \div SectorSize
      <4>1. (n + 1) % SectorSize # 0 /\ n \in Nat /\ SectorSize \in Nat \ {0}
        BY <1>2, <1>3, <3>2, SectorsAssumption
      <4> QED BY ONLY <4>1, OneLess
    <3>5. cells = bytes
      BY <2>1, <2>9, <3>2
    <3>6. \A j \in 1..n : j \in 1..size /\ j <= n
      BY <1>2, <3>3
    <3>7. \A j \in 1..n : cells[j] = Plain(j)
      BY <2>4, <2>8, <3>5, <3>6
    <3>8. n <= Len(cells)
      BY <2>3, <2>8, <3>5
    <3>9. PlainRun(f, cells)
      BY <1>2, <1>3, <1>6, <1>10, <2>9, <3>2, <3>3, <3>4, <3>7, <3>8 DEF PlainRun
    <3>10. cells \in Seq(V)
      BY <2>8, <3>5
    <3> QED BY <3>9, <3>10, PlainRunIsLaid
  <2> QED BY <2>10, <2>11
<1>11. ASSUME ~Plainly(f) PROVE \E T, ends : cells \in Seq(T) /\ Laid(f, cells, ends)
  <2>1. /\ "IsCompressed" \in flags /\ Len(f.chain) = 1
        /\ f.packed + 1 < n /\ f.packed > 0
        /\ Secret(f) => (f.packed + 2) % Word # 0
    BY <1>2, <1>3, <1>11 DEF WrittenByAddFile, Plainly
  <2>2. mask # {}
    <3> SUFFICES ASSUME mask = {} PROVE FALSE
      OBVIOUS
    <3>1. Len(data) = n
      <4>1. data = Data(1, n)
        BY <1>4 DEF Compress
      <4> QED BY <1>2, <4>1, DataIsSeq
    <3> QED BY <1>2, <1>3, <2>1, <3>1
  <2>3. mask # {"Imploded"}
    <3> SUFFICES ASSUME mask = {"Imploded"} PROVE FALSE
      OBVIOUS
    <3>1. data = <<>>
      BY <1>4, <2>1, <2>2 DEF Compress
    <3> QED BY <1>3, <2>1, <3>1
  <2>4. PICK a \in Algorithms : /\ InOrder(mask, WriteOrder) = <<a>>
                                /\ InOrder(mask, ReadOrder) = <<a>>
    BY <1>2, <1>3, <2>1, UsedBothWays
  <2>5. data = Packed(1, n, <<a>>, packed)
    <3>1. Last(<<a>>) = a
      BY DEF Last
    <3> QED BY <1>4, <2>1, <2>2, <2>3, <2>4, <3>1 DEF Compress
  <2> DEFINE V == {data[j] : j \in 1..packed} \cup {Junk, Mask(mask)}
             junk == Junk
             m == Mask(mask)
  <2>6. data = [j \in 1..packed |-> data[j]] /\ \A j \in 1..packed : data[j] \in V
    BY <2>5 DEF Packed
  <2>7. junk \in V /\ m \in V
    OBVIOUS
  <2> HIDE DEF V, junk, m
  <2>8. data \in Seq(V) /\ Len(data) = packed
    BY <1>2, <2>6
  <2>9. size = packed + 1 /\ size \in Nat
    BY <1>2, <2>2, <2>8
  <2>10. bytes = [j \in 1..packed + 1 |-> IF j <= packed THEN data[j] ELSE junk]
    BY <2>8, <2>9 DEF junk
  <2> DEFINE more == Append(data, junk)
  <2>11. /\ more \in Seq(V) /\ Len(more) = packed + 1
         /\ \A j \in 1..packed + 1 : more[j] = IF j <= packed THEN data[j] ELSE junk
    BY <1>2, <2>7, <2>8
  <2> HIDE DEF more, bytes, size
  <2>12. /\ bytes \in Seq(V) /\ Len(bytes) = packed + 1
         /\ \A j \in 1..packed + 1 : bytes[j] = IF j <= packed THEN data[j] ELSE junk
    BY <1>2, <2>6, <2>7, <2>10
  <2>13. bytes = more
    BY <2>11, <2>12, SeqEqual
  <2>14. masked = <<m>> \o more /\ masked \in Seq(V)
    <3>1. masked = <<m>> \o more
      BY <2>1, <2>13 DEF m
    <3>2. <<m>> \o more \in Seq(V)
      BY <2>7, <2>11
    <3> HIDE DEF masked
    <3> QED BY <3>1, <3>2
  <2>15. cells = one /\ f.blockSize = size
    <3> HIDE DEF one, masked
    <3> QED BY <1>9, <2>9, <2>14
  <2>16. masked = <<Mask(mask)>> \o Append(Packed(1, f.dataSize, <<a>>, packed), Junk)
    BY <1>3, <2>5, <2>14 DEF more, m, junk
  <2>17. /\ InOrder(mask, ReadOrder) = <<a>>
         /\ cells = IF Secret(f) THEN EncryptData(masked, KeyOf(f, 0)) ELSE masked
    BY <2>4, <2>15
  <2> HIDE DEF masked
  <2>18. \E algorithms :
           /\ InOrder(algorithms, ReadOrder) = <<a>>
           /\ LET run == Packed(1, f.dataSize, <<a>>, packed)
                  all == <<Mask(algorithms)>> \o Append(run, Junk)
              IN  cells = IF Secret(f) THEN EncryptData(all, KeyOf(f, 0)) ELSE all
    BY <2>16, <2>17
  <2>19. /\ f.dataSize \in Nat /\ f.fileSize = f.dataSize /\ "IsImploded" \notin f.flags
         /\ InOne(f) /\ f.blockSize = packed + 1 /\ packed + 1 < f.dataSize
         /\ Secret(f) => (packed + 2) % Word # 0
    BY <1>2, <1>3, <1>5, <1>6, <1>11, <2>1, <2>8, <2>9, <2>15 DEF InOne
  <2>20. OneSector(f, a, packed, cells)
    BY <2>18, <2>19 DEF OneSector
  <2> QED BY <1>2, <2>20, OneSectorIsLaid
<1>12. \E T, ends : cells \in Seq(T) /\ Laid(f, cells, ends)
  BY <1>10, <1>11
<1> QED BY <1>12 DEF f, cells

(* A new file is laid out, and nobody reads it yet.                        *)
LEMMA Stores ==
    ASSUME NEW T, NEW full \in Seq(T), NEW ends, stored' = full, Laid(file', full, ends),
           pc' = "stored"
    PROVE  Reads(T, full, ends)'
<1>1. SubSeq(full, 1, Len(full)) = full
  <2>1. Len(full) \in Nat /\ \A j \in 1..Len(full) : full[j] \in T
    OBVIOUS
  <2>2. /\ SubSeq(full, 1, Len(full)) \in Seq(T) /\ Len(SubSeq(full, 1, Len(full))) = Len(full)
        /\ \A j \in 1..Len(full) : SubSeq(full, 1, Len(full))[j] = full[j]
    BY <2>1, SubSeqProperties
  <2> QED BY <2>1, <2>2, SeqEqual
<1>2. IsBeginning(stored, full)'
  BY <1>1 DEF IsBeginning
<1>3. Progress(ends)'
  BY DEF Progress
<1> QED BY <1>2, <1>3 DEF Reads

(* What is left when the archive loses its end is still the beginning.     *)
LEMMA Loses ==
    ASSUME NEW T, NEW full, NEW ends, Reads(T, full, ends), Lose
    PROVE  Reads(T, full, ends)'
<1>1. PICK size \in 0..(Len(stored) - 1) : stored' = SubSeq(stored, 1, size)
  BY DEF Lose
<1>2. pc' = "stored" /\ lost' /\ file' = file /\ stored = full /\ full \in Seq(T)
  BY DEF Lose, Reads, IsBeginning
<1>3. size \in Nat /\ size <= Len(full) /\ Len(full) \in Nat
  BY <1>1, <1>2
<1>4. \A j \in 1..size : full[j] \in T
  BY <1>2, <1>3
<1>5. stored' \in Seq(T) /\ Len(stored') = size /\ stored' = SubSeq(full, 1, size)
  BY <1>1, <1>2, <1>3, <1>4, SubSeqProperties
<1>6. IsBeginning(stored, full)'
  BY <1>2, <1>3, <1>5 DEF IsBeginning
<1>7. Progress(ends)'
  BY <1>2 DEF Progress
<1>8. Laid(file', full, ends)
  BY <1>2 DEF Reads
<1> QED BY <1>2, <1>5, <1>6, <1>7, <1>8 DEF Reads

(* Any other step leaves the file what it is.                              *)
Handles ==
    \/ Lose \/ OpenWithoutPath \/ OpenPlain \/ OpenSingleUnit \/ OpenTable
    \/ Sectors \/ Decompress

(* Each of them goes on reading what was laid out.                         *)
LEMMA HandlesKeeps ==
    ASSUME NEW T, NEW full, NEW ends, Reads(T, full, ends), Handles
    PROVE  Reads(T, full, ends)'
<1>1. CASE Lose
  BY <1>1, Loses
<1>2. CASE OpenWithoutPath
  BY <1>2, StillReads DEF OpenWithoutPath, Open
<1>3. CASE OpenPlain
  BY <1>3, OpensPlain
<1>4. CASE OpenSingleUnit
  BY <1>4, OpensSingleUnit
<1>5. CASE OpenTable
  BY <1>5, OpensTable
<1>6. CASE Sectors
  BY <1>6, ListsPlain, ListsRest, ListsFromTable, ListsAll DEF Sectors
<1>7. CASE Decompress
  BY <1>7, ReadsEmpty, ReadsThrow, ReadsSector, Finishes DEF Decompress
<1> QED BY <1>1, <1>2, <1>3, <1>4, <1>5, <1>6, <1>7 DEF Handles

(* None of them happens to a file nobody has written.                      *)
LEMMA HandlesOpened ==
    ASSUME ReadInv, Handles
    PROVE  /\ file' = file /\ pc # "closed"
           /\ pc' \in {"stored", "listing", "reading", "done", "threw"}
           /\ pc' = "stored" => out' = <<>>
<1>1. CASE Lose
  BY <1>1 DEF Lose, reader, ReadInv
<1>2. CASE OpenWithoutPath
  BY <1>2 DEF OpenWithoutPath, Open
<1>3. CASE OpenPlain
  BY <1>3 DEF OpenPlain, Open
<1>4. CASE OpenSingleUnit
  BY <1>4 DEF OpenSingleUnit, Open
<1>5. CASE OpenTable
  BY <1>5 DEF OpenTable, Open
<1>6. CASE Sectors
  BY <1>6 DEF Sectors, ListPlain, ListRest, ListFromTable, ListEnd
<1>7. CASE Decompress
  BY <1>7 DEF Decompress, ReadEmpty, ReadThrows, ReadSector, Finish, Deliver, Throw, Reading
<1> QED BY <1>1, <1>2, <1>3, <1>4, <1>5, <1>6, <1>7 DEF Handles

(* The invariant holds of every behaviour.                                 *)
LEMMA ReadInvHolds == Spec => []ReadInv
<1>1. Init => ReadInv
  BY DEF Init, ReadInv
<1>2. ReadInv /\ [Next]_vars => ReadInv'
  <2> SUFFICES ASSUME ReadInv, [Next]_vars PROVE ReadInv'
    OBVIOUS
  <2>1. CASE Handles
    <3>1. /\ file' = file /\ pc # "closed"
          /\ pc' \in {"stored", "listing", "reading", "done", "threw"}
          /\ pc' = "stored" => out' = <<>>
      BY <2>1, HandlesOpened
    <3>2. ASSUME Readable(file) PROVE (\E T, full, ends : Reads(T, full, ends))'
      <4>1. PICK T, full, ends : Reads(T, full, ends)
        BY <3>1, <3>2 DEF ReadInv
      <4>2. Reads(T, full, ends)'
        BY <2>1, <4>1, HandlesKeeps
      <4> QED BY <4>2
    <3> QED BY <3>1, <3>2 DEF ReadInv
  <2>2. CASE AddFile \/ Author
    <3>1. pc = "closed" /\ pc' = "stored" /\ out' = out
      BY <2>2 DEF AddFile, Author, reader
    <3>2. ASSUME Readable(file') PROVE (\E T, full, ends : Reads(T, full, ends))'
      <4>1. PICK T, ends : stored' \in Seq(T) /\ Laid(file', stored', ends)
        <5>1. CASE AddFile
          <6>1. file'.own
            BY <5>1 DEF AddFile
          <6>2. WrittenByAddFile(file')
            BY <3>2, <6>1 DEF Readable, WrittenByOthers
          <6> QED BY <5>1, <6>2, AddFileLays
        <5>2. CASE Author
          <6>1. ~file'.own
            BY <5>2 DEF Author
          <6>2. WrittenByOthers(file')
            BY <3>2, <6>1 DEF Readable, WrittenByAddFile
          <6> QED BY <5>2, <6>2, AuthorLays
        <5> QED BY <2>2, <5>1, <5>2
      <4>2. \A full : full = stored' => Reads(T, full, ends)'
        BY <3>1, <4>1, Stores
      <4> QED BY <4>2
    <3>3. out' = <<>>
      BY <3>1 DEF ReadInv
    <3> QED BY <3>1, <3>2, <3>3 DEF ReadInv
  <2>3. CASE UNCHANGED vars
    <3>1. UNCHANGED <<pc, file, stored, lost, known, offsets, sectors, newOffset, remaining,
                      next, out>>
      BY <2>3 DEF vars, reader
    <3>2. \A T, full, ends : Reads(T, full, ends) => Reads(T, full, ends)'
      <4> SUFFICES ASSUME NEW T, NEW full, NEW ends, Reads(T, full, ends)
                   PROVE  Reads(T, full, ends)'
        OBVIOUS
      <4>1. Progress(ends) => Progress(ends)'
        BY <3>1 DEF Progress, Listing
      <4> QED BY <3>1, <4>1, StillReads DEF Reads
    <3> QED BY <3>1, <3>2 DEF ReadInv
  <2> QED BY <2>1, <2>2, <2>3 DEF Next, Handles
<1> QED BY <1>1, <1>2, PTL DEF Spec

(* What another program wrote, if it is not of the exceptions, is read:    *)
(* decompress() delivers the data from its beginning on at every moment,   *)
(* all of it when it returns, and throws only when the archive lost its    *)
(* end, for every size of sectors, words and files.                        *)
THEOREM AuthoredReads == Spec => []AuthoredIsRead
<1>1. ReadInv => AuthoredIsRead
  BY ReadInvSuffices
<1> QED BY <1>1, ReadInvHolds, PTL

(* What addFile() wrote well, decompress() reads back without throwing.    *)
THEOREM OwnReads == Spec => []OwnReadsBack
<1>1. ReadInv => OwnReadsBack
  BY ReadInvSuffices
<1> QED BY <1>1, ReadInvHolds, PTL

=============================================================================
