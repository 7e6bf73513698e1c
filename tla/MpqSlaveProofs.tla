--------------------------- MODULE MpqSlaveProofs ---------------------------
(***************************************************************************)
(* Proofs about MpqSlave: the file of a session is a file of the archive   *)
(* that is open and is read from where seek() has led, the times are those *)
(* of the archive, the data is of the file that was asked for, and the     *)
(* root is listed, for all archives, URLs and positions.                   *)
(***************************************************************************)
EXTENDS MpqSlave, SequenceTheorems, FoldLemmas, TLAPS

-----------------------------------------------------------------------------
(***************************************************************************)
(* The loops of Listfile: what they leave, for every list.                 *)
(***************************************************************************)
(* One round of the loops.                                                 *)
Push(result, ref, chosen) == IF ref \in chosen THEN Append(result, ref) ELSE result
PushNew(done, dir) == IF dir \in ToSet(done) THEN done ELSE Append(done, dir)
PushStages(h, s, T, chosen) ==
    /\ h \in [0 .. Len(s) -> Seq(T)] /\ h[0] = <<>>
    /\ \A k \in 1 .. Len(s) : h[k] = Push(h[k - 1], s[k], chosen)
    /\ h[Len(s)] = Those(s, chosen)
PushNewStages(h, s, T) ==
    /\ h \in [0 .. Len(s) -> Seq(T)] /\ h[0] = <<>>
    /\ \A k \in 1 .. Len(s) : h[k] = PushNew(h[k - 1], s[k])
    /\ h[Len(s)] = EachOnce(s)

(* What push_back() does.                                                  *)
LEMMA AppendMembers ==
    ASSUME NEW T, NEW a \in Seq(T), NEW x \in T
    PROVE  /\ Append(a, x) \in Seq(T) /\ Len(Append(a, x)) = Len(a) + 1
           /\ ToSet(Append(a, x)) = ToSet(a) \union {x}
           /\ \A i \in 1 .. Len(a) + 1 : Append(a, x)[i] = IF i <= Len(a) THEN a[i] ELSE x
<1> DEFINE b == Append(a, x)
<1>1. /\ b \in Seq(T) /\ Len(b) = Len(a) + 1 /\ Len(a) \in Nat
      /\ \A i \in 1 .. Len(a) : b[i] = a[i]
      /\ b[Len(a) + 1] = x
  OBVIOUS
<1>2. DOMAIN a = 1 .. Len(a) /\ DOMAIN b = 1 .. Len(a) + 1
  BY <1>1
<1> HIDE DEF b
<1>3. ToSet(b) = ToSet(a) \union {x}
  BY <1>1, <1>2 DEF ToSet
<1> QED
  BY <1>1, <1>3 DEF b

(* The loop over entries has such rounds.                                  *)
LEMMA ThoseStages ==
    ASSUME NEW T, NEW s \in Seq(T), NEW chosen
    PROVE  \E h : PushStages(h, s, T, chosen)
<1> DEFINE D == DOMAIN s
           X == Seq(T)
           step == [p \in X \X T |-> Push(p[1], p[2], chosen)]
           Fold(it) == [x \in SUBSET D |->
                IF x = {} THEN <<>> ELSE Push(it[x \ {Max(x)}], s[Max(x)], chosen)]
<1>1. step \in [X \X T -> X]
  BY DEF Push
<1>2. \A x \in X, i \in T : step[<<x, i>>] = Push(x, i, chosen)
  OBVIOUS
<1>3. <<>> \in X /\ \A k \in D : s[k] \in T
  OBVIOUS
<1> HIDE DEF X, step, D, Fold
<1>g. PICK g : SeqFold(g, s, X, T, <<>>, step)
  BY <1>1, <1>3, SeqFoldExists
<1>4. /\ g \in [SUBSET D -> X]
      /\ g[{}] = <<>>
      /\ \A S \in SUBSET D : S # {} =>
           /\ Max(S) \in D /\ s[Max(S)] \in T /\ g[S \ {Max(S)}] \in X
           /\ g[S] = step[<<g[S \ {Max(S)}], s[Max(S)]>>]
  BY <1>g DEF SeqFold, D
<1> USE DEF Fold
<1>5. g = Fold(g)
  <2>1. \A S \in SUBSET D : S # {} => g[S] = Push(g[S \ {Max(S)}], s[Max(S)], chosen)
    BY <1>2, <1>4
  <2> QED
    BY <1>4, <2>1
<1> DEFINE c == CHOOSE it : it = Fold(it)
<1>6. c = Fold(c)
  BY <1>5
<1>7. Those(s, chosen) = c[D]
  BY Zenon DEF Those, FoldLeft, MapThenFoldSet, Push, D
<1> HIDE DEF c
<1>8. FoldsSeq(c, s, X, <<>>, step)
  <2>1. c[{}] = <<>>
    BY <1>6
  <2>2. ASSUME NEW S \in SUBSET D, S # {}, c[S \ {Max(S)}] \in X
        PROVE  c[S] = step[<<c[S \ {Max(S)}], s[Max(S)]>>]
    <3>1. c[S] = Push(c[S \ {Max(S)}], s[Max(S)], chosen)
      BY <1>6, <2>2
    <3>2. s[Max(S)] \in T
      BY <1>4, <2>2
    <3> QED
      BY <1>2, <2>2, <3>1, <3>2
  <2> QED
    BY <2>1, <2>2 DEF FoldsSeq, D
<1> HIDE DEF Fold
<1>h. PICK h : StagesOf(c, h, s, X, <<>>, step)
  BY <1>1, <1>3, <1>8, SeqFoldStages
<1>9. Stages(h, s, X, <<>>, step) /\ h[Len(s)] = c[DOMAIN s]
  BY <1>h DEF StagesOf
<1>10. \A k \in 1 .. Len(s) : h[k - 1] \in X /\ s[k] \in T
  <2>1. Len(s) \in Nat /\ D = 1 .. Len(s)
    BY DEF D
  <2>2. h \in [0 .. Len(s) -> X]
    BY <1>9 DEF Stages
  <2>3. \A k \in 1 .. Len(s) : k - 1 \in 0 .. Len(s)
    BY <2>1
  <2> QED
    BY <1>3, <2>1, <2>2, <2>3
<1>11. PushStages(h, s, T, chosen)
  BY <1>2, <1>7, <1>9, <1>10 DEF Stages, PushStages, X, D
<1> QED
  BY <1>11

(* It has kept those that are chosen.                                      *)
LEMMA ThoseProperties ==
    ASSUME NEW T, NEW s \in Seq(T), NEW chosen
    PROVE  /\ Those(s, chosen) \in Seq(T)
           /\ ToSet(Those(s, chosen)) = ToSet(s) \cap chosen
<1> DEFINE n == Len(s)
           Seen(k) == {s[i] : i \in 1 .. k}
<1>1. n \in Nat /\ DOMAIN s = 1 .. n /\ \A k \in 1 .. n : s[k] \in T
  OBVIOUS
<1>2. PICK h : PushStages(h, s, T, chosen)
  BY ThoseStages
<1> DEFINE Good == {k \in 0 .. n : ToSet(h[k]) = Seen(k) \cap chosen}
<1>3. 0 \in Good
  BY <1>1, <1>2 DEF PushStages, ToSet
<1>4. \A k \in 0 .. n - 1 : k \in Good => k + 1 \in Good
  <2> SUFFICES ASSUME NEW k \in 0 .. n - 1, ToSet(h[k]) = Seen(k) \cap chosen
               PROVE  k + 1 \in 0 .. n /\ ToSet(h[k + 1]) = Seen(k + 1) \cap chosen
    OBVIOUS
  <2>1. k \in 0 .. n /\ k + 1 \in 0 .. n /\ k + 1 \in 1 .. n /\ (k + 1) - 1 = k
    BY <1>1
  <2>2. h[k] \in Seq(T) /\ h[k + 1] = Push(h[k], s[k + 1], chosen) /\ s[k + 1] \in T
    BY <1>1, <1>2, <2>1 DEF PushStages
  <2>3. Seen(k + 1) = Seen(k) \union {s[k + 1]}
    BY <2>1
  <2> HIDE DEF Seen
  <2>4. CASE s[k + 1] \in chosen
    <3>1. ToSet(h[k + 1]) = ToSet(h[k]) \union {s[k + 1]}
      BY <2>2, <2>4, AppendMembers DEF Push
    <3> QED
      BY <2>1, <2>3, <2>4, <3>1
  <2>5. CASE s[k + 1] \notin chosen
    BY <2>1, <2>2, <2>3, <2>5 DEF Push
  <2> QED
    BY <2>4, <2>5
<1> HIDE DEF Good
<1>5. \A k \in 0 .. n : k \in Good
  BY <1>1, <1>3, <1>4, InductionTo
<1>6. ToSet(h[n]) = Seen(n) \cap chosen
  <2>1. n \in Good
    BY <1>1, <1>5
  <2> HIDE DEF n, Seen
  <2> QED
    BY <2>1 DEF Good
<1>7. Seen(n) = ToSet(s)
  BY <1>1 DEF ToSet
<1>8. h[n] = Those(s, chosen) /\ h[n] \in Seq(T)
  BY <1>1, <1>2 DEF PushStages
<1> QED
  BY <1>6, <1>7, <1>8

(* So has the loop that leaves out what is done.                           *)
LEMMA EachOnceStages ==
    ASSUME NEW T, NEW s \in Seq(T)
    PROVE  \E h : PushNewStages(h, s, T)
<1> DEFINE D == DOMAIN s
           X == Seq(T)
           step == [p \in X \X T |-> PushNew(p[1], p[2])]
           Fold(it) == [x \in SUBSET D |->
                IF x = {} THEN <<>> ELSE PushNew(it[x \ {Max(x)}], s[Max(x)])]
<1>1. step \in [X \X T -> X]
  BY AppendMembers DEF PushNew
<1>2. \A x \in X, i \in T : step[<<x, i>>] = PushNew(x, i)
  OBVIOUS
<1>3. <<>> \in X /\ \A k \in D : s[k] \in T
  OBVIOUS
<1> HIDE DEF X, step, D, Fold
<1>g. PICK g : SeqFold(g, s, X, T, <<>>, step)
  BY <1>1, <1>3, SeqFoldExists
<1>4. /\ g \in [SUBSET D -> X]
      /\ g[{}] = <<>>
      /\ \A S \in SUBSET D : S # {} =>
           /\ Max(S) \in D /\ s[Max(S)] \in T /\ g[S \ {Max(S)}] \in X
           /\ g[S] = step[<<g[S \ {Max(S)}], s[Max(S)]>>]
  BY <1>g DEF SeqFold, D
<1> USE DEF Fold
<1>5. g = Fold(g)
  <2>1. \A S \in SUBSET D : S # {} => g[S] = PushNew(g[S \ {Max(S)}], s[Max(S)])
    BY <1>2, <1>4
  <2> QED
    BY <1>4, <2>1
<1> DEFINE c == CHOOSE it : it = Fold(it)
<1>6. c = Fold(c)
  BY <1>5
<1>7. EachOnce(s) = c[D]
  BY Zenon DEF EachOnce, FoldLeft, MapThenFoldSet, PushNew, D
<1> HIDE DEF c
<1>8. FoldsSeq(c, s, X, <<>>, step)
  <2>1. c[{}] = <<>>
    BY <1>6
  <2>2. ASSUME NEW S \in SUBSET D, S # {}, c[S \ {Max(S)}] \in X
        PROVE  c[S] = step[<<c[S \ {Max(S)}], s[Max(S)]>>]
    <3>1. c[S] = PushNew(c[S \ {Max(S)}], s[Max(S)])
      BY <1>6, <2>2
    <3>2. s[Max(S)] \in T
      BY <1>4, <2>2
    <3> QED
      BY <1>2, <2>2, <3>1, <3>2
  <2> QED
    BY <2>1, <2>2 DEF FoldsSeq, D
<1> HIDE DEF Fold
<1>h. PICK h : StagesOf(c, h, s, X, <<>>, step)
  BY <1>1, <1>3, <1>8, SeqFoldStages
<1>9. Stages(h, s, X, <<>>, step) /\ h[Len(s)] = c[DOMAIN s]
  BY <1>h DEF StagesOf
<1>10. \A k \in 1 .. Len(s) : h[k - 1] \in X /\ s[k] \in T
  <2>1. Len(s) \in Nat /\ D = 1 .. Len(s)
    BY DEF D
  <2>2. h \in [0 .. Len(s) -> X]
    BY <1>9 DEF Stages
  <2>3. \A k \in 1 .. Len(s) : k - 1 \in 0 .. Len(s)
    BY <2>1
  <2> QED
    BY <1>3, <2>1, <2>2, <2>3
<1>11. PushNewStages(h, s, T)
  BY <1>2, <1>7, <1>9, <1>10 DEF Stages, PushNewStages, X, D
<1> QED
  BY <1>11

(* It has kept each once.                                                  *)
Unlike(s) == \A i, j \in DOMAIN s : i # j => s[i] # s[j]
LEMMA PushNewUnlike ==
    ASSUME NEW T, NEW a \in Seq(T), NEW x \in T, Unlike(a)
    PROVE  /\ Unlike(PushNew(a, x)) /\ PushNew(a, x) \in Seq(T)
           /\ ToSet(PushNew(a, x)) = ToSet(a) \union {x}
<1>1. CASE x \in ToSet(a)
  BY <1>1 DEF PushNew
<1>2. CASE x \notin ToSet(a)
  <2> DEFINE b == Append(a, x)
  <2>1. PushNew(a, x) = b
    BY <1>2 DEF PushNew
  <2>2. /\ b \in Seq(T) /\ Len(b) = Len(a) + 1 /\ ToSet(b) = ToSet(a) \union {x}
        /\ \A i \in 1 .. Len(a) + 1 : b[i] = IF i <= Len(a) THEN a[i] ELSE x
    BY AppendMembers
  <2>3. \A i \in 1 .. Len(a) : a[i] # x
    BY <1>2 DEF ToSet
  <2>4. Len(a) \in Nat /\ DOMAIN a = 1 .. Len(a)
    OBVIOUS
  <2> HIDE DEF b
  <2>5. DOMAIN b = 1 .. Len(a) + 1
    BY <2>2
  <2>6. Unlike(b)
    BY <2>2, <2>3, <2>4, <2>5 DEF Unlike
  <2> QED
    BY <2>1, <2>2, <2>6
<1> QED
  BY <1>1, <1>2

(* Once is enough: the list without repetitions has the members of the     *)
(* list and no two alike.                                                  *)
LEMMA EachOnceProperties ==
    ASSUME NEW T, NEW s \in Seq(T)
    PROVE  /\ EachOnce(s) \in Seq(T) /\ Unlike(EachOnce(s))
           /\ ToSet(EachOnce(s)) = ToSet(s)
<1> DEFINE n == Len(s)
           Seen(k) == {s[i] : i \in 1 .. k}
<1>1. n \in Nat /\ DOMAIN s = 1 .. n /\ \A k \in 1 .. n : s[k] \in T
  OBVIOUS
<1>2. PICK h : PushNewStages(h, s, T)
  BY EachOnceStages
<1> DEFINE Good == {k \in 0 .. n : ToSet(h[k]) = Seen(k) /\ Unlike(h[k])}
<1>3. 0 \in Good
  BY <1>1, <1>2 DEF PushNewStages, ToSet, Unlike
<1>4. \A k \in 0 .. n - 1 : k \in Good => k + 1 \in Good
  <2> SUFFICES ASSUME NEW k \in 0 .. n - 1, ToSet(h[k]) = Seen(k), Unlike(h[k])
               PROVE  k + 1 \in 0 .. n /\ ToSet(h[k + 1]) = Seen(k + 1) /\ Unlike(h[k + 1])
    OBVIOUS
  <2>1. k \in 0 .. n /\ k + 1 \in 0 .. n /\ k + 1 \in 1 .. n /\ (k + 1) - 1 = k
    BY <1>1
  <2>2. h[k] \in Seq(T) /\ h[k + 1] = PushNew(h[k], s[k + 1]) /\ s[k + 1] \in T
    BY <1>1, <1>2, <2>1 DEF PushNewStages
  <2>3. Seen(k + 1) = Seen(k) \union {s[k + 1]}
    BY <2>1
  <2> HIDE DEF Seen, Good
  <2> DEFINE a == h[k]
             x == s[k + 1]
  <2>a. a \in Seq(T) /\ x \in T /\ Unlike(a) /\ h[k + 1] = PushNew(a, x)
    BY <2>2
  <2> HIDE DEF a, x
  <2>b. Unlike(PushNew(a, x)) /\ ToSet(PushNew(a, x)) = ToSet(a) \union {x}
    BY <2>a, PushNewUnlike
  <2>4. Unlike(h[k + 1]) /\ ToSet(h[k + 1]) = ToSet(h[k]) \union {s[k + 1]}
    BY <2>a, <2>b DEF a, x
  <2> QED
    BY <2>1, <2>3, <2>4
<1> HIDE DEF Good
<1>5. \A k \in 0 .. n : k \in Good
  BY <1>1, <1>3, <1>4, InductionTo
<1>6. ToSet(h[n]) = Seen(n) /\ Unlike(h[n])
  <2>1. n \in Good
    BY <1>1, <1>5
  <2> HIDE DEF Seen, n
  <2> QED
    BY <2>1 DEF Good
<1>7. Seen(n) = ToSet(s)
  BY <1>1 DEF ToSet
<1>8. h[n] = EachOnce(s) /\ h[n] \in Seq(T)
  BY <1>1, <1>2 DEF PushNewStages
<1> QED
  BY <1>6, <1>7, <1>8


(* A concatenation has the members of both.                                *)
LEMMA ConcatMembers ==
    ASSUME NEW T, NEW a \in Seq(T), NEW b \in Seq(T)
    PROVE  /\ a \o b \in Seq(T) /\ <<>> \in Seq(T) /\ <<>> \o a = a
           /\ ToSet(a \o b) = ToSet(a) \union ToSet(b)
<1> DEFINE c == a \o b
<1>1. /\ c \in Seq(T) /\ Len(c) = Len(a) + Len(b) /\ Len(a) \in Nat /\ Len(b) \in Nat
      /\ \A i \in 1 .. Len(a) + Len(b) : c[i] = IF i <= Len(a) THEN a[i] ELSE b[i - Len(a)]
  BY ConcatProperties
<1>2. /\ DOMAIN c = 1 .. Len(a) + Len(b) /\ DOMAIN a = 1 .. Len(a) /\ DOMAIN b = 1 .. Len(b)
  BY <1>1
<1>3. <<>> \in Seq(T) /\ <<>> \o a = a
  OBVIOUS
<1> HIDE DEF c
<1>4. \A i \in 1 .. Len(a) : i \in DOMAIN c /\ c[i] = a[i]
  BY <1>1, <1>2
<1>5. \A i \in 1 .. Len(b) : Len(a) + i \in DOMAIN c /\ c[Len(a) + i] = b[i]
  BY <1>1, <1>2
<1>6. \A i \in DOMAIN c : \/ (i \in 1 .. Len(a) /\ c[i] = a[i])
                         \/ (i - Len(a) \in 1 .. Len(b) /\ c[i] = b[i - Len(a)])
  BY <1>1, <1>2
<1>7. ToSet(c) = ToSet(a) \union ToSet(b)
  <2>1. \A i \in DOMAIN a : c[i] \in ToSet(c) /\ a[i] = c[i]
    BY <1>2, <1>4 DEF ToSet
  <2>2. \A i \in DOMAIN b : b[i] \in ToSet(c)
    BY <1>2, <1>5 DEF ToSet
  <2>3. \A i \in DOMAIN c : c[i] \in ToSet(a) \/ c[i] \in ToSet(b)
    BY <1>2, <1>6 DEF ToSet
  <2> QED
    BY <2>1, <2>2, <2>3 DEF ToSet
<1> QED
  BY <1>1, <1>3, <1>7 DEF c

(* All that is in one of the sequences is in the flat one.                 *)
LEMMA FlattenMembers ==
    ASSUME NEW T, NEW s \in Seq(Seq(T)), NEW m \in DOMAIN s
    PROVE  FlattenSeq(s) \in Seq(T) /\ ToSet(s[m]) \subseteq ToSet(FlattenSeq(s))
<1> DEFINE n == Len(s)
           X == Seq(T)
           step == [p \in X \X X |-> p[1] \o p[2]]
           Flat(it) == [i \in 1 .. n |-> IF i = 1 THEN s[i] ELSE it[i - 1] \o s[i]]
<1>1. n \in Nat /\ DOMAIN s = 1 .. n /\ m \in 1 .. n /\ \A k \in 1 .. n : s[k] \in X
  OBVIOUS
<1>3. <<>> \in X /\ \A x, y \in X : x \o y \in X /\ <<>> \o x = x
  BY ConcatMembers
<1>2. step \in [X \X X -> X] /\ \A x, y \in X : step[<<x, y>>] = x \o y
  <2> HIDE DEF X
  <2> QED
    BY <1>3
<1> HIDE DEF X, step, Flat
<1>4. s \in Seq(X)
  BY DEF X
<1>5. PICK g : SeqFold(g, s, X, X, <<>>, step)
  BY <1>2, <1>3, <1>4, SeqFoldExists
<1>6. FoldsSeq(g, s, X, <<>>, step)
  BY <1>5 DEF SeqFold, FoldsSeq
<1>7. PICK h : StagesOf(g, h, s, X, <<>>, step)
  BY <1>2, <1>3, <1>4, <1>6, SeqFoldStages
<1>8. /\ h \in [0 .. n -> X] /\ h[0] = <<>>
      /\ \A k \in 1 .. n : h[k] = step[<<h[k - 1], s[k]>>]
  BY <1>7 DEF StagesOf, Stages
<1>9. \A k \in 1 .. n : k - 1 \in 0 .. n /\ k \in 0 .. n /\ (k # 1 => k - 1 \in 1 .. n)
  BY <1>1
<1>10. \A k \in 1 .. n : h[k] = IF k = 1 THEN s[k] ELSE h[k - 1] \o s[k]
  <2> SUFFICES ASSUME NEW k \in 1 .. n
               PROVE  h[k] = IF k = 1 THEN s[k] ELSE h[k - 1] \o s[k]
    OBVIOUS
  <2>1. h[k - 1] \in X /\ s[k] \in X
    BY <1>1, <1>8, <1>9
  <2>2. h[k] = h[k - 1] \o s[k]
    BY <1>2, <1>8, <2>1
  <2>3. k = 1 => h[k - 1] = <<>>
    BY <1>8
  <2> QED
    BY <1>3, <2>1, <2>2, <2>3
<1> DEFINE f == [k \in 1 .. n |-> h[k]]
<1>11. f = Flat(f)
  BY <1>9, <1>10 DEF Flat
<1> HIDE DEF f
<1> DEFINE c == CHOOSE it : it = Flat(it)
<1>12. c = Flat(c)
  BY <1>11
<1>13. FlattenSeq(s) = c[n]
  <2>1. n # 0
    BY <1>1
  <2> QED
    BY <2>1, Zenon DEF FlattenSeq, Flat
<1> HIDE DEF c
<1>14. \A k \in 1 .. n : c[k] = IF k = 1 THEN s[k] ELSE c[k - 1] \o s[k]
  BY <1>12 DEF Flat
<1> DEFINE Good == {k \in 0 .. n :
                k > 0 => c[k] \in X /\ \A i \in 1 .. k : ToSet(s[i]) \subseteq ToSet(c[k])}
<1>15. 0 \in Good
  BY <1>1
<1>16. \A k \in 0 .. n - 1 : k \in Good => k + 1 \in Good
  <2> SUFFICES ASSUME NEW k \in 0 .. n - 1,
                      k > 0 => c[k] \in X /\ \A i \in 1 .. k : ToSet(s[i]) \subseteq ToSet(c[k])
               PROVE  /\ k + 1 \in 0 .. n /\ c[k + 1] \in X
                      /\ \A i \in 1 .. k + 1 : ToSet(s[i]) \subseteq ToSet(c[k + 1])
    OBVIOUS
  <2> HIDE DEF Good
  <2>1. k + 1 \in 0 .. n /\ k + 1 \in 1 .. n /\ (k + 1) - 1 = k /\ k \in Nat
    BY <1>1
  <2>2. s[k + 1] \in X
    BY <1>1, <2>1
  <2>3. CASE k = 0
    <3>1. c[k + 1] = s[k + 1]
      BY <1>14, <2>1, <2>3
    <3>2. \A i \in 1 .. k + 1 : i = k + 1
      BY <2>1, <2>3
    <3> QED
      BY <2>1, <2>2, <3>1, <3>2
  <2>4. CASE k > 0
    <3> DEFINE a == c[k]
               b == s[k + 1]
    <3>1. a \in X /\ b \in X /\ c[k + 1] = a \o b
      <4>1. c[k + 1] = IF k + 1 = 1 THEN s[k + 1] ELSE c[(k + 1) - 1] \o s[k + 1]
        BY <1>14, <2>1
      <4>2. k + 1 # 1 /\ (k + 1) - 1 = k
        BY <2>1, <2>4
      <4> QED
        BY <2>2, <2>4, <4>1, <4>2
    <3> HIDE DEF a, b
    <3>2. a \o b \in X /\ ToSet(a) \subseteq ToSet(a \o b) /\ ToSet(b) \subseteq ToSet(a \o b)
      BY <3>1, ConcatMembers DEF X
    <3>3. \A i \in 1 .. k + 1 : i \in 1 .. k \/ i = k + 1
      BY <2>1
    <3> QED
      BY <2>1, <2>4, <3>1, <3>2, <3>3 DEF a, b
  <2> QED
    BY <2>1, <2>3, <2>4
<1> HIDE DEF Good
<1>17. n \in Good
  <2>1. \A k \in 0 .. n : k \in Good
    BY <1>1, <1>15, <1>16, InductionTo
  <2> QED
    BY <1>1, <2>1
<1>18. c[n] \in X /\ ToSet(s[m]) \subseteq ToSet(c[n])
  BY <1>1, <1>17 DEF Good
<1> QED
  BY <1>13, <1>18 DEF X

-----------------------------------------------------------------------------
(* A file that is found is one of the archive, with the path it is looked  *)
(* for by.                                                                 *)
LEMMA FoundIsFile ==
    ASSUME NEW content \in Contents, NEW upper, FindFile(content, upper) # 0
    PROVE  /\ FindFile(content, upper) \in DOMAIN content.files
           /\ content.files[FindFile(content, upper)].upper = upper
<1> DEFINE found == {i \in DOMAIN content.files : content.files[i].upper = upper}
<1>1. found # {} /\ FindFile(content, upper) \in found
  BY DEF FindFile
<1> QED BY <1>1

(* An archive is told apart from what is no archive.                       *)
LEMMA ContentsAreNoMarks ==
    Missing \notin Contents /\ Broken \notin Contents
<1>1. \A c \in Contents : c = [files |-> c.files, listed |-> c.listed, times |-> c.times, cut |-> c.cut]
  BY SlaveAssumption
<1>2. \A c \in Contents : DOMAIN c = {"files", "listed", "times", "cut"}
  BY <1>1
<1>3. DOMAIN Missing = {"kind"} /\ DOMAIN Broken = {"kind"}
  BY DEF Missing, Broken
<1> QED BY <1>2, <1>3

-----------------------------------------------------------------------------
(* The inductive invariant: what is open has the name of the command that  *)
(* uses it, in a session it does not change, and the position is the sum   *)
(* of what seek() was called with unless a session was dropped.            *)
DiskInv == disk \in [Archives -> Contents \union {Missing, Broken}]
ArchiveInv ==
    /\ request.url \in Urls
    /\ archive # NoArchive =>
         /\ archive.id \in {1, 2}
         /\ archive.of = archiveName /\ archive.of \in Archives
         /\ archive.content \in Contents
    /\ pc = "opened" => archive # NoArchive /\ archive.of = Url.archive
SessionInv ==
    /\ opened => /\ pc = "idle"
                 /\ file # NoFile /\ archive # NoArchive /\ archive.of = Url.archive
                 /\ file.id = archive.id /\ file.block \in DOMAIN archive.content.files
                 /\ archive.content.files[file.block].upper = Upper(Url.path)
PositionInv ==
    /\ dropped \in BOOLEAN /\ opened \in BOOLEAN
    /\ seekPos \in Nat /\ asked \in Nat
    /\ ~dropped => seekPos = asked
    /\ ~dropped /\ ~opened => asked = 0
IInv == DiskInv /\ ArchiveInv /\ SessionInv /\ PositionInv

(* A slave that has just been started has nothing open.                    *)
LEMMA InitIInv == Init => IInv
<1> SUFFICES ASSUME Init
             PROVE  IInv
  OBVIOUS
<1>1. DiskInv /\ SessionInv /\ PositionInv
  BY DEF Init, DiskInv, SessionInv, PositionInv
<1>2. request.url \in Urls
  BY DEF Init
<1>3. ArchiveInv
  BY <1>2 DEF Init, ArchiveInv
<1> QED BY <1>1, <1>3 DEF IInv

(* A command that does not fail at once names an archive of the disk; the  *)
(* answers leave the archive, and all but open() leave the session.        *)
LEMMA StepIInv == IInv /\ [Next]_vars => IInv'
<1> USE DEF IInv
<1> SUFFICES ASSUME IInv, [Next]_vars
             PROVE  IInv'
  OBVIOUS
<1>1. CASE Change
  BY <1>1 DEF Change, DiskInv, ArchiveInv, SessionInv, PositionInv, Url, session
<1>2. CASE Receive
  <2>1. request'.url \in Urls
    BY <1>2 DEF Receive
  <2>2. pc' \in {"idle", "parsed"}
    BY <1>2 DEF Receive, Answer
  <2> QED BY <1>2, <2>1, <2>2 DEF Receive, DiskInv, ArchiveInv, SessionInv, PositionInv, Url, session
<1>3. CASE OpenArchive
  <2>1. ~opened /\ UNCHANGED <<disk, session, request>>
    BY <1>3 DEF OpenArchive, OpenCached, OpenFails, OpenFailsOnAttributes, OpenNew, SessionInv
  <2>2. DiskInv' /\ SessionInv' /\ PositionInv'
    BY <2>1 DEF DiskInv, SessionInv, PositionInv, session
  <2>3. ArchiveInv'
    <3>1. CASE OpenCached
      BY <3>1 DEF OpenCached, IsOpen, ArchiveInv, Url
    <3>2. CASE OpenFails
      BY <3>2 DEF OpenFails, Answer, ArchiveInv, Url
    <3>3. CASE OpenFailsOnAttributes
      BY <3>3 DEF OpenFailsOnAttributes, Answer, ArchiveInv, Url
    <3>4. CASE OpenNew
      <4>1. Url.archive \in Archives
        BY SlaveAssumption DEF ArchiveInv, Url
      <4>2. Found \in Contents
        BY <3>4, <4>1 DEF OpenNew, Found, DiskInv
      <4>3. archive' = [id |-> IF archive.id = 1 THEN 2 ELSE 1, of |-> Url.archive, content |-> Found]
        BY <3>4 DEF OpenNew, Swap
      <4>4. /\ archive'.id \in {1, 2} /\ archive'.of = Url.archive /\ archive'.content = Found
            /\ archive' # NoArchive
        <5>1. archive'.id \in {1, 2} /\ archive'.of = Url.archive /\ archive'.content = Found
          BY <4>3
        <5>2. NoArchive.id = 0
          BY DEF NoArchive
        <5> QED BY <5>1, <5>2
      <4> QED BY <3>4, <4>1, <4>2, <4>4 DEF OpenNew, ArchiveInv, Url
    <3> QED BY <1>3, <3>1, <3>2, <3>3, <3>4 DEF OpenArchive
  <2> QED BY <2>2, <2>3
<1>4. CASE Stat \/ Get \/ Put \/ ListDir
  <2>1. /\ pc' = "idle" /\ pc = "opened"
        /\ UNCHANGED <<disk, archive, archiveName, session, request>>
    BY <1>4 DEF Stat, Get, Put, ListDir, Answer, Asked
  <2> QED BY <2>1 DEF DiskInv, ArchiveInv, SessionInv, PositionInv, Url, session
<1>5. CASE ListDirEnds
  BY <1>5 DEF ListDirEnds, Answer, Asked, DiskInv, ArchiveInv, SessionInv, PositionInv, Url
<1>6. CASE Open
  <2>1. /\ pc = "opened" /\ pc' = "idle"
        /\ UNCHANGED <<disk, archive, archiveName, request, seekPos, dropped>>
    BY <1>6 DEF Open, Asked, Answer, session
  <2>2. archive # NoArchive /\ archive.id \in {1, 2} /\ archive.content \in Contents
        /\ archive.of = Url.archive /\ ~opened
    BY <2>1 DEF ArchiveInv, SessionInv
  <2>3. CASE Block = 0
    BY <1>6, <2>1, <2>2, <2>3
      DEF Open, session, DiskInv, ArchiveInv, SessionInv, PositionInv, Url
  <2>4. CASE Block # 0
    <3>1. /\ file' = [id |-> archive.id, block |-> Block]
          /\ opened' = TRUE /\ asked' = 0
      BY <1>6, <2>4 DEF Open
    <3>2. file'.id = archive.id /\ file'.block = Block /\ file' # NoFile
      <4>1. file'.id = archive.id /\ file'.block = Block
        BY <3>1
      <4>2. NoFile.id = 0
        BY DEF NoFile
      <4> QED BY <2>2, <4>1, <4>2
    <3>3. /\ Block \in DOMAIN archive.content.files
          /\ archive.content.files[Block].upper = Upper(Url.path)
      BY <2>2, <2>4, FoundIsFile DEF Block
    <3>4. SessionInv'
      BY <2>1, <2>2, <3>1, <3>2, <3>3 DEF SessionInv, Url, Upper
    <3> QED BY <2>1, <3>1, <3>4, <2>2 DEF DiskInv, ArchiveInv, PositionInv, Url
  <2> QED BY <2>3, <2>4
<1>7. CASE Read
  <2>1. UNCHANGED <<disk, archive, archiveName, file, seekPos, asked, pc, request>>
    BY <1>7 DEF Read
  <2>2. \/ UNCHANGED <<opened, dropped>>
        \/ opened' \in BOOLEAN /\ dropped' = (dropped \/ ~opened')
    BY <1>7 DEF Read
  <2>3. opened
    BY <1>7 DEF Read
  <2>4. DiskInv' /\ ArchiveInv' /\ SessionInv'
    BY <2>1, <2>3 DEF DiskInv, ArchiveInv, SessionInv, Url, Upper
  <2>5. PositionInv'
    BY <2>1, <2>2, <2>3 DEF PositionInv
  <2> QED BY <2>4, <2>5
<1>8. CASE Seek
  <2>1. PICK offset \in 0..(MaxSeek - seekPos) :
           seekPos' = seekPos + offset /\ asked' = asked + offset
    BY <1>8 DEF Seek
  <2>2. offset \in Nat
    BY <2>1, SlaveAssumption DEF PositionInv
  <2>3. PositionInv'
    BY <1>8, <2>1, <2>2 DEF Seek, PositionInv
  <2> QED BY <1>8, <2>3 DEF Seek, DiskInv, ArchiveInv, SessionInv, Url
<1>9. CASE Close
  BY <1>9 DEF Close, DiskInv, ArchiveInv, SessionInv, PositionInv, Url
<1>10. CASE UNCHANGED vars
  BY <1>10 DEF vars, session, DiskInv, ArchiveInv, SessionInv, PositionInv, Url
<1> QED BY <1>1, <1>2, <1>3, <1>4, <1>5, <1>6, <1>7, <1>8, <1>9, <1>10 DEF Next

(* The invariant holds in all behaviours.                                  *)
LEMMA IInvHolds == Spec => []IInv
BY InitIInv, StepIInv, PTL DEF Spec

-----------------------------------------------------------------------------
(* In a session m_file is a file of the Archive that is alive, however     *)
(* many archives were opened, failed to open or changed before (open() and *)
(* openArchive()).                                                         *)
THEOREM FileOfSessionLives == Spec => []OpenFileLives
<1>1. IInv => OpenFileLives
  BY DEF IInv, SessionInv, OpenFileLives
<1> QED BY <1>1, IInvHolds, PTL

(* A read() of an archive nobody replaced delivers the bytes of the file   *)
(* from where seek() has led, for all positions and sizes of reads         *)
(* (read(), seek(), close()).                                              *)
THEOREM ReadsAreAtPosition == Spec => ReadsFromPosition
<1> DEFINE AtPosition ==
      Read /\ IsOnDisk /\ ~dropped =>
         /\ sent'[1].kind = "data"
         /\ \A j \in DOMAIN sent'[1].cells :
              asked + j <= archive.content.files[file.block].size =>
                sent'[1].cells[j] = <<archive.of, file.block, asked + j>>
<1>1. ASSUME IInv, Read, IsOnDisk, ~dropped
      PROVE  AtPosition
  <2> DEFINE size == archive.content.files[file.block].size
             all == Cells(archive, file.block)
  <2>1. /\ archive.content \in Contents /\ seekPos = asked /\ asked \in Nat
        /\ file.block \in DOMAIN archive.content.files
    BY <1>1 DEF IInv, ArchiveInv, SessionInv, PositionInv, Read
  <2>2. size \in Nat
    <3>1. archive.content.files \in Seq([upper : Seq(STRING), size : Nat, isFile : BOOLEAN])
      BY <2>1, SlaveAssumption
    <3>2. file.block \in 1..Len(archive.content.files)
      BY <2>1, <3>1
    <3>3. archive.content.files[file.block] \in [upper : Seq(STRING), size : Nat, isFile : BOOLEAN]
      BY <3>1, <3>2, ElementOfSeq
    <3> QED BY <3>3
  <2>3. Decompressed(archive, file.block) = {Gave(all)}
    BY <1>1, <2>1, ContentsAreNoMarks DEF Decompressed, IsOnDisk
  <2>4. PICK n \in ReadSizes : sent' = <<DataMessage(Content(all, n))>>
    BY <1>1, <2>3 DEF Read, Gave
  <2>5. n \in Nat
    BY SlaveAssumption
  <2>6. /\ Len(all) = size
        /\ \A j \in 1..size : all[j] = <<archive.of, file.block, j>>
    BY <2>2 DEF Cells
  <2>7. sent'[1] = [kind |-> "data", cells |-> Content(all, n)]
    BY <2>4 DEF DataMessage
  <2>8. ASSUME NEW j \in 1..n, asked + j <= size
        PROVE  Content(all, n)[j] = <<archive.of, file.block, asked + j>>
    <3>1. asked + j \in 1..size
      BY <2>1, <2>2, <2>5, <2>8
    <3> QED BY <2>1, <2>6, <2>8, <3>1 DEF Content
  <2>9. DOMAIN Content(all, n) = 1..n
    BY DEF Content
  <2>10. sent'[1].kind = "data" /\ sent'[1].cells = Content(all, n)
    BY <2>7
  <2>11. ASSUME NEW j \in DOMAIN sent'[1].cells, asked + j <= size
         PROVE  sent'[1].cells[j] = <<archive.of, file.block, asked + j>>
    BY <2>8, <2>9, <2>10, <2>11
  <2> QED BY <2>10, <2>11
<1> QED BY <1>1, IInvHolds, PTL DEF Spec, ReadsFromPosition

-----------------------------------------------------------------------------
(***************************************************************************)
(* What is listed.                                                         *)
(***************************************************************************)
Files(allEntries) ==
    CaseSensitiveFileEntries(ExistingEntries(allEntries, archive.content, Prefix), Prefix)
      \o IF Url.path = <<>> THEN Specials(archive.content) ELSE <<>>
Dirs(allEntries) ==
    CaseSensitiveDirEntries(ExistingEntries(allEntries, archive.content, Prefix), Prefix)
Listed == IF HasListfile THEN archive.content.listed ELSE Installed

(* Three lists, one behind the other.                                      *)
LEMMA ThreeLists ==
    ASSUME NEW S, NEW f \in Seq(S), NEW d \in Seq(S), NEW e \in Seq(S)
    PROVE  /\ f \o d \o e \in Seq(S)
           /\ DOMAIN (f \o d \o e) = 1 .. Len(f) + Len(d) + Len(e)
           /\ Len(f) \in Nat /\ Len(d) \in Nat /\ Len(e) \in Nat
           /\ \A i \in DOMAIN (f \o d \o e) :
                 (f \o d \o e)[i] = IF i <= Len(f) THEN f[i]
                                    ELSE IF i <= Len(f) + Len(d) THEN d[i - Len(f)]
                                    ELSE e[i - (Len(f) + Len(d))]
<1> DEFINE a == f \o d
<1>1. /\ a \in Seq(S) /\ Len(a) = Len(f) + Len(d)
      /\ Len(f) \in Nat /\ Len(d) \in Nat /\ Len(e) \in Nat
      /\ \A i \in 1 .. Len(f) + Len(d) : a[i] = IF i <= Len(f) THEN f[i] ELSE d[i - Len(f)]
  BY ConcatProperties
<1> HIDE DEF a
<1>c. a \in Seq(S)
  BY <1>1
<1>2. /\ a \o e \in Seq(S) /\ Len(a \o e) = Len(a) + Len(e)
      /\ \A i \in 1 .. Len(a) + Len(e) : (a \o e)[i] = IF i <= Len(a) THEN a[i] ELSE e[i - Len(a)]
  BY <1>c, ConcatProperties
<1> DEFINE b == a \o e
<1> HIDE DEF b
<1>3. DOMAIN b = 1 .. Len(f) + Len(d) + Len(e)
  BY <1>1, <1>2 DEF b
<1>4. \A i \in 1 .. Len(f) + Len(d) + Len(e) :
         b[i] = IF i <= Len(f) THEN f[i]
                ELSE IF i <= Len(f) + Len(d) THEN d[i - Len(f)]
                ELSE e[i - (Len(f) + Len(d))]
  BY <1>1, <1>2 DEF b
<1> QED
  BY <1>1, <1>2, <1>3, <1>4 DEF a, b

(* The files that tell about others are in the root.                       *)
Refs == Tokens \union {Special(name) : name \in SpecialNames}
LEMMA SpecialsAreRefs ==
    /\ \A name \in SpecialNames : /\ Special(name) \in Refs /\ Len(Special(name)) = 1
                                  /\ Special(name)[1].name = name /\ Upper(Special(name)) = <<name>>
    /\ <<Special("(listfile)"), Special("(attributes)"), Special("(signature)")>> \in Seq(Refs)
    /\ ToSet(<<Special("(listfile)"), Special("(attributes)"), Special("(signature)")>>)
          = {Special(name) : name \in SpecialNames}
<1>2. ASSUME NEW name
      PROVE  /\ Len(Special(name)) = 1
             /\ Special(name)[1].name = name /\ Upper(Special(name)) = <<name>>
  <2> DEFINE t == [name |-> name, case |-> "lower"]
  <2>1. t.name = name
    OBVIOUS
  <2> HIDE DEF t
  <2>2. Len(<<t>>) = 1 /\ <<t>>[1] = t /\ DOMAIN <<t>> = {1}
    OBVIOUS
  <2>3. Upper(<<t>>) = <<name>>
    BY <2>1, <2>2 DEF Upper
  <2> QED
    BY <2>1, <2>2, <2>3 DEF Special, t
<1> DEFINE a == Special("(listfile)")
           b == Special("(attributes)")
           c == Special("(signature)")
<1>4. {Special(name) : name \in SpecialNames} = {a, b, c}
  BY Zenon DEF SpecialNames
<1>5. \A name \in SpecialNames : Special(name) \in Refs
  BY DEF Refs
<1>6. a \in Refs /\ b \in Refs /\ c \in Refs
  BY <1>4 DEF Refs
<1>7. <<a, b, c>> \in Seq(Refs) /\ ToSet(<<a, b, c>>) = {a, b, c}
  <2> HIDE DEF a, b, c
  <2>1. <<a, b, c>> \in Seq(Refs) /\ DOMAIN <<a, b, c>> = {1, 2, 3}
    BY <1>6
  <2> QED
    BY <2>1 DEF ToSet
<1> QED
  BY <1>2, <1>4, <1>5, <1>7

(* The entries of archives and the files of a directory are paths.         *)
LEMMA ListTypes ==
    ASSUME NEW all \in Seq(Tokens)
    PROVE  /\ Files(all) \in Seq(Refs)
           /\ \E T : Dirs(all) \in Seq(T)
<1> DEFINE entries == ExistingEntries(all, archive.content, Prefix)
           special == <<Special("(listfile)"), Special("(attributes)"), Special("(signature)")>>
           inner == Those(entries, {ref \in ToSet(entries) : /\ StartsWith(ref, Prefix)
                                                            /\ Len(ref) > Len(Prefix) + 1})
           T == {DirOf(entries, Prefix, inner[i]) : i \in DOMAIN inner}
           dirs == [i \in DOMAIN inner |-> DirOf(entries, Prefix, inner[i])]
<1>1. entries \in Seq(Tokens)
  BY ThoseProperties DEF ExistingEntries
<1>2. special \in Seq(Refs)
  BY SpecialsAreRefs
<1> HIDE DEF entries
<1>3. inner \in Seq(Tokens)
  BY <1>1, ThoseProperties
<1>4. CaseSensitiveDirEntries(entries, Prefix) = EachOnce(dirs)
  BY DEF CaseSensitiveDirEntries
<1> HIDE DEF inner
<1>5. dirs \in Seq(T)
  <2>1. DOMAIN inner = 1 .. Len(inner) /\ Len(inner) \in Nat
    BY <1>3
  <2> QED
    BY <2>1
<1> HIDE DEF dirs, T, special
<1>6. EachOnce(dirs) \in Seq(T)
  BY <1>5, EachOnceProperties
<1>7. CaseSensitiveFileEntries(entries, Prefix) \in Seq(Refs)
  <2>1. CaseSensitiveFileEntries(entries, Prefix) \in Seq(Tokens)
    BY <1>1, ThoseProperties DEF CaseSensitiveFileEntries
  <2>2. Tokens \subseteq Refs
    BY DEF Refs
  <2> HIDE DEF Refs
  <2> QED
    BY <2>1, <2>2
<1>8. Specials(archive.content) \in Seq(Refs)
  BY <1>2, ThoseProperties DEF Specials, special
<1>9. Files(all) \in Seq(Refs)
  BY <1>7, <1>8, ConcatMembers DEF Files, entries
<1> QED
  BY <1>4, <1>6, <1>9 DEF Dirs, entries

(* The answer to listDir(): one message of each file, one of each          *)
(* directory and two at the end.                                           *)
LEMMA ListingShape ==
    ASSUME NEW all \in Seq(Tokens)
    PROVE  /\ Len(Files(all)) \in Nat /\ Len(Dirs(all)) \in Nat
           /\ DOMAIN Listing(all) = 1 .. Len(Files(all)) + Len(Dirs(all)) + 2
           /\ \A i \in DOMAIN Listing(all) :
                 Listing(all)[i] =
                    IF i <= Len(Files(all)) THEN FileAnswer(Files(all)[i])
                    ELSE IF i <= Len(Files(all)) + Len(Dirs(all))
                         THEN DirAnswer(Dirs(all)[i - Len(Files(all))])
                         ELSE <<EndOfList, Finished>>[i - (Len(Files(all)) + Len(Dirs(all)))]
<1> DEFINE files == Files(all)
           dirs == Dirs(all)
           f == [i \in DOMAIN files |-> FileAnswer(files[i])]
           d == [i \in DOMAIN dirs |-> DirAnswer(dirs[i])]
           e == <<EndOfList, Finished>>
           S == {f[i] : i \in DOMAIN f} \union {d[i] : i \in DOMAIN d} \union {EndOfList, Finished}
<1>1. PICK T : files \in Seq(Refs) /\ dirs \in Seq(T)
  BY ListTypes
<1>2. Listing(all) = f \o d \o e
  BY DEF Listing, Files, Dirs
<1> HIDE DEF files, dirs
<1>3. /\ Len(files) \in Nat /\ DOMAIN files = 1 .. Len(files)
      /\ Len(dirs) \in Nat /\ DOMAIN dirs = 1 .. Len(dirs)
  BY <1>1
<1>4. f \in Seq(S) /\ d \in Seq(S) /\ e \in Seq(S)
  BY <1>3
<1>5. Len(f) = Len(files) /\ Len(d) = Len(dirs) /\ Len(e) = 2
  BY <1>3
<1>6. /\ \A i \in 1 .. Len(files) : f[i] = FileAnswer(files[i])
      /\ \A i \in 1 .. Len(dirs) : d[i] = DirAnswer(dirs[i])
  BY <1>3
<1> HIDE DEF f, d, e, S
<1> DEFINE b == f \o d \o e
<1>7. /\ DOMAIN b = 1 .. Len(f) + Len(d) + Len(e)
      /\ \A i \in DOMAIN b : b[i] = IF i <= Len(f) THEN f[i]
                                   ELSE IF i <= Len(f) + Len(d) THEN d[i - Len(f)]
                                   ELSE e[i - (Len(f) + Len(d))]
  BY <1>4, ThreeLists
<1> HIDE DEF b
<1>b. Listing(all) = b /\ DOMAIN b = 1 .. Len(files) + Len(dirs) + 2
  BY <1>2, <1>5, <1>7 DEF b
<1>8. ASSUME NEW i \in 1 .. Len(files) + Len(dirs) + 2
      PROVE  Listing(all)[i] = IF i <= Len(files) THEN FileAnswer(files[i])
                               ELSE IF i <= Len(files) + Len(dirs) THEN DirAnswer(dirs[i - Len(files)])
                               ELSE e[i - (Len(files) + Len(dirs))]
  <2>1. Listing(all)[i] = IF i <= Len(files) THEN f[i]
                          ELSE IF i <= Len(files) + Len(dirs) THEN d[i - Len(files)]
                          ELSE e[i - (Len(files) + Len(dirs))]
    BY <1>5, <1>7, <1>b
  <2>2. i <= Len(files) => i \in 1 .. Len(files)
    BY <1>3
  <2>3. ~ (i <= Len(files)) /\ i <= Len(files) + Len(dirs) => i - Len(files) \in 1 .. Len(dirs)
    BY <1>3
  <2> QED
    BY <1>6, <2>1, <2>2, <2>3
<1> QED
  BY <1>3, <1>8, <1>b DEF files, dirs, e

-----------------------------------------------------------------------------
(***************************************************************************)
(* What is sent.                                                           *)
(***************************************************************************)
NoData(messages) == \A i \in DOMAIN messages : messages[i].kind # "data"
FromFile(cells, block) ==
    \A j \in DOMAIN cells : cells[j] = Junk \/ (cells[j][1] = archive.of /\ cells[j][2] = block)
DataInv ==
    /\ AnswersFromNamed
    /\ pc \in {"parsed", "opened"} => sent = <<>>

(* What does not tell about data is no data.                               *)
LEMMA MessagesWithoutData ==
    /\ NoData(<<>>) /\ NoData(<<Error>>) /\ NoData(<<Finished>>)
    /\ \A kind : kind # "data" => NoData(<<Message(kind), Error>>) /\ NoData(<<Message(kind), Finished>>)
    /\ \A ref, type, time : NoData(<<Entry(ref, type, time), Finished, Error>>)
    /\ NoData(<<Message("totalSize"), Message("opened")>>)
    /\ NoData(<<Message("mimeType")>> \o <<Message("totalSize"), Message("opened")>>)
    /\ NoData(<<>> \o <<Message("totalSize"), Message("opened")>>)
<1> USE DEF NoData
<1>1. /\ NoData(<<>>) /\ NoData(<<Error>>) /\ NoData(<<Finished>>)
  BY DEF Error, Finished, Message
<1>2. ASSUME NEW kind, kind # "data"
      PROVE  NoData(<<Message(kind), Error>>) /\ NoData(<<Message(kind), Finished>>)
  BY <1>2 DEF Error, Finished, Message
<1>3. ASSUME NEW ref, NEW type, NEW time PROVE NoData(<<Entry(ref, type, time), Finished, Error>>)
  BY DEF Entry, Finished, Error, Message
<1> DEFINE a == Message("mimeType")
           b == Message("totalSize")
           c == Message("opened")
<1>4. a.kind # "data" /\ b.kind # "data" /\ c.kind # "data"
  BY DEF Message
<1> HIDE DEF a, b, c
<1>5. <<a>> \in Seq({a, b, c}) /\ <<b, c>> \in Seq({a, b, c})
  OBVIOUS
<1>6. NoData(<<b, c>>) /\ NoData(<<a>> \o <<b, c>>) /\ NoData(<<>> \o <<b, c>>)
  <2>1. ToSet(<<a>>) = {a} /\ ToSet(<<b, c>>) = {b, c}
    <3>1. DOMAIN <<a>> = {1} /\ DOMAIN <<b, c>> = {1, 2}
      OBVIOUS
    <3> QED
      BY <3>1 DEF ToSet
  <2>2. ToSet(<<a>> \o <<b, c>>) = {a, b, c} /\ <<>> \o <<b, c>> = <<b, c>>
    <3> DEFINE S == {a, b, c}
               x == <<a>>
               y == <<b, c>>
    <3>1. x \in Seq(S) /\ y \in Seq(S) /\ ToSet(x) \union ToSet(y) = {a, b, c}
      BY <1>5, <2>1
    <3> HIDE DEF S, x, y
    <3>2. ToSet(x \o y) = ToSet(x) \union ToSet(y) /\ <<>> \o y = y
      BY <3>1, ConcatMembers
    <3> QED
      BY <3>1, <3>2 DEF x, y
  <2>3. \A s : ToSet(s) \subseteq {a, b, c} => NoData(s)
    BY <1>4 DEF ToSet
  <2> QED
    BY <2>1, <2>2, <2>3
<1> QED
  BY <1>1, <1>2, <1>3, <1>6 DEF a, b, c

(* A listing tells about no data.                                          *)
LEMMA ListingWithoutData ==
    ASSUME NEW all \in Seq(Tokens)
    PROVE  NoData(Listing(all))
<1>1. \A ref : FileAnswer(ref).kind # "data" /\ DirAnswer(ref).kind # "data"
  BY DEF FileAnswer, DirAnswer, Entry, Message
<1>2. \A i \in 1 .. 2 : <<EndOfList, Finished>>[i].kind # "data"
  <2>1. EndOfList.kind # "data" /\ Finished.kind # "data"
    BY DEF EndOfList, Finished, Message
  <2>2. <<EndOfList, Finished>>[1] = EndOfList /\ <<EndOfList, Finished>>[2] = Finished
    OBVIOUS
  <2>3. \A i \in 1 .. 2 : i = 1 \/ i = 2
    OBVIOUS
  <2> QED
    BY <2>1, <2>2, <2>3
<1> SUFFICES ASSUME NEW i \in DOMAIN Listing(all)
             PROVE  Listing(all)[i].kind # "data"
  BY DEF NoData
<1> DEFINE m == Len(Files(all))
           n == Len(Dirs(all))
<1>3. /\ m \in Nat /\ n \in Nat /\ i \in 1 .. m + n + 2
      /\ Listing(all)[i] = IF i <= m THEN FileAnswer(Files(all)[i])
                           ELSE IF i <= m + n THEN DirAnswer(Dirs(all)[i - m])
                           ELSE <<EndOfList, Finished>>[i - (m + n)]
  BY ListingShape
<1> HIDE DEF m, n
<1>4. CASE i <= m
  BY <1>1, <1>3, <1>4
<1>5. CASE ~ (i <= m) /\ i <= m + n
  BY <1>1, <1>3, <1>5
<1>6. CASE ~ (i <= m + n)
  <2>1. i - (m + n) \in 1 .. 2 /\ ~ (i <= m)
    BY <1>3, <1>6
  <2> QED
    BY <1>2, <1>3, <1>6, <2>1
<1> QED
  BY <1>4, <1>5, <1>6

(* What comes from the disk is of the file, or junk.                       *)
LEMMA DataOfFile ==
    ASSUME NEW block, NEW result \in Decompressed(archive, block), ~result.threw,
           archive.content.files[block].size \in Nat
    PROVE  /\ FromFile(result.cells, block)
           /\ Len(result.cells) \in Nat /\ DOMAIN result.cells = 1 .. Len(result.cells)
<1> DEFINE size == archive.content.files[block].size
           junk == [j \in 1 .. size |-> Junk]
           cells == Cells(archive, block)
<1>1. result \in {Threw, Gave(cells), Gave(junk)}
  BY DEF Decompressed
<1>2. Threw.threw /\ \A c : Gave(c).cells = c
  BY DEF Threw, Gave
<1>3. result.cells = cells \/ result.cells = junk
  BY <1>1, <1>2
<1>4. cells = [j \in 1 .. size |-> <<archive.of, block, j>>]
  BY DEF Cells
<1>5. size \in Nat
  OBVIOUS
<1> HIDE DEF cells, size
<1>6. DOMAIN cells = 1 .. size /\ DOMAIN junk = 1 .. size /\ Len(cells) = size /\ Len(junk) = size
  BY <1>4, <1>5
<1>7. FromFile(junk, block) /\ FromFile(cells, block)
  BY <1>4 DEF FromFile
<1> HIDE DEF junk
<1> QED
  BY <1>3, <1>5, <1>6, <1>7

(* So is the part of it a read() sends.                                    *)
LEMMA PartOfData ==
    ASSUME NEW all, NEW block, NEW n \in Nat, FromFile(all, block), seekPos \in Nat,
           Len(all) \in Nat, DOMAIN all = 1 .. Len(all)
    PROVE  FromFile(Content(all, n), block)
<1> SUFFICES ASSUME NEW j \in 1 .. n
             PROVE  \/ Content(all, n)[j] = Junk
                    \/ /\ Content(all, n)[j][1] = archive.of
                       /\ Content(all, n)[j][2] = block
  BY DEF FromFile, Content
<1>1. Content(all, n)[j] = IF seekPos + j <= Len(all) THEN all[seekPos + j] ELSE Junk
  BY DEF Content
<1>2. seekPos + j <= Len(all) => seekPos + j \in DOMAIN all
  OBVIOUS
<1> QED
  BY <1>1, <1>2 DEF FromFile

(* Sizes of files are numbers.                                             *)
LEMMA SizeType ==
    ASSUME NEW content \in Contents, NEW block \in DOMAIN content.files
    PROVE  content.files[block].size \in Nat
<1> DEFINE File == [upper : Seq(STRING), size : Nat, isFile : BOOLEAN]
<1>1. content.files \in Seq(File)
  BY SlaveAssumption
<1>2. content.files[block] \in File
  <2> HIDE DEF File
  <2>1. block \in 1 .. Len(content.files)
    BY <1>1
  <2> QED
    BY <1>1, <2>1, ElementOfSeq
<1> QED
  BY <1>2

(* Data of a file with the path of the URL is what AnswersFromNamed asks.  *)
LEMMA NamedData ==
    ASSUME NEW cells, NEW block, FromFile(cells, block), archive.of = Url.archive,
           archive.content.files[block].upper = Upper(Url.path)
    PROVE  \A j \in DOMAIN cells : cells[j] # Junk =>
              /\ cells[j][1] = Url.archive
              /\ archive.content.files[cells[j][2]].upper = Upper(Url.path)
BY DEF FromFile

(* No step sends what AnswersFromNamed rules out.                          *)
LEMMA StepDataInv == IInv /\ DataInv /\ [Next]_vars => DataInv'
<1> SUFFICES ASSUME IInv, DataInv, [Next]_vars
             PROVE  DataInv'
  OBVIOUS
<1>a. ASSUME NoData(sent'), pc' \in {"parsed", "opened"} => sent' = <<>>
      PROVE  DataInv'
  BY <1>a DEF DataInv, AnswersFromNamed, NoData
<1>b. pc' \in {"parsed", "opened"} /\ sent' = <<>> => DataInv'
  BY <1>a, MessagesWithoutData
<1>1. CASE Change
  BY <1>1 DEF Change, DataInv, AnswersFromNamed, Url
<1>2. CASE Receive
  <2>1. \/ Answer(<<Finished>>) \/ Answer(<<Error>>)
        \/ pc' = "parsed" /\ sent' = <<>>
    BY <1>2 DEF Receive
  <2> QED
    BY <1>a, <1>b, <2>1, MessagesWithoutData DEF Answer
<1>3. CASE OpenArchive
  <2>1. \/ pc' = "opened" /\ sent' = sent /\ pc = "parsed"
        \/ Answer(<<Error>>)
    BY <1>3 DEF OpenArchive, OpenCached, OpenFails, OpenFailsOnAttributes, OpenNew
  <2> QED
    BY <1>a, <1>b, <2>1, MessagesWithoutData DEF Answer, DataInv
<1>4. CASE Stat
  <2>1. Answer(<<Error>>) \/ Answer(<<Entry(Url.path, "file", ShownTime(Block)), Finished, Error>>)
    BY <1>4 DEF Stat
  <2> QED
    BY <1>a, <2>1, MessagesWithoutData DEF Answer
<1>5. CASE Get
  <2>1. /\ pc = "opened" /\ UNCHANGED <<archive, request>> /\ pc' = "idle"
        /\ archive.content \in Contents /\ archive.of = Url.archive
    BY <1>5 DEF Get, Asked, Answer, IInv, ArchiveInv
  <2>2. CASE Answer(<<Error>>)
    BY <1>a, <2>2, MessagesWithoutData DEF Answer
  <2>3. CASE Answer(<<Message("totalSize"), Error>>)
    BY <1>a, <2>3, MessagesWithoutData DEF Answer
  <2>4. ASSUME NEW result \in Decompressed(archive, Block), ~result.threw, Block # 0,
               Answer(<<Message("totalSize"), Message("mimeType"), DataMessage(result.cells),
                        DataMessage(<<>>), Finished>>)
        PROVE  DataInv'
    <3>1. /\ Block \in DOMAIN archive.content.files
          /\ archive.content.files[Block].upper = Upper(Url.path)
      BY <2>1, <2>4, FoundIsFile DEF Block
    <3>2. FromFile(result.cells, Block)
      BY <2>1, <2>4, <3>1, SizeType, DataOfFile
    <3>3. \A j \in DOMAIN result.cells : result.cells[j] # Junk =>
              /\ result.cells[j][1] = Url.archive
              /\ archive.content.files[result.cells[j][2]].upper = Upper(Url.path)
      BY <2>1, <3>1, <3>2, NamedData
    <3>4. ASSUME NEW i \in DOMAIN sent', sent'[i].kind = "data"
          PROVE  sent'[i].cells = result.cells \/ sent'[i].cells = <<>>
      <4> DEFINE m1 == Message("totalSize")
                 m2 == Message("mimeType")
                 d1 == DataMessage(result.cells)
                 d2 == DataMessage(<<>>)
                 m3 == Finished
      <4>1. /\ m1.kind # "data" /\ m2.kind # "data" /\ m3.kind # "data"
            /\ d1.cells = result.cells /\ d2.cells = <<>>
        BY DEF Message, Finished, DataMessage
      <4>2. sent' = <<m1, m2, d1, d2, m3>>
        BY <2>4 DEF Answer
      <4> HIDE DEF m1, m2, d1, d2, m3
      <4>3. i \in 1 .. 5 /\ sent'[i] \in {m1, m2, d1, d2, m3}
        BY <4>2
      <4> QED
        BY <3>4, <4>1, <4>3
    <3>5. AnswersFromNamed'
      BY <2>1, <3>3, <3>4 DEF AnswersFromNamed, Url, Upper
    <3> QED
      BY <2>1, <3>5 DEF DataInv
  <2> QED
    BY <1>5, <2>2, <2>3, <2>4 DEF Get
<1>6. CASE Put
  BY <1>6, <1>a, MessagesWithoutData DEF Put, Answer
<1>7. CASE ListDir
  <2>1. archive.content \in Contents
    BY <1>7 DEF ListDir, Asked, IInv, ArchiveInv
  <2>2. archive.content.listed \in Seq(Tokens) /\ Installed \in Seq(Tokens) /\ <<>> \in Seq(Tokens)
    BY <2>1, SlaveAssumption
  <2>3. \E all \in Seq(Tokens) : Answer(Listing(all))
    BY <1>7, <2>2 DEF ListDir
  <2> QED
    BY <1>a, <2>3, ListingWithoutData DEF Answer
<1>8. CASE ListDirEnds
  BY <1>8, <1>a, MessagesWithoutData DEF ListDirEnds, Answer
<1>9. CASE Open
  <2>1. \/ Answer(<<Error>>)
        \/ Answer(<<Message("mimeType")>> \o <<Message("totalSize"), Message("opened")>>)
        \/ Answer(<<>> \o <<Message("totalSize"), Message("opened")>>)
    BY <1>9 DEF Open
  <2> QED
    BY <1>a, <2>1, MessagesWithoutData DEF Answer
<1>10. CASE Read
  <2>1. /\ pc = "idle" /\ opened /\ UNCHANGED <<archive, request, pc>>
        /\ archive.content \in Contents /\ archive.of = Url.archive /\ seekPos \in Nat
        /\ file.block \in DOMAIN archive.content.files
        /\ archive.content.files[file.block].upper = Upper(Url.path)
    BY <1>10 DEF Read, IInv, ArchiveInv, SessionInv, PositionInv
  <2>2. CASE sent' = <<Error>>
    BY <1>a, <2>1, <2>2, MessagesWithoutData
  <2>3. ASSUME NEW size \in ReadSizes, NEW result \in Decompressed(archive, file.block),
               ~result.threw, sent' = <<DataMessage(Content(result.cells, size))>>
        PROVE  DataInv'
    <3> DEFINE part == Content(result.cells, size)
               all == result.cells
    <3>1. archive.content.files[file.block].size \in Nat /\ size \in Nat
      BY <2>1, SizeType, SlaveAssumption
    <3>2. FromFile(all, file.block) /\ Len(all) \in Nat /\ DOMAIN all = 1 .. Len(all)
      BY <2>3, <3>1, DataOfFile
    <3>3. FromFile(part, file.block)
      <4> HIDE DEF all
      <4>1. FromFile(Content(all, size), file.block)
        BY <2>1, <3>1, <3>2, PartOfData
      <4> QED
        BY <4>1 DEF all
    <3>4. part = part /\ \A i \in DOMAIN sent' : sent'[i].cells = part
      BY <2>3 DEF DataMessage
    <3> HIDE DEF part
    <3>5. \A j \in DOMAIN part : part[j] # Junk =>
              /\ part[j][1] = Url.archive
              /\ archive.content.files[part[j][2]].upper = Upper(Url.path)
      BY <2>1, <3>3, NamedData
    <3>6. AnswersFromNamed'
      BY <2>1, <3>4, <3>5 DEF AnswersFromNamed, Url, Upper
    <3> QED
      BY <2>1, <3>6 DEF DataInv
  <2> QED
    BY <1>10, <2>2, <2>3 DEF Read
<1>11. CASE Seek
  BY <1>11, <1>a, MessagesWithoutData DEF Seek
<1>12. CASE Close
  BY <1>12, <1>a, MessagesWithoutData DEF Close
<1>13. CASE UNCHANGED vars
  BY <1>13 DEF vars, DataInv, AnswersFromNamed, Url
<1> QED
  BY <1>1, <1>2, <1>3, <1>4, <1>5, <1>6, <1>7, <1>8, <1>9, <1>10, <1>11, <1>12, <1>13 DEF Next

(* All data that is sent is of the archive and the file the URL names,     *)
(* whatever was opened and failed to be opened before, for all archives    *)
(* and all changes of them (openArchive(), get(), read()).                 *)
THEOREM DataIsOfNamed == Spec => []AnswersFromNamed
<1>1. Init => DataInv
  BY DEF Init, DataInv, AnswersFromNamed
<1>2. DataInv => AnswersFromNamed
  BY DEF DataInv
<1> QED
  BY <1>1, <1>2, StepDataInv, IInvHolds, PTL DEF Spec

-----------------------------------------------------------------------------
(***************************************************************************)
(* The times of files.                                                     *)
(***************************************************************************)
OwnTimes(a, content) == [i \in DOMAIN content.files |-> <<a, i>>]
TimesRead ==
    HasTimes /\ ~halfRead =>
      /\ hasAttributes /\ (timesPresent <=> archive.content.times)
      /\ archive.content.times => fileTimes = OwnTimes(archive.of, archive.content)
TimesInv ==
    /\ TimesRead /\ TimesOfNamed
    /\ pc \in {"parsed", "opened"} => sent = <<>>
IsFile(message) == message.kind = "entry" /\ message.type = "file"
NoFiles(messages) == \A i \in DOMAIN messages : ~ IsFile(messages[i])

(* Answers that show no file.                                              *)
LEMMA MessagesWithoutFiles ==
    /\ NoFiles(<<>>) /\ NoFiles(<<Error>>) /\ NoFiles(<<Finished>>)
    /\ NoFiles(<<Message("totalSize"), Error>>) /\ NoFiles(<<Message("warning"), Finished>>)
    /\ \A a, b : NoFiles(<<Message("totalSize"), Message("mimeType"), DataMessage(a),
                           DataMessage(b), Finished>>)
    /\ \A a : NoFiles(<<DataMessage(a)>>)
    /\ NoFiles(<<Message("mimeType")>> \o <<Message("totalSize"), Message("opened")>>)
    /\ NoFiles(<<>> \o <<Message("totalSize"), Message("opened")>>)
<1>1. ASSUME NEW kind, kind # "entry"
      PROVE  ~ IsFile(Message(kind))
  BY <1>1 DEF IsFile, Message
<1>2. ~ IsFile(Error) /\ ~ IsFile(Finished)
  BY <1>1 DEF Error, Finished
<1>3. \A a : ~ IsFile(DataMessage(a))
  BY DEF IsFile, DataMessage
<1> DEFINE t == Message("totalSize")
           m == Message("mimeType")
           o == Message("opened")
           w == Message("warning")
<1>4. ~ IsFile(t) /\ ~ IsFile(m) /\ ~ IsFile(o) /\ ~ IsFile(w)
  BY <1>1
<1> HIDE DEF t, m, o, w
<1>5. NoFiles(<<>>) /\ NoFiles(<<Error>>) /\ NoFiles(<<Finished>>) /\ NoFiles(<<t, Error>>)
      /\ NoFiles(<<w, Finished>>)
  BY <1>2, <1>4 DEF NoFiles
<1>6. ASSUME NEW a, NEW b
      PROVE  NoFiles(<<t, m, DataMessage(a), DataMessage(b), Finished>>) /\ NoFiles(<<DataMessage(a)>>)
  <2>1. ~ IsFile(DataMessage(a)) /\ ~ IsFile(DataMessage(b))
    BY <1>3
  <2> QED
    BY <1>2, <1>4, <2>1 DEF NoFiles
<1>7. NoFiles(<<m>> \o <<t, o>>) /\ NoFiles(<<>> \o <<t, o>>)
  <2> DEFINE S == {t, m, o}
             x == <<m>>
             y == <<t, o>>
  <2>1. x \in Seq(S) /\ y \in Seq(S)
    OBVIOUS
  <2>2. ToSet(x) \subseteq S /\ ToSet(y) \subseteq S
    <3>1. DOMAIN x = {1} /\ DOMAIN y = {1, 2}
      OBVIOUS
    <3> QED
      BY <3>1 DEF ToSet
  <2>3. \A s : ToSet(s) \subseteq S => NoFiles(s)
    BY <1>4 DEF ToSet, NoFiles
  <2> HIDE DEF S, x, y
  <2>4. ToSet(x \o y) = ToSet(x) \union ToSet(y) /\ <<>> \o y = y
    BY <2>1, ConcatMembers
  <2>5. NoFiles(x \o y) /\ NoFiles(<<>> \o y)
    BY <2>2, <2>3, <2>4
  <2> QED
    BY <2>5 DEF x, y
<1> QED
  BY <1>5, <1>6, <1>7 DEF t, m, o, w

(* A file that is listed is in the root.                                   *)
LEMMA ListedInRoot ==
    ASSUME NEW all \in Seq(Tokens), NEW ref \in ToSet(Files(all))
    PROVE  ref \in Refs /\ Len(ref) = 1
<1> DEFINE E == ExistingEntries(all, archive.content, Prefix)
           three == <<Special("(listfile)"), Special("(attributes)"), Special("(signature)")>>
           single == {r \in ToSet(E) : StartsWith(r, Prefix) /\ Len(r) = 1}
           f == CaseSensitiveFileEntries(E, Prefix)
           s == IF Url.path = <<>> THEN Specials(archive.content) ELSE <<>>
<1>1. E \in Seq(Tokens)
  BY ThoseProperties DEF ExistingEntries
<1>2. f = Those(E, single)
  BY DEF CaseSensitiveFileEntries
<1>3. f \in Seq(Tokens) /\ ToSet(f) \subseteq single
  <2> HIDE DEF E, single
  <2> QED
    BY <1>1, <1>2, ThoseProperties
<1>4. /\ Specials(archive.content) \in Seq(Refs)
      /\ ToSet(Specials(archive.content)) \subseteq ToSet(three)
  <2> DEFINE there == {Special(name) : name \in {name \in SpecialNames : Has(archive.content, name)}}
  <2>1. three \in Seq(Refs)
    BY SpecialsAreRefs
  <2>2. Specials(archive.content) = Those(three, there)
    BY DEF Specials
  <2> HIDE DEF three, there, Refs
  <2>3. Those(three, there) \in Seq(Refs) /\ ToSet(Those(three, there)) = ToSet(three) \cap there
    BY <2>1, ThoseProperties
  <2> QED
    BY <2>2, <2>3
<1>5. f \in Seq(Refs)
  <2>1. Tokens \subseteq Refs
    BY DEF Refs
  <2> HIDE DEF f, Refs
  <2> QED
    BY <1>3, <2>1
<1>6. s \in Seq(Refs) /\ ToSet(s) \subseteq ToSet(three)
  <2>1. <<>> \in Seq(Refs) /\ ToSet(<<>>) = {}
    BY DEF ToSet
  <2> HIDE DEF three, Refs
  <2> QED
    BY <1>4, <2>1
<1>7. Files(all) = f \o s
  BY DEF Files
<1>8. Files(all) \in Seq(Refs) /\ ToSet(Files(all)) = ToSet(f) \union ToSet(s)
  <2> HIDE DEF f, s
  <2> QED
    BY <1>5, <1>6, <1>7, ConcatMembers
<1>9. ref \in Refs
  <2>1. ToSet(Files(all)) \subseteq Refs
    BY <1>8 DEF ToSet
  <2> QED
    BY <2>1
<1>10. \A r \in ToSet(three) : Len(r) = 1
  BY SpecialsAreRefs
<1>11. \A r \in single : Len(r) = 1
  OBVIOUS
<1> HIDE DEF f, s, three, single
<1> QED
  BY <1>3, <1>6, <1>8, <1>9, <1>10, <1>11

(* The time that is shown of a block is its own.                           *)
LEMMA ShownIsOwn ==
    ASSUME TimesRead, HasTimes, ~halfRead, archive.of = Url.archive, archive.content \in Contents,
           NEW upper, FindFile(archive.content, upper) # 0
    PROVE  ShownTime(FindFile(archive.content, upper)) =
              IF archive.content.times THEN <<Url.archive, FindFile(archive.content, upper)>>
              ELSE NoTime
<1> DEFINE block == FindFile(archive.content, upper)
           files == archive.content.files
<1>1. block \in DOMAIN files
  BY FoundIsFile
<1>2. files \in Seq([upper : Seq(STRING), size : Nat, isFile : BOOLEAN])
  BY SlaveAssumption
<1>3. DOMAIN files = 1 .. Len(files) /\ Len(files) \in Nat
  <2> HIDE DEF files
  <2> QED
    BY <1>2
<1>4. /\ hasAttributes /\ (timesPresent <=> archive.content.times)
      /\ archive.content.times => fileTimes = [i \in DOMAIN files |-> <<archive.of, i>>]
  BY DEF TimesRead, OwnTimes
<1> HIDE DEF block, files
<1>5. CASE archive.content.times
  <2>1. fileTimes = [i \in 1 .. Len(files) |-> <<Url.archive, i>>]
    BY <1>3, <1>4, <1>5
  <2>2. Len(fileTimes) = Len(files) /\ fileTimes[block] = <<Url.archive, block>>
    BY <1>1, <1>3, <2>1
  <2>3. block <= Len(fileTimes)
    BY <1>1, <1>3, <2>2
  <2>4. ShownTime(block) = fileTimes[block]
    BY <1>4, <1>5, <2>3, Zenon DEF ShownTime
  <2> QED
    BY <1>5, <2>2, <2>4 DEF block
<1>6. CASE ~ archive.content.times
  <2>1. ShownTime(block) = NoTime
    BY <1>4, <1>6, Zenon DEF ShownTime
  <2> QED
    BY <1>6, <2>1 DEF block
<1> QED
  BY <1>5, <1>6

(* No step shows a time that TimesOfNamed rules out.                       *)
LEMMA StepTimesInv == IInv /\ TimesInv /\ [Next]_vars => TimesInv'
<1> SUFFICES ASSUME IInv, TimesInv, [Next]_vars
             PROVE  TimesInv'
  OBVIOUS
<1>a. ASSUME NoFiles(sent'), pc' = "idle" \/ sent' = <<>>, TimesRead'
      PROVE  TimesInv'
  <2>1. FilesShown' = {}
    BY <1>a DEF FilesShown, NoFiles, IsFile
  <2>2. TimesOfNamed'
    BY <2>1 DEF TimesOfNamed
  <2> QED
    BY <1>a, <2>2 DEF TimesInv
<1>b. UNCHANGED <<archive, attributes>> => TimesRead'
  BY DEF attributes, TimesInv, TimesRead, HasTimes
<1>c. UNCHANGED <<archive, attributes, request, sent>> => TimesRead' /\ TimesOfNamed'
  BY DEF attributes, TimesInv, TimesRead, HasTimes, TimesOfNamed, FilesShown, OwnTime, ShownBlock, Url
<1>1. CASE Change
  BY <1>1, <1>c DEF Change, TimesInv
<1>2. CASE Receive
  <2>1. UNCHANGED <<archive, attributes>>
    BY <1>2 DEF Receive
  <2>2. \/ Answer(<<Finished>>) \/ Answer(<<Error>>)
        \/ pc' = "parsed" /\ sent' = <<>>
    BY <1>2 DEF Receive
  <2> QED
    BY <1>a, <1>b, <2>1, <2>2, MessagesWithoutFiles DEF Answer
<1>3. CASE OpenCached
  BY <1>3, <1>c DEF OpenCached, TimesInv
<1>4. CASE OpenFails
  BY <1>4, <1>a, <1>b, MessagesWithoutFiles DEF OpenFails, Answer
<1>5. CASE OpenFailsOnAttributes
  <2>1. halfRead' = TRUE /\ Answer(<<Error>>)
    BY <1>5 DEF OpenFailsOnAttributes
  <2>2. TimesRead'
    BY <2>1 DEF TimesRead
  <2> QED
    BY <1>a, <2>1, <2>2, MessagesWithoutFiles DEF Answer
<1>6. CASE OpenNew
  <2>1. /\ sent' = <<>> /\ NewAttributes(Found)
        /\ archive'.of = Url.archive /\ archive'.content = Found
    BY <1>6 DEF OpenNew, TimesInv, Swap
  <2>2. Found \in Contents
    <3>1. Url.archive \in Archives
      BY SlaveAssumption DEF IInv, ArchiveInv, Url
    <3> QED
      BY <1>6, <3>1 DEF OpenNew, Found, IInv, DiskInv
  <2>3. ASSUME Has(Found, "(attributes)")
        PROVE  /\ hasAttributes' /\ (timesPresent' <=> Found.times)
               /\ Found.times => fileTimes' = OwnTimes(Url.archive, Found)
    <3>1. /\ Found.cut = "none" /\ hasAttributes' = TRUE
          /\ ReadAttributes(Found)
      BY <2>1, <2>3 DEF NewAttributes
    <3>2. /\ timesPresent' = Found.times
          /\ Found.times => fileTimes' = TimesUpTo(Len(Found.files), Found)
      BY <3>1 DEF ReadAttributes
    <3>3. Found.files \in Seq([upper : Seq(STRING), size : Nat, isFile : BOOLEAN])
      BY <2>2, SlaveAssumption
    <3>4. TimesUpTo(Len(Found.files), Found) = OwnTimes(Url.archive, Found)
      BY <3>3 DEF TimesUpTo, OwnTimes
    <3> QED
      BY <3>1, <3>2, <3>4, Zenon
  <2>4. HasTimes' => Has(Found, "(attributes)")
    BY <2>1 DEF HasTimes
  <2>5. TimesRead'
    BY <2>1, <2>3, <2>4, Zenon DEF TimesRead
  <2> QED
    BY <1>a, <2>1, <2>5, MessagesWithoutFiles
<1>7. CASE Stat
  <2>1. /\ pc = "opened" /\ pc' = "idle" /\ request.command = "stat"
        /\ UNCHANGED <<archive, attributes, request>>
    BY <1>7 DEF Stat, Asked, Answer
  <2>2. archive.of = Url.archive /\ (archive # NoArchive => archive.content \in Contents)
    BY <2>1 DEF IInv, ArchiveInv
  <2>3. CASE sent' = <<Error>>
    BY <1>a, <1>b, <2>1, <2>3, MessagesWithoutFiles
  <2>4. CASE Block # 0 /\ sent' = <<Entry(Url.path, "file", ShownTime(Block)), Finished, Error>>
    <3>1. ~ IsFile(Error) /\ ~ IsFile(Finished)
      BY DEF IsFile, Error, Finished, Message
    <3>2. Entry(Url.path, "file", ShownTime(Block)).time = ShownTime(Block)
      BY DEF Entry
    <3>3. ASSUME NEW i \in FilesShown'
          PROVE  sent'[i].time = ShownTime(Block)
      <4> DEFINE e == Entry(Url.path, "file", ShownTime(Block))
      <4> HIDE DEF e
      <4>1. i \in DOMAIN sent' /\ IsFile(sent'[i]) /\ sent' = <<e, Finished, Error>>
        BY <2>4, <3>3 DEF FilesShown, IsFile, e
      <4>2. i = 1 \/ i = 2 \/ i = 3
        BY <4>1
      <4>3. sent'[i] = e
        BY <3>1, <4>1, <4>2
      <4> QED
        BY <3>2, <4>3 DEF e
    <3>4. ASSUME NEW i \in FilesShown', HasTimes', ~halfRead'
          PROVE  sent'[i].time = OwnTime(i)'
      <4>1. HasTimes /\ ~halfRead /\ TimesRead
        BY <2>1, <3>4 DEF HasTimes, attributes, TimesInv
      <4>2. archive.content \in Contents
        BY <2>2, <4>1 DEF HasTimes
      <4>3. Block = FindFile(archive.content, Upper(Url.path))
        BY DEF Block
      <4>4. ShownTime(Block) = IF archive.content.times THEN <<Url.archive, Block>> ELSE NoTime
        BY <2>2, <2>4, <4>1, <4>2, <4>3, ShownIsOwn
      <4>5. OwnTime(i)' = IF archive.content.times THEN <<Url.archive, Block>> ELSE NoTime
        BY <2>1, <4>3 DEF OwnTime, ShownBlock, Url
      <4> QED
        BY <3>3, <4>4, <4>5
    <3>5. TimesOfNamed'
      BY <3>4 DEF TimesOfNamed
    <3> QED
      BY <1>b, <2>1, <3>5 DEF TimesInv
  <2> QED
    BY <1>7, <2>3, <2>4 DEF Stat, Answer
<1>8. CASE Get
  <2>1. UNCHANGED <<archive, attributes>> /\ pc' = "idle"
    BY <1>8 DEF Get, Answer
  <2>2. \/ sent' = <<Error>> \/ sent' = <<Message("totalSize"), Error>>
        \/ \E a : sent' = <<Message("totalSize"), Message("mimeType"), DataMessage(a),
                            DataMessage(<<>>), Finished>>
    BY <1>8 DEF Get, Answer
  <2> QED
    BY <1>a, <1>b, <2>1, <2>2, MessagesWithoutFiles
<1>9. CASE Put
  BY <1>9, <1>a, <1>b, MessagesWithoutFiles DEF Put, Answer
<1>10. CASE ListDir
  <2>1. /\ pc = "opened" /\ pc' = "idle" /\ request.command = "listDir"
        /\ UNCHANGED <<archive, attributes, request>>
    BY <1>10 DEF ListDir, Asked, Answer
  <2>2. archive.of = Url.archive /\ archive.content \in Contents
    BY <2>1 DEF IInv, ArchiveInv
  <2>3. archive.content.listed \in Seq(Tokens) /\ Installed \in Seq(Tokens) /\ <<>> \in Seq(Tokens)
    BY <2>2, SlaveAssumption
  <2>4. PICK all \in Seq(Tokens) : sent' = Listing(all)
    BY <1>10, <2>3 DEF ListDir, Answer
  <2>5. ASSUME NEW i \in FilesShown', HasTimes', ~halfRead'
        PROVE  sent'[i].time = OwnTime(i)'
    <3> DEFINE m == Len(Files(all))
               n == Len(Dirs(all))
               ref == Files(all)[i]
               block == FindFile(archive.content, Upper(ref))
    <3>1. i \in DOMAIN Listing(all) /\ IsFile(sent'[i]) /\ sent'[i] = Listing(all)[i]
      BY <2>4, <2>5 DEF FilesShown, IsFile
    <3>2. /\ m \in Nat /\ n \in Nat /\ i \in 1 .. m + n + 2
          /\ Listing(all)[i] = IF i <= m THEN FileAnswer(Files(all)[i])
                               ELSE IF i <= m + n THEN DirAnswer(Dirs(all)[i - m])
                               ELSE <<EndOfList, Finished>>[i - (m + n)]
      BY <3>1, ListingShape
    <3>3. i \in 1 .. m /\ sent'[i] = FileAnswer(ref)
      <4>1. \A r : ~ IsFile(DirAnswer(r))
        BY DEF IsFile, DirAnswer, Entry
      <4>2. ~ IsFile(EndOfList) /\ ~ IsFile(Finished)
        BY DEF IsFile, EndOfList, Finished, Message
      <4> HIDE DEF m, n
      <4>3. CASE ~ (i <= m) /\ i <= m + n
        BY <3>1, <3>2, <4>1, <4>3
      <4>4. CASE ~ (i <= m) /\ ~ (i <= m + n)
        <5>1. i - (m + n) = 1 \/ i - (m + n) = 2
          BY <3>2, <4>4
        <5>2. Listing(all)[i] = <<EndOfList, Finished>>[i - (m + n)]
          BY <3>2, <4>4
        <5>3. Listing(all)[i] = EndOfList \/ Listing(all)[i] = Finished
          BY <5>1, <5>2
        <5> QED
          BY <3>1, <4>2, <5>3
      <4>5. CASE i <= m
        BY <3>1, <3>2, <4>5
      <4> QED
        BY <4>3, <4>4, <4>5
    <3>4. block # 0 /\ sent'[i] = Entry(ref, "file", ShownTime(block))
      <4>1. ~ IsFile(Message("warning"))
        BY DEF IsFile, Message
      <4> HIDE DEF ref
      <4> QED
        BY <3>1, <3>3, <4>1 DEF FileAnswer
    <3>5. ref \in Refs /\ Len(ref) = 1
      <4>1. PICK T : Files(all) \in Seq(Refs) /\ Dirs(all) \in Seq(T)
        BY ListTypes
      <4>2. i \in DOMAIN Files(all)
        BY <3>3, <4>1
      <4>3. ref \in ToSet(Files(all))
        BY <4>2 DEF ToSet
      <4> QED
        BY <4>3, ListedInRoot
    <3> HIDE DEF ref
    <3>6. Upper(ref) = <<sent'[i].name>> /\ sent'[i].time = ShownTime(block)
      <4>1. sent'[i].name = ref[1].name /\ sent'[i].time = ShownTime(block)
        BY <3>4, <3>5 DEF Entry
      <4>2. DOMAIN ref = {1}
        <5>1. ref \in Seq([name : STRING, case : STRING]) \/ \E name : ref = Special(name)
          BY <3>5 DEF Refs, Tokens
        <5>2. \A name : DOMAIN Special(name) = {1}
          BY DEF Special
        <5> QED
          BY <3>5, <5>1, <5>2
      <4> QED
        BY <4>1, <4>2 DEF Upper
    <3>7. HasTimes /\ ~halfRead /\ TimesRead
      BY <2>1, <2>5 DEF HasTimes, attributes, TimesInv
    <3>8. ShownTime(block) = IF archive.content.times THEN <<Url.archive, block>> ELSE NoTime
      <4> HIDE DEF block
      <4> QED
        BY <2>2, <3>4, <3>7, ShownIsOwn DEF block
    <3>9. OwnTime(i)' = IF archive.content.times THEN <<Url.archive, block>> ELSE NoTime
      BY <2>1, <3>6 DEF OwnTime, ShownBlock, Url
    <3> QED
      BY <3>6, <3>8, <3>9
  <2>6. TimesOfNamed'
    BY <2>5 DEF TimesOfNamed
  <2> QED
    BY <1>b, <2>1, <2>6 DEF TimesInv
<1>11. CASE ListDirEnds
  <2>1. sent' = <<>> /\ pc' = "idle" /\ archive' = NoArchive
    BY <1>11 DEF ListDirEnds, Answer
  <2>2. TimesRead'
    BY <2>1 DEF TimesRead, HasTimes
  <2> QED
    BY <1>a, <2>1, <2>2, MessagesWithoutFiles
<1>12. CASE Open
  <2>1. \/ Answer(<<Error>>)
        \/ Answer(<<Message("mimeType")>> \o <<Message("totalSize"), Message("opened")>>)
        \/ Answer(<<>> \o <<Message("totalSize"), Message("opened")>>)
    BY <1>12 DEF Open
  <2>2. UNCHANGED <<archive, attributes>>
    BY <1>12 DEF Open
  <2> QED
    BY <1>a, <1>b, <2>1, <2>2, MessagesWithoutFiles DEF Answer
<1>13. CASE Read
  <2>1. pc' = "idle" /\ UNCHANGED <<archive, attributes>>
    BY <1>13 DEF Read
  <2>2. sent' = <<Error>> \/ \E a : sent' = <<DataMessage(a)>>
    BY <1>13 DEF Read
  <2> QED
    BY <1>a, <1>b, <2>1, <2>2, MessagesWithoutFiles
<1>14. CASE Seek
  BY <1>14, <1>a, <1>b, MessagesWithoutFiles DEF Seek
<1>15. CASE Close
  BY <1>15, <1>a, <1>b, MessagesWithoutFiles DEF Close
<1>16. CASE UNCHANGED vars
  BY <1>16, <1>c DEF vars, TimesInv
<1> QED
  BY <1>1, <1>2, <1>3, <1>4, <1>5, <1>6, <1>7, <1>8, <1>9, <1>10, <1>11, <1>12, <1>13, <1>14,
     <1>15, <1>16 DEF Next, OpenArchive

(* Each file of an archive with attributes is shown with its own time, or  *)
(* with none if the archive has none, whatever archives were opened before *)
(* and without a file of attributes among them, until an archive with      *)
(* attributes that end early fails to open (openArchive(), attributes(),   *)
(* stat(), listDir()).                                                     *)
THEOREM TimesAreOfNamed == Spec => []TimesOfNamed
<1>1. Init => TimesInv
  BY DEF Init, TimesInv, TimesRead, HasTimes, TimesOfNamed, FilesShown
<1>2. TimesInv => TimesOfNamed
  BY DEF TimesInv
<1> QED
  BY <1>1, <1>2, StepTimesInv, IInvHolds, PTL DEF Spec

-----------------------------------------------------------------------------
(***************************************************************************)
(* The root.                                                               *)
(***************************************************************************)
Token == [name : STRING, case : STRING]
FirstOf(entries, name) ==
    LET tokens == FlattenSeq(entries)
    IN  tokens[CHOOSE i \in DOMAIN tokens :
                  /\ tokens[i].name = name
                  /\ \A j \in 1..(i - 1) : tokens[j].name # name]

(* A directory of the root is the first token of its name.                 *)
LEMMA DirOfRoot ==
    ASSUME NEW entries \in Seq(Tokens), NEW ref \in ToSet(entries), Len(ref) > 0
    PROVE  /\ DirOf(entries, <<>>, ref) = <<FirstOf(entries, ref[1].name)>>
           /\ FirstOf(entries, ref[1].name).name = ref[1].name
<1> DEFINE tokens == FlattenSeq(entries)
           name == ref[1].name
           found == {i \in DOMAIN tokens : tokens[i].name = name}
<1>1. ref \in Seq(Token) /\ 1 \in DOMAIN ref
  <2>1. ref \in Tokens
    BY DEF ToSet
  <2> QED
    BY <2>1 DEF Tokens, Token
<1>2. PICK m \in DOMAIN entries : ref = entries[m]
  BY DEF ToSet
<1>3. tokens \in Seq(Token) /\ ToSet(ref) \subseteq ToSet(tokens)
  <2>1. entries \in Seq(Seq(Token))
    BY DEF Tokens, Token
  <2> HIDE DEF Token
  <2> QED
    BY <1>2, <2>1, FlattenMembers
<1>4. found # {} /\ found \in SUBSET Nat
  <2>1. ref[1] \in ToSet(tokens)
    BY <1>1, <1>3 DEF ToSet
  <2>2. PICK i \in DOMAIN tokens : tokens[i] = ref[1]
    BY <2>1 DEF ToSet
  <2>3. DOMAIN tokens = 1 .. Len(tokens) /\ Len(tokens) \in Nat
    BY <1>3
  <2> HIDE DEF tokens
  <2> QED
    BY <2>2, <2>3
<1> HIDE DEF tokens
<1>5. PICK k \in found : \A i \in found : k <= i
  <2> HIDE DEF found
  <2> QED
    BY <1>4, LeastNat
<1>6. /\ k \in DOMAIN tokens /\ tokens[k].name = name
      /\ \A j \in 1..(k - 1) : tokens[j].name # name
  <2>1. DOMAIN tokens = 1 .. Len(tokens) /\ Len(tokens) \in Nat
    BY <1>3
  <2>2. ASSUME NEW j \in 1..(k - 1), tokens[j].name = name
        PROVE  FALSE
    <3>1. j \in found /\ k \in 1 .. Len(tokens)
      BY <2>1, <2>2
    <3> HIDE DEF found
    <3> QED
      BY <1>5, <2>1, <3>1
  <2> QED
    BY <2>2
<1> HIDE DEF found
<1>7. FirstOf(entries, name).name = name
  BY <1>6 DEF FirstOf, tokens
<1>8. SubSeq(ref, 1, Len(<<>>) + 1) = <<ref[1]>>
  <2>1. Len(<<>>) + 1 = 1
    OBVIOUS
  <2>2. SubSeq(ref, 1, 1) = <<ref[1]>>
    <3> DEFINE s == SubSeq(ref, 1, 1)
    <3>1. 1 \in 1 .. Len(ref) /\ Len(ref) \in Nat
      BY <1>1
    <3>2. s \in Seq(Token) /\ Len(s) = 1 /\ s[1] = ref[1]
      <4> HIDE DEF Token
      <4> QED
        BY <1>1, <3>1, SubSeqProperties
    <3> HIDE DEF s, Token
    <3>3. s = [i \in 1 .. 1 |-> s[i]]
      BY <3>2
    <3>4. \A i \in 1 .. 1 : s[i] = ref[1]
      BY <3>2
    <3>5. [i \in 1 .. 1 |-> ref[1]] = <<ref[1]>>
      OBVIOUS
    <3> QED
      BY <3>3, <3>4, <3>5 DEF s
  <2> QED
    BY <2>1, <2>2
<1>9. DirOf(entries, <<>>, ref) = Cased(entries, <<ref[1]>>)
  BY <1>8 DEF DirOf
<1> DEFINE one == <<ref[1]>>
<1>10. DOMAIN one = 1 .. 1 /\ one[1] = ref[1]
  OBVIOUS
<1>11. Cased(entries, one) = [i \in DOMAIN one |-> FirstOf(entries, one[i].name)]
  BY DEF Cased, FirstOf
<1> HIDE DEF one
<1>12. Cased(entries, one) = [i \in 1 .. 1 |-> FirstOf(entries, name)]
  BY <1>10, <1>11
<1>13. [i \in 1 .. 1 |-> FirstOf(entries, name)] = <<FirstOf(entries, name)>>
  <2> HIDE DEF name
  <2> QED
    OBVIOUS
<1> QED
  BY <1>7, <1>9, <1>12, <1>13 DEF one

(* The entries the root goes by.                                           *)
Known(all) == {ref \in ToSet(all) : FindFile(archive.content, Upper(ref)) # 0}
LEMMA RootEntries ==
    ASSUME NEW all \in Seq(Tokens)
    PROVE  /\ ExistingEntries(all, archive.content, <<>>) \in Seq(Tokens)
           /\ ToSet(ExistingEntries(all, archive.content, <<>>)) = {ref \in Known(all) : Len(ref) > 0}
           /\ \A ref : StartsWith(ref, <<>>) <=> Len(ref) > 0
<1>1. \A ref : StartsWith(ref, <<>>) <=> Len(ref) > 0
  <2>1. Len(<<>>) = 0 /\ DOMAIN <<>> = {}
    OBVIOUS
  <2> QED
    BY <2>1 DEF StartsWith
<1> DEFINE chosen == {ref \in ToSet(all) : /\ StartsWith(ref, <<>>)
                                          /\ FindFile(archive.content, Upper(ref)) # 0}
<1>2. /\ Those(all, chosen) \in Seq(Tokens)
      /\ ToSet(Those(all, chosen)) = ToSet(all) \cap chosen
  <2> HIDE DEF chosen
  <2> QED
    BY ThoseProperties
<1>3. ToSet(all) \cap chosen = {ref \in Known(all) : Len(ref) > 0}
  BY <1>1 DEF Known
<1>4. ExistingEntries(all, archive.content, <<>>) = Those(all, chosen)
  BY DEF ExistingEntries
<1> QED
  BY <1>1, <1>2, <1>3, <1>4

(* The files of the root are those that are known there, and the special   *)
(* ones; all of them are found.                                            *)
LEMMA RootFiles ==
    ASSUME NEW all \in Seq(Tokens), Url.path = <<>>
    PROVE  /\ ToSet(Files(all)) = {ref \in Known(all) : Len(ref) = 1} \union
                                    {Special(name) : name \in {name \in SpecialNames : Has(archive.content, name)}}
           /\ \A ref \in ToSet(Files(all)) :
                 Len(ref) = 1 /\ FindFile(archive.content, Upper(ref)) # 0
<1> DEFINE E == ExistingEntries(all, archive.content, <<>>)
           special == {Special(name) : name \in {name \in SpecialNames : Has(archive.content, name)}}
           three == <<Special("(listfile)"), Special("(attributes)"), Special("(signature)")>>
           single == {ref \in ToSet(E) : StartsWith(ref, <<>>) /\ Len(ref) = 1}
<1>1. E \in Seq(Tokens) /\ ToSet(E) = {ref \in Known(all) : Len(ref) > 0}
  BY RootEntries
<1>2. Prefix = <<>>
  BY DEF Prefix
<1>3. Files(all) = Those(E, single) \o Those(three, special)
  BY <1>2 DEF Files, CaseSensitiveFileEntries, Specials
<1>4. three \in Seq(Refs) /\ ToSet(three) = {Special(name) : name \in SpecialNames}
  BY SpecialsAreRefs
<1>5. single = {ref \in Known(all) : Len(ref) = 1}
  <2>1. \A ref : StartsWith(ref, <<>>) <=> Len(ref) > 0
    BY RootEntries
  <2>2. \A ref : Len(ref) = 1 => Len(ref) > 0
    OBVIOUS
  <2> HIDE DEF E
  <2>3. \A ref : ref \in single <=> ref \in Known(all) /\ Len(ref) = 1
    BY <1>1, <2>1, <2>2
  <2> HIDE DEF single
  <2> QED
    BY <2>3
<1>6. ToSet(three) \cap special = special
  BY <1>4
<1>7. E \in Seq(Refs)
  <2>1. Tokens \subseteq Refs
    BY DEF Refs
  <2> HIDE DEF E
  <2> QED
    BY <1>1, <2>1
<1>8. ToSet(E) \cap single = single
  OBVIOUS
<1>9. ASSUME NEW ref \in special
      PROVE  Len(ref) = 1 /\ FindFile(archive.content, Upper(ref)) # 0
  <2>1. PICK name \in SpecialNames : ref = Special(name) /\ Has(archive.content, name)
    BY <1>9
  <2>2. Len(Special(name)) = 1 /\ Upper(Special(name)) = <<name>>
    BY SpecialsAreRefs
  <2> QED
    BY <2>1, <2>2 DEF Has
<1> HIDE DEF E, special, three, single
<1>10. /\ Those(E, single) \in Seq(Refs) /\ ToSet(Those(E, single)) = ToSet(E) \cap single
       /\ Those(three, special) \in Seq(Refs) /\ ToSet(Those(three, special)) = ToSet(three) \cap special
  BY <1>4, <1>7, ThoseProperties
<1>11. ToSet(Files(all)) = single \union special
  BY <1>3, <1>6, <1>8, <1>10, ConcatMembers
<1>12. \A ref \in single : Len(ref) = 1 /\ FindFile(archive.content, Upper(ref)) # 0
  BY <1>5 DEF Known
<1> QED
  BY <1>5, <1>9, <1>11, <1>12 DEF special

(* Its directories are the first tokens of longer paths, each once.        *)
LEMMA RootDirs ==
    ASSUME NEW all \in Seq(Tokens), Url.path = <<>>
    PROVE  /\ \A d \in ToSet(Dirs(all)) : \E ref \in Known(all) :
                 Len(ref) > 1 /\ Len(d) = 1 /\ d[1].name = ref[1].name
           /\ \A ref \in Known(all) : Len(ref) > 1 =>
                 \E d \in ToSet(Dirs(all)) : Len(d) = 1 /\ d[1].name = ref[1].name
           /\ \A i, j \in DOMAIN Dirs(all) : i # j => Dirs(all)[i][1].name # Dirs(all)[j][1].name
<1> DEFINE E == ExistingEntries(all, archive.content, <<>>)
           inner == Those(E, {ref \in ToSet(E) : /\ StartsWith(ref, <<>>)
                                                 /\ Len(ref) > Len(<<>>) + 1})
           F(ref) == <<FirstOf(E, ref[1].name)>>
           ds == [i \in DOMAIN inner |-> DirOf(E, <<>>, inner[i])]
<1>1. E \in Seq(Tokens) /\ ToSet(E) = {ref \in Known(all) : Len(ref) > 0}
  BY RootEntries
<1>2. Dirs(all) = EachOnce(ds)
  <2>1. Prefix = <<>>
    BY DEF Prefix
  <2> QED
    BY <2>1 DEF Dirs, CaseSensitiveDirEntries
<1>3. inner \in Seq(Tokens) /\ ToSet(inner) = {ref \in Known(all) : Len(ref) > 1}
  <2> DEFINE chosen == {ref \in ToSet(E) : StartsWith(ref, <<>>) /\ Len(ref) > Len(<<>>) + 1}
  <2>0. \A ref \in ToSet(all) : Len(ref) \in Nat
    BY DEF ToSet, Tokens
  <2>1. ToSet(E) \cap chosen = {ref \in Known(all) : Len(ref) > 1}
    <3>1. Len(<<>>) + 1 = 1
      OBVIOUS
    <3>2. \A ref \in Known(all) : Len(ref) \in Nat
      BY <2>0 DEF Known
    <3> HIDE DEF E
    <3> QED
      BY <1>1, <3>1, <3>2, RootEntries
  <2> HIDE DEF E, chosen
  <2>2. Those(E, chosen) \in Seq(Tokens) /\ ToSet(Those(E, chosen)) = ToSet(E) \cap chosen
    BY <1>1, ThoseProperties
  <2> QED
    BY <2>1, <2>2 DEF chosen
<1> HIDE DEF E, inner
<1>4. \A ref \in ToSet(inner) : /\ DirOf(E, <<>>, ref) = F(ref)
                               /\ FirstOf(E, ref[1].name).name = ref[1].name
  <2> SUFFICES ASSUME NEW ref \in ToSet(inner)
               PROVE  /\ DirOf(E, <<>>, ref) = F(ref)
                      /\ FirstOf(E, ref[1].name).name = ref[1].name
    OBVIOUS
  <2>1. Len(ref) \in Nat
    BY <1>3 DEF ToSet, Tokens
  <2>2. ref \in ToSet(E) /\ Len(ref) > 0
    BY <1>1, <1>3, <2>1
  <2> QED
    BY <1>1, <2>2, DirOfRoot
<1>5. \A i \in DOMAIN inner : inner[i] \in ToSet(inner)
  BY DEF ToSet
<1> DEFINE T == {F(ref) : ref \in ToSet(inner)}
<1> HIDE DEF F
<1>6. ds \in Seq(T) /\ ToSet(ds) = T
  <2>1. DOMAIN inner = 1 .. Len(inner) /\ Len(inner) \in Nat
    BY <1>3
  <2>2. ds = [i \in 1 .. Len(inner) |-> F(inner[i])]
    BY <1>4, <1>5, <2>1
  <2>3. \A i \in 1 .. Len(inner) : F(inner[i]) \in T
    BY <1>5, <2>1
  <2>4. ds \in Seq(T) /\ DOMAIN ds = 1 .. Len(inner) /\ \A i \in 1 .. Len(inner) : ds[i] = F(inner[i])
    BY <2>1, <2>2, <2>3
  <2> HIDE DEF ds
  <2>5. \A ref \in ToSet(inner) : \E i \in 1 .. Len(inner) : inner[i] = ref
    BY <2>1 DEF ToSet
  <2>6. \A x \in ToSet(ds) : x \in T
    BY <2>3, <2>4 DEF ToSet
  <2>7. \A i \in 1 .. Len(inner) : F(inner[i]) \in ToSet(ds)
    BY <2>4 DEF ToSet
  <2>8. \A ref \in ToSet(inner) : F(ref) \in ToSet(ds)
    BY <2>5, <2>7
  <2> QED
    BY <2>4, <2>6, <2>8
<1> HIDE DEF ds, T
<1>7. Dirs(all) \in Seq(T) /\ Unlike(Dirs(all)) /\ ToSet(Dirs(all)) = T
  BY <1>2, <1>6, EachOnceProperties
<1>8. ASSUME NEW ref \in ToSet(inner)
      PROVE  Len(F(ref)) = 1 /\ F(ref)[1].name = ref[1].name
  <2>1. \A x : Len(<<x>>) = 1 /\ <<x>>[1] = x
    OBVIOUS
  <2> QED
    BY <1>4, <2>1 DEF F
<1>9. \A ref, q \in ToSet(inner) : ref[1].name = q[1].name => F(ref) = F(q)
  BY DEF F
<1>10. \A d \in T : \E ref \in ToSet(inner) : d = F(ref)
  BY DEF T
<1>11. ASSUME NEW i \in DOMAIN Dirs(all), NEW j \in DOMAIN Dirs(all), i # j
       PROVE  Dirs(all)[i][1].name # Dirs(all)[j][1].name
  <2>1. Dirs(all)[i] \in T /\ Dirs(all)[j] \in T /\ Dirs(all)[i] # Dirs(all)[j]
    BY <1>7, <1>11 DEF Unlike
  <2>2. PICK ref \in ToSet(inner), q \in ToSet(inner) : Dirs(all)[i] = F(ref) /\ Dirs(all)[j] = F(q)
    BY <1>10, <2>1
  <2> QED
    BY <1>8, <1>9, <2>1, <2>2
<1>12. \A ref \in ToSet(inner) : F(ref) \in T
  BY DEF T
<1> QED
  BY <1>3, <1>7, <1>8, <1>10, <1>11, <1>12

(* The parts of the answer that tell about files and about directories.    *)
LEMMA RootAnswers ==
    ASSUME NEW all \in Seq(Tokens), Url.path = <<>>, sent' = Listing(all)
    PROVE  LET m == Len(Files(all))
               n == Len(Dirs(all))
           IN  /\ m \in Nat /\ n \in Nat
               /\ Sent("file") = 1 .. m /\ Sent("dir") = m + 1 .. m + n
               /\ \A i \in 1 .. m : sent'[i].name = Files(all)[i][1].name
               /\ \A i \in 1 .. n : sent'[m + i].name = Dirs(all)[i][1].name
<1> DEFINE files == Files(all)
           dirs == Dirs(all)
           m == Len(files)
           n == Len(dirs)
           end == <<EndOfList, Finished>>
<1>1. /\ m \in Nat /\ n \in Nat /\ DOMAIN sent' = 1 .. m + n + 2
      /\ \A i \in DOMAIN sent' :
            sent'[i] = IF i <= m THEN FileAnswer(files[i])
                       ELSE IF i <= m + n THEN DirAnswer(dirs[i - m])
                       ELSE end[i - (m + n)]
  BY ListingShape
<1>2. PICK T : files \in Seq(Refs) /\ dirs \in Seq(T)
  BY ListTypes
<1>3. DOMAIN files = 1 .. m /\ DOMAIN dirs = 1 .. n
  BY <1>2
<1>4. \A i \in 1 .. m : Len(files[i]) = 1 /\ FindFile(archive.content, Upper(files[i])) # 0
  BY <1>3, RootFiles DEF ToSet
<1>5. \A i \in 1 .. n : Len(dirs[i]) = 1
  BY <1>3, RootDirs DEF ToSet
<1>6. \A ref, type, time : Len(ref) = 1 =>
         /\ Entry(ref, type, time).kind = "entry" /\ Entry(ref, type, time).type = type
         /\ Entry(ref, type, time).name = ref[1].name
  BY DEF Entry
<1>7. \A i \in 1 .. m : /\ FileAnswer(files[i]).kind = "entry" /\ FileAnswer(files[i]).type = "file"
                        /\ FileAnswer(files[i]).name = files[i][1].name
  BY <1>4, <1>6 DEF FileAnswer
<1>8. \A i \in 1 .. n : /\ DirAnswer(dirs[i]).kind = "entry" /\ DirAnswer(dirs[i]).type = "dir"
                        /\ DirAnswer(dirs[i]).name = dirs[i][1].name
  BY <1>5, <1>6 DEF DirAnswer
<1>9. \A i \in 1 .. 2 : ~ (end[i].kind = "entry" /\ end[i].type \in {"file", "dir"})
  <2>1. EndOfList.type \notin {"file", "dir"} /\ Finished.kind # "entry"
    BY DEF EndOfList, Finished, Message
  <2>2. end[1] = EndOfList /\ end[2] = Finished
    OBVIOUS
  <2>3. \A i \in 1 .. 2 : i = 1 \/ i = 2
    OBVIOUS
  <2> QED
    BY <2>1, <2>2, <2>3
<1> HIDE DEF files, dirs, m, n, end
<1>10. \A i \in 1 .. m : i \in DOMAIN sent' /\ sent'[i] = FileAnswer(files[i])
  BY <1>1
<1>11. \A i \in 1 .. n : m + i \in DOMAIN sent' /\ sent'[m + i] = DirAnswer(dirs[i])
  <2> SUFFICES ASSUME NEW i \in 1 .. n
               PROVE  m + i \in DOMAIN sent' /\ sent'[m + i] = DirAnswer(dirs[i])
    OBVIOUS
  <2>1. m + i \in DOMAIN sent' /\ ~ (m + i <= m) /\ m + i <= m + n /\ (m + i) - m = i
    BY <1>1
  <2> QED
    BY <1>1, <2>1
<1>12. \A i \in DOMAIN sent' : i \in 1 .. m \/ i - m \in 1 .. n \/ i - (m + n) \in 1 .. 2
  BY <1>1
<1>13. ASSUME NEW i \in DOMAIN sent', i - (m + n) \in 1 .. 2
       PROVE  ~ (sent'[i].kind = "entry" /\ sent'[i].type \in {"file", "dir"})
  <2>1. ~ (i <= m) /\ ~ (i <= m + n)
    BY <1>1, <1>13
  <2>2. sent'[i] = end[i - (m + n)]
    BY <1>1, <2>1
  <2> QED
    BY <1>9, <1>13, <2>2
<1>14. ASSUME NEW i \in DOMAIN sent', i - m \in 1 .. n
       PROVE  sent'[i].kind = "entry" /\ sent'[i].type = "dir"
  <2>1. m + (i - m) = i
    BY <1>1
  <2>2. sent'[i] = DirAnswer(dirs[i - m])
    BY <1>11, <1>14, <2>1
  <2> QED
    BY <1>8, <1>14, <2>2
<1>15. ASSUME NEW i \in 1 .. m
       PROVE  i \in DOMAIN sent' /\ sent'[i].kind = "entry" /\ sent'[i].type = "file"
  BY <1>7, <1>10
<1>16. Sent("file") = 1 .. m
  BY <1>12, <1>13, <1>14, <1>15 DEF Sent
<1>17. Sent("dir") = m + 1 .. m + n
  <2>1. \A i \in DOMAIN sent' : i - m \in 1 .. n <=> i \in m + 1 .. m + n
    BY <1>1
  <2>2. \A i \in m + 1 .. m + n : i \in DOMAIN sent'
    BY <1>1
  <2> QED
    BY <1>12, <1>13, <1>14, <1>15, <2>1, <2>2 DEF Sent
<1> QED
  BY <1>1, <1>7, <1>8, <1>10, <1>11, <1>16, <1>17 DEF m, n, files, dirs

(* The root lists each file in it the listfile names, the files that tell  *)
(* about the others, and each directory in which a file exists, once, for  *)
(* all archives and listfiles (listDir(), caseSensitiveDirEntries()).      *)
THEOREM RootIsListed == Spec => RootListed
<1> DEFINE Listed1 ==
      ListDir /\ Url.path = <<>> /\ IsOnDisk =>
         LET named == IF HasListfile THEN archive.content.listed ELSE Installed
             known == {ref \in {named[i] : i \in DOMAIN named} :
                          FindFile(archive.content, Upper(ref)) # 0}
             special == {name \in SpecialNames : Has(archive.content, name)}
         IN  /\ {sent'[i].name : i \in Sent("file")}
                   = {ref[1].name : ref \in {ref \in known : Len(ref) = 1}} \union special
             /\ {sent'[i].name : i \in Sent("dir")}
                   = {ref[1].name : ref \in {ref \in known : Len(ref) > 1}}
             /\ \A i, j \in Sent("dir") : i # j => sent'[i].name # sent'[j].name
<1>1. ASSUME IInv, ListDir, Url.path = <<>>, IsOnDisk
      PROVE  Listed1
  <2> DEFINE named == IF HasListfile THEN archive.content.listed ELSE Installed
             known == {ref \in {named[i] : i \in DOMAIN named} :
                          FindFile(archive.content, Upper(ref)) # 0}
             special == {name \in SpecialNames : Has(archive.content, name)}
             files == Files(named)
             dirs == Dirs(named)
             m == Len(files)
             n == Len(dirs)
  <2>1. named \in Seq(Tokens)
    <3>1. archive.content \in Contents
      BY <1>1 DEF ListDir, Asked, IInv, ArchiveInv
    <3> QED
      BY <3>1, SlaveAssumption
  <2>2. sent' = Listing(named)
    BY <1>1 DEF ListDir, Answer
  <2>3. known = Known(named)
    BY DEF Known, ToSet
  <2> HIDE DEF named, known
  <2>4. /\ m \in Nat /\ n \in Nat
        /\ Sent("file") = 1 .. m /\ Sent("dir") = m + 1 .. m + n
        /\ \A i \in 1 .. m : sent'[i].name = files[i][1].name
        /\ \A i \in 1 .. n : sent'[m + i].name = dirs[i][1].name
    BY <1>1, <2>1, <2>2, RootAnswers
  <2>5. PICK T : files \in Seq(Refs) /\ dirs \in Seq(T)
    BY <2>1, ListTypes
  <2>6. DOMAIN files = 1 .. m /\ DOMAIN dirs = 1 .. n
    BY <2>5
  <2>7. ToSet(files) = {ref \in known : Len(ref) = 1} \union {Special(name) : name \in special}
    BY <1>1, <2>1, <2>3, RootFiles
  <2>8. /\ \A d \in ToSet(dirs) : \E ref \in known : Len(ref) > 1 /\ d[1].name = ref[1].name
        /\ \A ref \in known : Len(ref) > 1 => \E d \in ToSet(dirs) : d[1].name = ref[1].name
        /\ \A i, j \in DOMAIN dirs : i # j => dirs[i][1].name # dirs[j][1].name
    BY <1>1, <2>1, <2>3, RootDirs
  <2>9. \A name \in special : Special(name)[1].name = name
    BY SpecialsAreRefs
  <2> HIDE DEF files, dirs, m, n, special
  <2>10. {sent'[i].name : i \in Sent("file")}
            = {ref[1].name : ref \in {ref \in known : Len(ref) = 1}} \union special
    <3>1. {sent'[i].name : i \in Sent("file")} = {ref[1].name : ref \in ToSet(files)}
      BY <2>4, <2>6 DEF ToSet
    <3>2. {ref[1].name : ref \in ToSet(files)}
            = {ref[1].name : ref \in {ref \in known : Len(ref) = 1}} \union special
      BY <2>7, <2>9
    <3> QED
      BY <3>1, <3>2
  <2>11. {sent'[i].name : i \in Sent("dir")}
            = {ref[1].name : ref \in {ref \in known : Len(ref) > 1}}
    <3>1. \A i \in m + 1 .. m + n : i - m \in 1 .. n /\ m + (i - m) = i
      BY <2>4
    <3>2. \A i \in 1 .. n : m + i \in m + 1 .. m + n
      BY <2>4
    <3>3. {sent'[i].name : i \in Sent("dir")} = {dirs[i][1].name : i \in 1 .. n}
      BY <2>4, <3>1, <3>2
    <3>4. {dirs[i][1].name : i \in 1 .. n} = {d[1].name : d \in ToSet(dirs)}
      BY <2>6 DEF ToSet
    <3>5. {d[1].name : d \in ToSet(dirs)} = {ref[1].name : ref \in {ref \in known : Len(ref) > 1}}
      BY <2>8
    <3> QED
      BY <3>3, <3>4, <3>5
  <2>12. ASSUME NEW i \in Sent("dir"), NEW j \in Sent("dir"), i # j
         PROVE  sent'[i].name # sent'[j].name
    <3>1. /\ i - m \in 1 .. n /\ m + (i - m) = i /\ j - m \in 1 .. n /\ m + (j - m) = j
          /\ i - m # j - m
      BY <2>4, <2>12
    <3>2. sent'[i].name = dirs[i - m][1].name /\ sent'[j].name = dirs[j - m][1].name
      BY <2>4, <3>1
    <3> QED
      BY <2>6, <2>8, <3>1, <3>2
  <2> QED
    BY <2>10, <2>11, <2>12 DEF named, known, special
<1>2. ASSUME IInv, [Next]_vars
      PROVE  [Listed1]_vars
  <2>1. CASE ListDir /\ Url.path = <<>> /\ IsOnDisk
    <3>1. Listed1
      BY <1>1, <1>2, <2>1
    <3> HIDE DEF Listed1
    <3> QED
      BY <3>1
  <2>2. CASE ~ (ListDir /\ Url.path = <<>> /\ IsOnDisk)
    <3>1. Listed1
      BY Zenon, <2>2
    <3> HIDE DEF Listed1
    <3> QED
      BY <3>1
  <2> QED
    BY <2>1, <2>2
<1> QED
  BY <1>2, IInvHolds, PTL DEF Spec, RootListed

=============================================================================
