------------------------ MODULE EditorSourcesProofs ------------------------
(***************************************************************************)
(* Proofs about EditorSources.  The list is sorted by priority, whatever   *)
(* the operations that made it, and so are the settings: that a file comes *)
(* from a source of the highest priority, and that a restart keeps the     *)
(* sources, follows.  addSource() of many items is a fold: it is taken     *)
(* apart into the lists after each of the items.                           *)
(***************************************************************************)
EXTENDS EditorSources, FoldLemmas, SequenceTheorems

Item == [url : AllUrls, priority : Nat]

-----------------------------------------------------------------------------
(* An entry goes to a position of the list or behind its end.              *)
LEMMA UpperBoundType ==
    ASSUME NEW s \in Seq(Source), NEW p \in Nat
    PROVE  /\ UpperBound(s, p) \in 1 .. Len(s) + 1
           /\ \A i \in DOMAIN s : s[i].priority <= p => i < UpperBound(s, p)
           /\ UpperBound(s, p) > 1 => s[UpperBound(s, p) - 1].priority <= p
<1> DEFINE T == {i \in DOMAIN s : s[i].priority <= p} \union {0}
<1>1. T \in SUBSET (0 .. Len(s)) /\ T # {}
  OBVIOUS
<1>2. Max(T) \in T /\ \A x \in T : x <= Max(T)
  <2>1. Len(s) \in Nat
    OBVIOUS
  <2> HIDE DEF T
  <2> QED
    BY <1>1, <2>1, MaxOfBounded
<1>3. UpperBound(s, p) = Max(T) + 1
  BY DEF UpperBound
<1>4. Max(T) \in 0 .. Len(s)
  BY <1>1, <1>2
<1> DEFINE m == Max(T)
<1>5. m \in 0 .. Len(s) /\ m \in T /\ \A x \in T : x <= m
  BY <1>2, <1>4
<1> HIDE DEF m
<1>6. m + 1 > 1 => s[m].priority <= p
  BY <1>5
<1>7. \A i \in DOMAIN s : s[i].priority <= p => i < m + 1
  BY <1>5
<1>8. UpperBound(s, p) = m + 1
  BY <1>3 DEF m
<1> QED
  BY <1>5, <1>6, <1>7, <1>8

(* Where the elements are after one was put in.                            *)
LEMMA InsertAtProperties ==
    ASSUME NEW S, NEW s \in Seq(S), NEW e \in S, NEW k \in 1 .. Len(s) + 1
    PROVE  /\ InsertAt(s, k, e) \in Seq(S)
           /\ Len(InsertAt(s, k, e)) = Len(s) + 1
           /\ \A i \in 1 .. Len(s) + 1 : InsertAt(s, k, e)[i] =
                IF i < k THEN s[i] ELSE IF i = k THEN e ELSE s[i - 1]
<1> DEFINE a == SubSeq(s, 1, k - 1)
           b == SubSeq(s, k, Len(s))
<1>1. a \in Seq(S) /\ Len(a) = k - 1 /\ \A i \in 1 .. k - 1 : a[i] = s[i]
  BY SubSeqProperties
<1>2. b \in Seq(S) /\ Len(b) = Len(s) + 1 - k /\ \A i \in 1 .. Len(s) + 1 - k : b[i] = s[k + i - 1]
  BY SubSeqProperties
<1>3. InsertAt(s, k, e) = a \o <<e>> \o b
  BY DEF InsertAt
<1> HIDE DEF a, b
<1>4. <<e>> \in Seq(S) /\ Len(<<e>>) = 1 /\ <<e>>[1] = e
  OBVIOUS
<1>5. /\ a \o <<e>> \in Seq(S) /\ Len(a \o <<e>>) = k
      /\ \A i \in 1 .. k : (a \o <<e>>)[i] = IF i < k THEN s[i] ELSE e
  BY <1>1, <1>4, ConcatProperties
<1>6. /\ a \o <<e>> \o b \in Seq(S) /\ Len(a \o <<e>> \o b) = Len(s) + 1
      /\ \A i \in 1 .. Len(s) + 1 : (a \o <<e>> \o b)[i] =
            IF i <= k THEN (a \o <<e>>)[i] ELSE b[i - k]
  <2> DEFINE c == a \o <<e>>
  <2>1. c \in Seq(S) /\ Len(c) = k
    BY <1>5
  <2> HIDE DEF c
  <2>2. /\ c \o b \in Seq(S) /\ Len(c \o b) = Len(s) + 1
        /\ \A i \in 1 .. Len(s) + 1 : (c \o b)[i] = IF i <= k THEN c[i] ELSE b[i - k]
    BY <1>2, <2>1, ConcatProperties
  <2> QED
    BY <2>2 DEF c
<1>7. \A i \in k + 1 .. Len(s) + 1 : b[i - k] = s[i - 1]
  BY <1>2
<1> QED
  BY <1>3, <1>5, <1>6, <1>7

(* Where they are after one was taken out.                                 *)
LEMMA RemoveAtProperties ==
    ASSUME NEW S, NEW s \in Seq(S), NEW k \in 1 .. Len(s)
    PROVE  /\ RemoveAt(s, k) \in Seq(S)
           /\ Len(RemoveAt(s, k)) = Len(s) - 1
           /\ \A i \in 1 .. Len(s) - 1 : RemoveAt(s, k)[i] = IF i < k THEN s[i] ELSE s[i + 1]
<1> DEFINE a == SubSeq(s, 1, k - 1)
           b == SubSeq(s, k + 1, Len(s))
<1>1. a \in Seq(S) /\ Len(a) = k - 1 /\ \A i \in 1 .. k - 1 : a[i] = s[i]
  BY SubSeqProperties
<1>2. b \in Seq(S) /\ Len(b) = Len(s) - k /\ \A i \in 1 .. Len(s) - k : b[i] = s[k + i]
  BY SubSeqProperties
<1>3. RemoveAt(s, k) = a \o b
  BY DEF RemoveAt
<1> HIDE DEF a, b
<1>4. /\ a \o b \in Seq(S) /\ Len(a \o b) = Len(s) - 1
      /\ \A i \in 1 .. Len(s) - 1 : (a \o b)[i] = IF i < k THEN a[i] ELSE b[i - (k - 1)]
  BY <1>1, <1>2, ConcatProperties
<1>5. \A i \in k .. Len(s) - 1 : b[i - (k - 1)] = s[i + 1]
  BY <1>2
<1> QED
  BY <1>1, <1>3, <1>4, <1>5

-----------------------------------------------------------------------------
(***************************************************************************)
(* addSource() of many: the list after each of them.                       *)
(***************************************************************************)
AddOne(s, i) == IF Accepted(i.url) THEN Insert(s, Entry(i.url, i.priority)) ELSE s
ListStages(h, s, items) ==
    /\ h \in [0 .. Len(items) -> Seq(Source)]
    /\ h[0] = s
    /\ \A k \in 1 .. Len(items) : h[k] = AddOne(h[k - 1], items[k])
    /\ h[Len(items)] = AddAll(s, items)

(* An item gives an entry, and a list of entries stays one.                *)
LEMMA AddOneType ==
    ASSUME NEW s \in Seq(Source), NEW i \in Item
    PROVE  Entry(i.url, i.priority) \in Source /\ AddOne(s, i) \in Seq(Source)
<1>1. Entry(i.url, i.priority) \in Source
  BY DEF Entry, Source, Item
<1>2. UpperBound(s, Entry(i.url, i.priority).priority) \in 1 .. Len(s) + 1
  BY <1>1, UpperBoundType DEF Source
<1>3. Insert(s, Entry(i.url, i.priority)) \in Seq(Source)
  BY <1>1, <1>2, InsertAtProperties DEF Insert
<1> QED
  BY <1>1, <1>3 DEF AddOne

(* The loop of addSources() leaves a list after each of its elements: a    *)
(* stage follows from the one before it by one insertion.                  *)
LEMMA AddAllStages ==
    ASSUME NEW s \in Seq(Source), NEW items \in Seq(Item)
    PROVE  \E h : ListStages(h, s, items)
<1> DEFINE D == DOMAIN items
           X == Seq(Source)
           step == [p \in X \X Item |-> AddOne(p[1], p[2])]
           Fold(it) == [x \in SUBSET D |->
                IF x = {} THEN s ELSE AddOne(it[x \ {Max(x)}], items[Max(x)])]
<1>1. step \in [X \X Item -> X]
  <2> SUFFICES ASSUME NEW x \in X, NEW i \in Item PROVE AddOne(x, i) \in X
    OBVIOUS
  <2> QED
    BY AddOneType
<1>2. \A x \in X, i \in Item : step[<<x, i>>] = AddOne(x, i)
  OBVIOUS
<1>3. s \in X /\ \A k \in D : items[k] \in Item
  OBVIOUS
<1> HIDE DEF X, step
<1> HIDE DEF D, Fold
<1>g. PICK g : SeqFold(g, items, X, Item, s, step)
  BY <1>1, <1>3, SeqFoldExists
<1>4. /\ g \in [SUBSET D -> X]
      /\ g[{}] = s
      /\ \A T \in SUBSET D : T # {} =>
           /\ Max(T) \in D /\ items[Max(T)] \in Item /\ g[T \ {Max(T)}] \in X
           /\ g[T] = step[<<g[T \ {Max(T)}], items[Max(T)]>>]
  BY <1>g DEF SeqFold, D
<1> USE DEF Fold
<1>5. g = Fold(g)
  <2>1. \A T \in SUBSET D : T # {} => g[T] = AddOne(g[T \ {Max(T)}], items[Max(T)])
    BY <1>2, <1>4
  <2> QED
    BY <1>4, <2>1
<1> DEFINE c == CHOOSE it : it = Fold(it)
<1>6. c = Fold(c)
  BY <1>5
<1>7. AddAll(s, items) = c[D]
  BY Zenon DEF AddAll, FoldLeft, MapThenFoldSet, AddOne, D
<1> HIDE DEF c
<1>8. FoldsSeq(c, items, X, s, step)
  <2>1. c[{}] = s
    BY <1>6
  <2>2. ASSUME NEW T \in SUBSET D, T # {}, c[T \ {Max(T)}] \in X
        PROVE  c[T] = step[<<c[T \ {Max(T)}], items[Max(T)]>>]
    <3>1. c[T] = AddOne(c[T \ {Max(T)}], items[Max(T)])
      BY <1>6, <2>2
    <3>2. items[Max(T)] \in Item
      BY <1>4, <2>2
    <3> QED
      BY <1>2, <2>2, <3>1, <3>2
  <2> QED
    BY <2>1, <2>2 DEF FoldsSeq, D
<1> HIDE DEF Fold
<1>h. PICK h : StagesOf(c, h, items, X, s, step)
  BY <1>1, <1>3, <1>8, SeqFoldStages
<1>9. Stages(h, items, X, s, step) /\ h[Len(items)] = c[DOMAIN items]
  BY <1>h DEF StagesOf
<1>10. \A k \in 1 .. Len(items) : h[k - 1] \in X /\ items[k] \in Item
  <2>1. Len(items) \in Nat /\ D = 1 .. Len(items)
    BY DEF D
  <2>2. h \in [0 .. Len(items) -> X]
    BY <1>9 DEF Stages
  <2>3. \A k \in 1 .. Len(items) : k - 1 \in 0 .. Len(items)
    BY <2>1
  <2> QED
    BY <1>3, <2>1, <2>2, <2>3
<1>11. ListStages(h, s, items)
  BY <1>2, <1>7, <1>9, <1>10 DEF Stages, ListStages, X, D
<1> QED
  BY <1>11

-----------------------------------------------------------------------------
(***************************************************************************)
(* The order of the list.                                                  *)
(***************************************************************************)
Sorted(s) == \A i, j \in DOMAIN s : i < j => s[i].priority <= s[j].priority

(* The entries of a list of sources have natural priorities.               *)
LEMMA PriorityType ==
    ASSUME NEW s \in Seq(Source)
    PROVE  \A x \in 1 .. Len(s) : s[x] \in Source /\ s[x].priority \in Nat
<1>1. \A x \in 1 .. Len(s) : s[x] \in Source
  OBVIOUS
<1>2. \A e \in Source : e.priority \in Nat
  BY DEF Source
<1> QED
  BY <1>1, <1>2

(* What is known of one stage and the next.                                *)
LEMMA NextStage ==
    ASSUME NEW s, NEW items \in Seq(Item), NEW h, ListStages(h, s, items),
           NEW k \in 0 .. Len(items) - 1
    PROVE  /\ k \in 0 .. Len(items) /\ k + 1 \in 1 .. Len(items)
           /\ h[k] \in Seq(Source)
           /\ items[k + 1] \in Item /\ items[k + 1].priority \in Nat
           /\ h[k + 1] = AddOne(h[k], items[k + 1])
<1>1. Len(items) \in Nat
  OBVIOUS
<1>2. k \in 0 .. Len(items) /\ k + 1 \in 1 .. Len(items) /\ (k + 1) - 1 = k
  BY <1>1
<1>3. h[k] \in Seq(Source) /\ h[k + 1] = AddOne(h[k], items[k + 1])
  BY <1>2 DEF ListStages
<1>4. items[k + 1] \in Item
  BY <1>2
<1>5. \A i \in Item : i.priority \in Nat
  BY DEF Item
<1> QED
  BY <1>2, <1>3, <1>4, <1>5

(* insert() keeps it.                                                      *)
LEMMA AddOneSorted ==
    ASSUME NEW s \in Seq(Source), Sorted(s), NEW i \in Item
    PROVE  Sorted(AddOne(s, i))
<1> DEFINE e == Entry(i.url, i.priority)
           k == UpperBound(s, i.priority)
           t == InsertAt(s, k, e)
<1>1. e \in Source /\ e.priority = i.priority /\ i.priority \in Nat
  BY AddOneType DEF Entry, Item
<1>2. /\ k \in 1 .. Len(s) + 1
      /\ \A x \in DOMAIN s : s[x].priority <= i.priority => x < k
      /\ k > 1 => s[k - 1].priority <= i.priority
  BY <1>1, UpperBoundType
<1>3. t = Insert(s, e)
  BY <1>1 DEF Insert
<1> HIDE DEF e, k
<1>4. /\ t \in Seq(Source) /\ Len(t) = Len(s) + 1
      /\ \A x \in 1 .. Len(s) + 1 : t[x] = IF x < k THEN s[x] ELSE IF x = k THEN e ELSE s[x - 1]
  BY <1>1, <1>2, InsertAtProperties
<1>5. \A x \in 1 .. Len(s) : s[x].priority \in Nat
  BY PriorityType
<1>6. \A x \in 1 .. k - 1 : s[x].priority <= i.priority
  <2> SUFFICES ASSUME NEW x \in 1 .. k - 1 PROVE s[x].priority <= i.priority
    OBVIOUS
  <2>1. x \in 1 .. Len(s) /\ k - 1 \in 1 .. Len(s) /\ x <= k - 1
    BY <1>2
  <2>2. s[x].priority <= s[k - 1].priority
    BY <2>1, <1>5 DEF Sorted
  <2> QED
    BY <1>1, <1>2, <1>5, <2>1, <2>2
<1>7. \A x \in k .. Len(s) : i.priority <= s[x].priority
  BY <1>1, <1>2, <1>5
<1> HIDE DEF t
<1>8. \A x, y \in 1 .. Len(s) + 1 : x < y => t[x].priority <= t[y].priority
  <2> SUFFICES ASSUME NEW x \in 1 .. Len(s) + 1, NEW y \in 1 .. Len(s) + 1, x < y
               PROVE  t[x].priority <= t[y].priority
    OBVIOUS
  <2>0. \A a, b \in 1 .. Len(s) : a < b => s[a].priority <= s[b].priority
    BY DEF Sorted
  <2>1. CASE y < k
    BY <2>0, <2>1, <1>2, <1>4
  <2>2. CASE y = k
    BY <2>2, <1>1, <1>2, <1>4, <1>6
  <2>3. CASE y > k /\ x < k
    <3>1. x \in 1 .. Len(s) /\ y - 1 \in 1 .. Len(s) /\ (x < y - 1 \/ x = y - 1)
      BY <2>3, <1>2
    <3>2. t[x] = s[x] /\ t[y] = s[y - 1]
      BY <2>3, <1>2, <1>4
    <3>3. x \in 1 .. k - 1 /\ y - 1 \in k .. Len(s)
      BY <2>3, <1>2
    <3>4. s[x].priority <= i.priority /\ i.priority <= s[y - 1].priority
      BY <1>6, <1>7, <3>3
    <3>5. s[x].priority \in Nat /\ s[y - 1].priority \in Nat
      BY <1>2, <1>5, <3>3
    <3> QED
      BY <1>1, <3>2, <3>4, <3>5
  <2>4. CASE y > k /\ x = k
    BY <2>4, <1>1, <1>2, <1>4, <1>7
  <2>5. CASE y > k /\ x > k
    <3>1. x - 1 \in 1 .. Len(s) /\ y - 1 \in 1 .. Len(s) /\ x - 1 < y - 1
      BY <2>5, <1>2
    <3>2. t[x] = s[x - 1] /\ t[y] = s[y - 1]
      BY <2>5, <1>2, <1>4
    <3> QED
      BY <2>0, <3>1, <3>2
  <2> QED
    BY <1>2, <2>1, <2>2, <2>3, <2>4, <2>5
<1>9. Sorted(t)
  <2>1. DOMAIN t = 1 .. Len(s) + 1
    BY <1>4
  <2> QED
    BY <1>8, <2>1 DEF Sorted
<1> QED
  BY <1>3, <1>9 DEF AddOne, e

(* So does adding many.                                                    *)
LEMMA AddAllSorted ==
    ASSUME NEW s \in Seq(Source), Sorted(s), NEW items \in Seq(Item)
    PROVE  AddAll(s, items) \in Seq(Source) /\ Sorted(AddAll(s, items))
<1>1. PICK h : ListStages(h, s, items)
  BY AddAllStages
<1> DEFINE n == Len(items)
           Good == {k \in 0 .. n : Sorted(h[k])}
<1>2. n \in Nat
  OBVIOUS
<1>3. 0 \in Good
  BY <1>1, <1>2 DEF ListStages
<1>4. \A k \in 0 .. n - 1 : k \in Good => k + 1 \in Good
  <2> SUFFICES ASSUME NEW k \in 0 .. n - 1, Sorted(h[k])
               PROVE  k + 1 \in 0 .. n /\ Sorted(h[k + 1])
    OBVIOUS
  <2>1. k \in 0 .. n /\ k + 1 \in 1 .. n /\ (k + 1) - 1 = k
    BY <1>2
  <2>2. h[k + 1] = AddOne(h[k], items[k + 1]) /\ h[k] \in Seq(Source) /\ items[k + 1] \in Item
    BY <1>1, NextStage
  <2> QED
    BY <2>1, <2>2, AddOneSorted
<1> HIDE DEF Good
<1>5. \A k \in 0 .. n : k \in Good
  BY <1>2, <1>3, <1>4, InductionTo
<1> QED
  BY <1>1, <1>2, <1>5 DEF Good, ListStages

(* And taking one out.                                                     *)
LEMMA RemoveAtSorted ==
    ASSUME NEW s \in Seq(Source), Sorted(s), NEW k \in DOMAIN s
    PROVE  RemoveAt(s, k) \in Seq(Source) /\ Sorted(RemoveAt(s, k))
<1>1. k \in 1 .. Len(s)
  OBVIOUS
<1>2. /\ RemoveAt(s, k) \in Seq(Source)
      /\ Len(RemoveAt(s, k)) = Len(s) - 1
      /\ \A i \in 1 .. Len(s) - 1 : RemoveAt(s, k)[i] = IF i < k THEN s[i] ELSE s[i + 1]
  BY <1>1, RemoveAtProperties
<1> DEFINE t == RemoveAt(s, k)
<1>3. DOMAIN t = 1 .. Len(s) - 1
  BY <1>2
<1> HIDE DEF t
<1>4. \A i, j \in 1 .. Len(s) - 1 : i < j => t[i].priority <= t[j].priority
  <2> SUFFICES ASSUME NEW i \in 1 .. Len(s) - 1, NEW j \in 1 .. Len(s) - 1, i < j
               PROVE  t[i].priority <= t[j].priority
    OBVIOUS
  <2>1. \A a, b \in 1 .. Len(s) : a < b => s[a].priority <= s[b].priority
    BY DEF Sorted
  <2> QED
    BY <1>1, <1>2, <2>1 DEF t
<1> QED
  BY <1>2, <1>3, <1>4 DEF Sorted, t

(* Adding accepted items that are sorted appends them.                     *)
LEMMA SortedItemsAppend ==
    ASSUME NEW items \in Seq(Item), Sorted(items),
           \A i \in DOMAIN items : Accepted(items[i].url)
    PROVE  Plain(AddAll(<<>>, items)) = items
<1>1. PICK h : ListStages(h, <<>>, items)
  <2>1. <<>> \in Seq(Source)
    OBVIOUS
  <2> QED
    BY <2>1, AddAllStages
<1> DEFINE n == Len(items)
           Same(t, k) == /\ Len(t) = k
                         /\ \A i \in 1 .. k : /\ t[i].url = items[i].url
                                              /\ t[i].priority = items[i].priority
           Good == {k \in 0 .. n : Same(h[k], k)}
<1>2. n \in Nat
  OBVIOUS
<1>3. 0 \in Good
  BY <1>1, <1>2 DEF ListStages
<1>4. \A k \in 0 .. n - 1 : k \in Good => k + 1 \in Good
  <2> SUFFICES ASSUME NEW k \in 0 .. n - 1, Same(h[k], k)
               PROVE  k + 1 \in 0 .. n /\ Same(h[k + 1], k + 1)
    OBVIOUS
  <2> DEFINE i == items[k + 1]
             t == h[k]
             e == Entry(i.url, i.priority)
             m == UpperBound(t, i.priority)
  <2>1. k \in 0 .. n /\ k + 1 \in 1 .. n /\ (k + 1) - 1 = k
    BY <1>2
  <2>2. h[k + 1] = Insert(t, e) /\ t \in Seq(Source) /\ i \in Item /\ i.priority \in Nat
    <3>1. k + 1 \in DOMAIN items
      BY <2>1
    <3>2. Accepted(items[k + 1].url)
      BY <3>1
    <3> QED
      BY <1>1, <2>1, <3>2, NextStage DEF AddOne
  <2>3. e \in Source /\ e.url = i.url /\ e.priority = i.priority
    BY <2>2, AddOneType DEF Entry
  <2>4. m \in 1 .. k + 1 /\ \A x \in 1 .. k : t[x].priority <= i.priority => x < m
    BY <2>2, UpperBoundType
  <2>5. \A x \in 1 .. k : t[x].priority <= i.priority
    <3> SUFFICES ASSUME NEW x \in 1 .. k PROVE t[x].priority <= i.priority
      OBVIOUS
    <3>1. x \in DOMAIN items /\ k + 1 \in DOMAIN items /\ x < k + 1
      BY <2>1
    <3> QED
      BY <3>1 DEF Sorted
  <2>6. m = k + 1
    <3>1. k # 0 => k < m
      BY <2>4, <2>5, <2>1
    <3> HIDE DEF m
    <3> QED
      BY <2>1, <2>4, <3>1
  <2>7. h[k + 1] = InsertAt(t, k + 1, e)
    BY <2>2, <2>3, <2>6 DEF Insert
  <2> HIDE DEF e, m, t
  <2>8. Len(t) = k
    BY DEF t
  <2>9. /\ Len(InsertAt(t, k + 1, e)) = k + 1
        /\ \A x \in 1 .. k + 1 : InsertAt(t, k + 1, e)[x] =
                IF x < k + 1 THEN t[x] ELSE IF x = k + 1 THEN e ELSE t[x - 1]
    <3>1. k + 1 \in 1 .. Len(t) + 1
      BY <2>1, <2>8
    <3>2. t \in Seq(Source)
      BY <2>2 DEF t
    <3>3. e \in Source
      BY <2>3 DEF e
    <3>4. /\ Len(InsertAt(t, k + 1, e)) = Len(t) + 1
          /\ \A x \in 1 .. Len(t) + 1 : InsertAt(t, k + 1, e)[x] =
                IF x < k + 1 THEN t[x] ELSE IF x = k + 1 THEN e ELSE t[x - 1]
      BY <3>1, <3>2, <3>3, InsertAtProperties
    <3> QED
      BY <2>8, <3>4
  <2>10. \A x \in 1 .. k : t[x].url = items[x].url /\ t[x].priority = items[x].priority
    BY DEF t
  <2>11. \A x \in 1 .. k + 1 : /\ h[k + 1][x].url = items[x].url
                               /\ h[k + 1][x].priority = items[x].priority
    <3> SUFFICES ASSUME NEW x \in 1 .. k + 1
                 PROVE  /\ h[k + 1][x].url = items[x].url
                        /\ h[k + 1][x].priority = items[x].priority
      OBVIOUS
    <3>1. CASE x = k + 1
      BY <2>1, <2>3, <2>7, <2>9, <3>1
    <3>2. CASE x # k + 1
      <4>1. x \in 1 .. k /\ x < k + 1
        BY <2>1, <3>2
      <4> QED
        BY <2>7, <2>9, <2>10, <4>1
    <3> QED
      BY <3>1, <3>2
  <2> QED
    BY <2>1, <2>7, <2>9, <2>11
<1> HIDE DEF Good
<1>5. \A k \in 0 .. n : k \in Good
  BY <1>2, <1>3, <1>4, InductionTo
<1> DEFINE t == AddAll(<<>>, items)
<1>6. t = h[n] /\ t \in Seq(Source)
  BY <1>1, <1>2 DEF ListStages
<1>7. Same(t, n)
  BY <1>2, <1>5, <1>6 DEF Good
<1> HIDE DEF t
<1>8. DOMAIN t = 1 .. n /\ DOMAIN items = 1 .. n
  BY <1>6, <1>7
<1>9. \A i \in 1 .. n : [url |-> t[i].url, priority |-> t[i].priority] = items[i]
  <2>1. \A i \in 1 .. n : items[i] \in Item
    OBVIOUS
  <2>2. \A x \in Item : [url |-> x.url, priority |-> x.priority] = x
    BY DEF Item
  <2> QED
    BY <1>7, <2>1, <2>2
<1>10. Plain(t) = [i \in 1 .. n |-> items[i]]
  BY <1>8, <1>9 DEF Plain
<1> QED
  BY <1>8, <1>10 DEF t

(* The items of the dialog, accepted all, come out in the opposite order.  *)
LEMMA RankedType ==
    ASSUME NEW urls \in Seq(AllUrls)
    PROVE  Ranked(urls) \in Seq(Item) /\ Len(Ranked(urls)) = Len(urls)
<1>1. \A i \in 1 .. Len(urls) : urls[i] \in AllUrls /\ Len(urls) + 1 - i \in Nat
  OBVIOUS
<1>2. \A i \in 1 .. Len(urls) : [url |-> urls[i], priority |-> Len(urls) + 1 - i] \in Item
  BY <1>1 DEF Item
<1>3. Ranked(urls) = [i \in 1 .. Len(urls) |-> [url |-> urls[i], priority |-> Len(urls) + 1 - i]]
  BY DEF Ranked
<1>4. Ranked(urls) \in Seq(Item)
  BY <1>2, <1>3, IsASeq
<1> QED
  BY <1>3, <1>4, LenProperties

(* Adding accepted archives, each ranked above those before it, turns      *)
(* their order around.                                                     *)
LEMMA RankedItemsPrepend ==
    ASSUME NEW urls \in Seq(AllUrls), \A i \in DOMAIN urls : Accepted(urls[i])
    PROVE  UrlsOf(AddAll(<<>>, Ranked(urls))) = Reverse(urls)
<1> DEFINE n == Len(urls)
           items == Ranked(urls)
<1>1. n \in Nat /\ items \in Seq(Item) /\ Len(items) = n
  BY RankedType
<1>2. \A i \in 1 .. n : items[i].url = urls[i] /\ items[i].priority = n + 1 - i
  BY DEF Ranked
<1> HIDE DEF items
<1>3. PICK h : ListStages(h, <<>>, items)
  <2>1. <<>> \in Seq(Source)
    OBVIOUS
  <2> QED
    BY <1>1, <2>1, AddAllStages
<1> DEFINE Turned(t, k) == /\ Len(t) = k
                           /\ \A i \in 1 .. k : /\ t[i].url = urls[k + 1 - i]
                                                /\ t[i].priority = n - k + i
           Good == {k \in 0 .. n : Turned(h[k], k)}
<1>4. 0 \in Good
  BY <1>1, <1>3 DEF ListStages
<1>5. \A k \in 0 .. n - 1 : k \in Good => k + 1 \in Good
  <2> SUFFICES ASSUME NEW k \in 0 .. n - 1, Turned(h[k], k)
               PROVE  k + 1 \in 0 .. n /\ Turned(h[k + 1], k + 1)
    OBVIOUS
  <2> DEFINE i == items[k + 1]
             t == h[k]
             e == Entry(i.url, i.priority)
             m == UpperBound(t, i.priority)
  <2>1. k \in 0 .. n /\ k + 1 \in 1 .. n /\ k \in Nat
    BY <1>1
  <2>2. i.url = urls[k + 1] /\ i.priority = n - k /\ i \in Item /\ i.priority \in Nat
    BY <1>1, <1>2, <2>1
  <2>3. h[k + 1] = Insert(t, e) /\ t \in Seq(Source)
    <3>1. k + 1 \in DOMAIN urls
      BY <2>1
    <3>2. Accepted(i.url)
      BY <2>2, <3>1
    <3>3. k \in 0 .. Len(items) - 1
      BY <1>1
    <3>4. t \in Seq(Source) /\ h[k + 1] = AddOne(t, i)
      BY <1>1, <1>3, <3>3, NextStage
    <3> QED
      BY <3>2, <3>4 DEF AddOne
  <2>4. e \in Source /\ e.url = urls[k + 1] /\ e.priority = n - k
    <3>1. e \in Source
      BY <2>2, <2>3, AddOneType
    <3> QED
      BY <2>2, <3>1 DEF Entry
  <2>5. Len(t) = k /\ \A x \in 1 .. k : t[x].url = urls[k + 1 - x] /\ t[x].priority = n - k + x
    OBVIOUS
  <2>6. h[k + 1] = InsertAt(t, m, e)
    BY <2>2, <2>3, <2>4 DEF Insert
  <2>7. m \in 1 .. k + 1 /\ (m > 1 => t[m - 1].priority <= n - k)
    BY <2>2, <2>3, <2>5, UpperBoundType
  <2> HIDE DEF e, m, t
  <2>8. m = 1
    <3> SUFFICES ASSUME m > 1 PROVE FALSE
      BY <2>1, <2>7
    <3>1. m - 1 \in 1 .. k
      BY <2>1, <2>7
    <3>2. t[m - 1].priority = n - k + (m - 1)
      BY <2>5, <3>1
    <3> QED
      BY <1>1, <2>1, <2>7, <3>1, <3>2
  <2>9. /\ Len(InsertAt(t, 1, e)) = Len(t) + 1
        /\ \A x \in 1 .. Len(t) + 1 : InsertAt(t, 1, e)[x] =
              IF x < 1 THEN t[x] ELSE IF x = 1 THEN e ELSE t[x - 1]
    <3>1. 1 \in 1 .. Len(t) + 1
      BY <2>1, <2>5
    <3>2. t \in Seq(Source) /\ e \in Source
      BY <2>3, <2>4 DEF e, t
    <3> QED
      BY <3>1, <3>2, InsertAtProperties
  <2>10. \A x \in 1 .. k + 1 : /\ h[k + 1][x].url = urls[k + 1 + 1 - x]
                               /\ h[k + 1][x].priority = n - (k + 1) + x
    <3> SUFFICES ASSUME NEW x \in 1 .. k + 1
                 PROVE  /\ h[k + 1][x].url = urls[k + 1 + 1 - x]
                        /\ h[k + 1][x].priority = n - (k + 1) + x
      OBVIOUS
    <3>1. CASE x = 1
      <4>1. h[k + 1][x] = e
        BY <2>1, <2>5, <2>6, <2>8, <2>9, <3>1
      <4>2. k + 1 + 1 - x = k + 1 /\ n - (k + 1) + x = n - k
        BY <1>1, <2>1, <3>1
      <4> QED
        BY <2>4, <4>1, <4>2
    <3>2. CASE x # 1
      <4>1. x - 1 \in 1 .. k /\ ~ (x < 1) /\ x \in 1 .. Len(t) + 1
        BY <2>1, <2>5, <3>2
      <4>2. h[k + 1][x] = t[x - 1]
        BY <2>6, <2>8, <2>9, <3>2, <4>1
      <4>3. k + 1 + 1 - x = k + 1 - (x - 1) /\ n - (k + 1) + x = n - k + (x - 1)
        BY <1>1, <2>1
      <4> QED
        BY <2>5, <4>1, <4>2, <4>3
    <3> QED
      BY <3>1, <3>2
  <2>11. Len(h[k + 1]) = k + 1
    BY <2>5, <2>6, <2>8, <2>9
  <2> QED
    BY <2>1, <2>10, <2>11
<1> HIDE DEF Good
<1>6. \A k \in 0 .. n : k \in Good
  BY <1>1, <1>4, <1>5, InductionTo
<1> DEFINE t == AddAll(<<>>, items)
<1>7. t = h[n] /\ t \in Seq(Source)
  BY <1>1, <1>3 DEF ListStages
<1>8. Turned(t, n)
  <2>1. n \in 0 .. n
    BY <1>1
  <2>2. n \in Good
    BY <1>6, <2>1
  <2>3. Turned(h[n], n)
    BY <2>2 DEF Good
  <2> HIDE DEF n
  <2> QED
    BY <1>7, <2>3
<1> HIDE DEF t
<1>9. DOMAIN t = 1 .. n
  BY <1>7, <1>8
<1>10. \A i \in 1 .. n : t[i].url = urls[(n - i) + 1]
  <2> SUFFICES ASSUME NEW i \in 1 .. n PROVE t[i].url = urls[(n - i) + 1]
    OBVIOUS
  <2>1. n + 1 - i = (n - i) + 1
    BY <1>1
  <2> QED
    BY <1>8, <2>1
<1> QED
  BY <1>9, <1>10 DEF UrlsOf, Reverse, t, items

-----------------------------------------------------------------------------
(***************************************************************************)
(* The invariant: the list and the settings are sorted by priority.        *)
(***************************************************************************)
TypeOK ==
    /\ sources \in Seq(Source)
    /\ settings \in Seq(Item)
    /\ dialog \in [open : BOOLEAN, items : Seq(AllUrls)]
InOrder == Sorted(sources) /\ Sorted(settings)
IInv == TypeOK /\ InOrder

(* What saving the settings keeps of a list is a list of items in the same *)
(* order.                                                                  *)
LEMMA PlainProperties ==
    ASSUME NEW s \in Seq(Source)
    PROVE  Plain(s) \in Seq(Item) /\ (Sorted(s) => Sorted(Plain(s)))
<1>1. \A i \in 1 .. Len(s) : [url |-> s[i].url, priority |-> s[i].priority] \in Item
  <2>1. \A e \in Source : [url |-> e.url, priority |-> e.priority] \in Item
    BY DEF Source, Item
  <2> QED
    BY <2>1, PriorityType
<1>2. Plain(s) = [i \in 1 .. Len(s) |-> [url |-> s[i].url, priority |-> s[i].priority]]
  BY DEF Plain
<1>3. Plain(s) \in Seq(Item)
  BY <1>1, <1>2, IsASeq
<1>4. Sorted(s) => Sorted(Plain(s))
  BY <1>2 DEF Sorted
<1> QED
  BY <1>3, <1>4

(* The paths of a list are as many as its entries.                         *)
LEMMA UrlsProperties ==
    ASSUME NEW s \in Seq(Source)
    PROVE  UrlsOf(s) \in Seq(AllUrls) /\ Len(UrlsOf(s)) = Len(s)
<1>1. \A i \in 1 .. Len(s) : s[i].url \in AllUrls
  <2>1. \A e \in Source : e.url \in AllUrls
    BY DEF Source
  <2> QED
    BY <2>1, PriorityType
<1>2. UrlsOf(s) = [i \in 1 .. Len(s) |-> s[i].url]
  BY DEF UrlsOf
<1>3. UrlsOf(s) \in Seq(AllUrls)
  BY <1>1, <1>2, IsASeq
<1> QED
  BY <1>2, <1>3, LenProperties

(* Turning a sequence around twice gives the sequence.                     *)
LEMMA ReverseProperties ==
    ASSUME NEW S, NEW s \in Seq(S)
    PROVE  Reverse(s) \in Seq(S) /\ Len(Reverse(s)) = Len(s) /\ Reverse(Reverse(s)) = s
<1>1. Len(s) \in Nat
  OBVIOUS
<1>2. \A i \in 1 .. Len(s) : (Len(s) - i) + 1 \in 1 .. Len(s) /\ (Len(s) - ((Len(s) - i) + 1)) + 1 = i
  BY <1>1
<1>3. Reverse(s) = [i \in 1 .. Len(s) |-> s[(Len(s) - i) + 1]]
  BY DEF Reverse
<1>4. \A i \in 1 .. Len(s) : s[(Len(s) - i) + 1] \in S
  BY <1>2
<1>5. Reverse(s) \in Seq(S)
  BY <1>1, <1>3, <1>4, IsASeq
<1>6. Len(Reverse(s)) = Len(s)
  BY <1>1, <1>3, <1>5, LenProperties
<1>7. Reverse(Reverse(s)) = [i \in 1 .. Len(s) |-> Reverse(s)[(Len(s) - i) + 1]]
  BY <1>6 DEF Reverse
<1>8. \A i \in 1 .. Len(s) : Reverse(s)[(Len(s) - i) + 1] = s[i]
  BY <1>2, <1>3
<1>9. s = [i \in 1 .. Len(s) |-> s[i]]
  OBVIOUS
<1> QED
  BY <1>5, <1>6, <1>7, <1>8, <1>9

(* The default archives and the sites of downloads are archives the editor *)
(* names.                                                                  *)
LEMMA DefaultsType ==
    ASSUME SourcesAssumption
    PROVE  /\ RankedDefaults \in Seq(Item)
           /\ BareDefaults \in Seq(AllUrls)
           /\ Sites \subseteq AllUrls
<1>1. Defaults \in Seq(Archives) /\ FirstDefault \in Nat
  BY DEF SourcesAssumption
<1>2. Sites \subseteq AllUrls /\ Archives \subseteq AllUrls /\ Range(BareDefaults) \subseteq AllUrls
  BY DEF AllUrls, Sites
<1>3. \A i \in 1 .. Len(Defaults) : Defaults[i] \in AllUrls /\ FirstDefault + i - 1 \in Nat
  BY <1>1, <1>2
<1>4. \A i \in 1 .. Len(Defaults) :
        [url |-> Defaults[i], priority |-> FirstDefault + i - 1] \in Item
  BY <1>3 DEF Item
<1>5. RankedDefaults = [i \in 1 .. Len(Defaults) |->
                            [url |-> Defaults[i], priority |-> FirstDefault + i - 1]]
  BY <1>1 DEF RankedDefaults
<1>6. RankedDefaults \in Seq(Item)
  BY <1>1, <1>4, <1>5, IsASeq
<1>7. BareDefaults \in Seq(Range(BareDefaults))
  BY DEF SourcesAssumption
<1>8. BareDefaults \in Seq(AllUrls)
  <2> DEFINE R == Range(BareDefaults)
  <2>1. BareDefaults \in Seq(R) /\ R \subseteq AllUrls
    BY <1>2, <1>7
  <2> HIDE DEF R
  <2> QED
    BY <2>1, SeqMonotonic
<1> QED
  BY <1>2, <1>6, <1>8

(* The editor starts with ordered lists.                                   *)
LEMMA InitInv == SourcesAssumption /\ Init => IInv
<1> SUFFICES ASSUME Init PROVE IInv
  OBVIOUS
<1>1. <<>> \in Seq(Source) /\ <<>> \in Seq(Item) /\ <<>> \in Seq(AllUrls)
  OBVIOUS
<1>2. TypeOK
  BY <1>1 DEF Init, TypeOK, NoDialog
<1>3. InOrder
  BY DEF Init, InOrder, Sorted
<1> QED
  BY <1>2, <1>3 DEF IInv

(* The lists that the dialog shows and the edits leave.                    *)
LEMMA ShownType ==
    ASSUME NEW items \in Seq(AllUrls)
    PROVE  Shown(items) \in [open : BOOLEAN, items : Seq(AllUrls)]
BY DEF Shown
(* A closed dialog is a dialog.                                            *)
LEMMA NoDialogType == NoDialog \in [open : BOOLEAN, items : Seq(AllUrls)]
<1>1. <<>> \in Seq(AllUrls)
  OBVIOUS
<1> QED
  BY <1>1 DEF NoDialog

(* Every step keeps the lists of their type and in order.                  *)
LEMMA StepInv == SourcesAssumption /\ IInv /\ [Next]_vars => IInv'
<1> SUFFICES ASSUME SourcesAssumption, IInv, [Next]_vars PROVE IInv'
  OBVIOUS
<1> USE DEF IInv, TypeOK, InOrder
<1>0. /\ sources \in Seq(Source) /\ Sorted(sources)
      /\ settings \in Seq(Item) /\ Sorted(settings)
      /\ dialog.items \in Seq(AllUrls)
      /\ <<>> \in Seq(Source) /\ Sorted(<<>>)
  BY DEF Sorted
<1>1. CASE Start
  <2>1. sources' \in Seq(Source) /\ Sorted(sources')
    BY <1>0, <1>1, AddAllSorted DEF Start
  <2>2. dialog' \in [open : BOOLEAN, items : Seq(AllUrls)]
    <3>1. UrlsOf(sources') \in Seq(AllUrls)
      BY <2>1, UrlsProperties
    <3>2. Reverse(UrlsOf(sources')) \in Seq(AllUrls)
      BY <3>1, ReverseProperties
    <3> QED
      BY <1>1, <3>2, ShownType DEF Start
  <2> QED
    BY <1>0, <1>1, <2>1, <2>2 DEF Start
<1>2. CASE Quit
  BY <1>0, <1>2, PlainProperties, NoDialogType DEF Quit
<1>3. CASE Die
  BY <1>0, <1>3, NoDialogType DEF Die
<1>4. CASE Show
  <2>1. Reverse(UrlsOf(sources)) \in Seq(AllUrls)
    BY <1>0, UrlsProperties, ReverseProperties
  <2> QED
    BY <1>0, <1>4, <2>1, ShownType DEF Show
<1>5. ASSUME NEW items \in Seq(AllUrls), Edit(items) PROVE IInv'
  BY <1>0, <1>5, ShownType DEF Edit
<1>6. CASE Cancel
  BY <1>0, <1>6, NoDialogType DEF Cancel
<1>7. ASSUME NEW next \in {dialog, NoDialog}, Apply(next) PROVE IInv'
  <2>1. Ranked(dialog.items) \in Seq(Item)
    BY <1>0, RankedType
  <2>2. sources' \in Seq(Source) /\ Sorted(sources')
    BY <1>0, <1>7, <2>1, AddAllSorted DEF Apply
  <2>3. settings' \in Seq(Item) /\ Sorted(settings')
    BY <1>7, <2>2, PlainProperties DEF Apply
  <2>4. dialog' \in [open : BOOLEAN, items : Seq(AllUrls)]
    BY <1>7, NoDialogType DEF Apply
  <2> QED
    BY <2>2, <2>3, <2>4
<1>8. ASSUME NEW s \in Seq(Source), Sorted(s), CallList(s) PROVE IInv'
  BY <1>0, <1>8 DEF CallList
<1>9. ASSUME NEW u \in Sites, NEW p \in Priorities, AddSource(u, p) PROVE IInv'
  <2> DEFINE i == [url |-> u, priority |-> p]
  <2>1. i \in Item
    BY DefaultsType DEF Item, SourcesAssumption
  <2>2. AddOne(sources, i) = Insert(sources, Entry(u, p))
    BY <1>9 DEF AddOne, AddSource
  <2>3. Insert(sources, Entry(u, p)) \in Seq(Source) /\ Sorted(Insert(sources, Entry(u, p)))
    BY <1>0, <2>1, <2>2, AddOneType, AddOneSorted
  <2> QED
    BY <1>8, <1>9, <2>3 DEF AddSource
<1>10. ASSUME NEW u \in Sites, RemoveUrl(u) PROVE IInv'
  <2> DEFINE T == {i \in DOMAIN sources : sources[i].url = u}
  <2>1. T \in SUBSET Nat /\ T # {}
    BY <1>0, <1>10 DEF RemoveUrl
  <2>2. Min(T) \in T
    BY <2>1, MinOfNumbers
  <2>3. Min(T) \in DOMAIN sources
    BY <2>2
  <2>4. RemoveAt(sources, Min(T)) \in Seq(Source) /\ Sorted(RemoveAt(sources, Min(T)))
    BY <1>0, <2>3, RemoveAtSorted
  <2> QED
    BY <1>8, <1>10, <2>4 DEF RemoveUrl
<1>11. ASSUME NEW e, RemoveSource(e) PROVE IInv'
  BY <1>0, <1>8, <1>11, RemoveAtSorted DEF RemoveSource
<1>12. CASE AddDefaultSources
  <2>1. PICK added \in 0 .. Len(Defaults) :
            CallList(AddAll(sources, SubSeq(RankedDefaults, 1, added)))
    <3> DEFINE failing == {i \in DOMAIN Defaults : ~Accepted(Defaults[i]) \/ Throws(Defaults[i])}
               added == IF failing = {} THEN Len(Defaults) ELSE Min(failing) - 1
    <3>1. Len(Defaults) \in Nat /\ DOMAIN Defaults = 1 .. Len(Defaults)
      BY DEF SourcesAssumption
    <3>2. failing # {} => Min(failing) \in 1 .. Len(Defaults)
      <4>1. failing \in SUBSET (1 .. Len(Defaults)) /\ failing \in SUBSET Nat
        BY <3>1
      <4> HIDE DEF failing
      <4> QED
        BY <4>1, MinOfNumbers
    <3>3. added \in 0 .. Len(Defaults)
      <4> HIDE DEF failing
      <4> QED
        BY <3>1, <3>2
    <3> QED
      BY <1>12, <3>3 DEF AddDefaultSources
  <2>2. RankedDefaults \in Seq(Item) /\ Len(RankedDefaults) = Len(Defaults)
    <3>1. DOMAIN RankedDefaults = 1 .. Len(Defaults) /\ Len(Defaults) \in Nat
      BY DEF RankedDefaults, SourcesAssumption
    <3>2. RankedDefaults \in Seq(Item)
      BY DefaultsType
    <3> QED
      BY <3>1, <3>2, LenProperties
  <2>3. SubSeq(RankedDefaults, 1, added) \in Seq(Item)
    <3>1. Len(Defaults) \in Nat
      BY DEF SourcesAssumption
    <3>2. \A i \in 1 .. added : i \in 1 .. Len(RankedDefaults)
      BY <2>2, <3>1
    <3> QED
      BY <2>2, <3>1, <3>2, SubSeqProperties
  <2>4. /\ AddAll(sources, SubSeq(RankedDefaults, 1, added)) \in Seq(Source)
        /\ Sorted(AddAll(sources, SubSeq(RankedDefaults, 1, added)))
    BY <1>0, <2>3, AddAllSorted
  <2> QED
    BY <1>8, <2>1, <2>4
<1>13. CASE ClearSources
  BY <1>0, <1>8, <1>13 DEF ClearSources
<1>14. CASE UNCHANGED <<running, sources, dialog, settings>>
  BY <1>14
<1>15. ASSUME NEW u \in Sites, AddItem(u) PROVE IInv'
  <2>1. Append(dialog.items, u) \in Seq(AllUrls)
    BY <1>0, DefaultsType
  <2> QED
    BY <1>5, <1>15, <2>1 DEF AddItem
<1>16. ASSUME NEW u \in Sites, NEW v \in Sites, Prepend(<<u, v>>) PROVE IInv'
  <2>1. <<u, v>> \in Seq(AllUrls)
    BY DefaultsType
  <2>2. Reverse(<<u, v>>) \in Seq(AllUrls)
    BY <2>1, ReverseProperties
  <2>3. Reverse(<<u, v>>) \o dialog.items \in Seq(AllUrls)
    BY <1>0, <2>2, ConcatProperties
  <2> QED
    BY <1>5, <1>16, <2>3 DEF Prepend
<1>17. CASE ClearItems
  <2>1. <<>> \in Seq(AllUrls)
    OBVIOUS
  <2> QED
    BY <1>5, <1>17, <2>1 DEF ClearItems
<1>18. CASE RestoreDefaults
  BY <1>5, <1>18, DefaultsType DEF RestoreDefaults
<1>19. CASE UNCHANGED vars
  BY <1>14, <1>19 DEF vars
<1> HIDE DEF IInv
<1> QED
  BY <1>1, <1>2, <1>3, <1>4, <1>6, <1>7, <1>9, <1>10, <1>11, <1>12, <1>13, <1>14, <1>15,
     <1>16, <1>17, <1>18, <1>19 DEF Next, Kill, ApplyThrows, Change

-----------------------------------------------------------------------------
(* The lists of every reachable state are typed and ordered.               *)
LEMMA Invariance == Spec => []IInv
<1>1. Init => IInv
  BY InitInv, SourcesAssumption
<1>2. IInv /\ [Next]_vars => IInv'
  BY StepInv, SourcesAssumption
<1> QED
  BY <1>1, <1>2, PTL DEF Spec

(* A file comes from a source of the highest priority that has it, for any *)
(* sources, priorities, and lengths of the list, whatever was added,       *)
(* removed, applied in the dialog or read from the settings.               *)
THEOREM HighestPriority == Spec => []HighestPriorityServes
<1>1. IInv => HighestPriorityServes
  <2> SUFFICES ASSUME IInv, NEW f, NEW i \in Holders(f)
               PROVE  sources[i].priority <= Serving(f).priority
    BY DEF HighestPriorityServes
  <2>1. sources \in Seq(Source) /\ Sorted(sources)
    BY DEF IInv, TypeOK, InOrder
  <2>2. Len(sources) \in Nat /\ DOMAIN sources = 1 .. Len(sources)
    BY <2>1
  <2>3. Holders(f) \in SUBSET (0 .. Len(sources)) /\ Holders(f) \in SUBSET DOMAIN sources
    BY <2>2 DEF Holders
  <2>4. Max(Holders(f)) \in Holders(f) /\ i <= Max(Holders(f))
    BY <2>2, <2>3, MaxOfBounded
  <2>5. i \in DOMAIN sources /\ Max(Holders(f)) \in DOMAIN sources
    BY <2>3, <2>4
  <2>6. sources[i].priority \in Nat
    BY <2>1, <2>2, <2>5, PriorityType
  <2> QED
    BY <2>1, <2>2, <2>4, <2>5, <2>6 DEF Sorted, Serving
<1> QED
  BY <1>1, Invariance, PTL

(* A restart gives back the sources that were saved, with their priorities *)
(* and in their order, if none of them went missing: entries are put       *)
(* behind those of their priority, and they were saved in order.           *)
THEOREM RestartKeeps == Spec => RestartKeepsSources
<1>1. IInv => [Start /\ (\A i \in DOMAIN settings : Accepted(settings[i].url))
                => Plain(sources') = settings]_vars
  <2> SUFFICES ASSUME IInv, Start, \A i \in DOMAIN settings : Accepted(settings[i].url)
               PROVE  Plain(sources') = settings
    OBVIOUS
  <2>1. settings \in Seq(Item) /\ Sorted(settings)
    BY DEF IInv, TypeOK, InOrder
  <2>2. Plain(AddAll(<<>>, settings)) = settings
    BY <2>1, SortedItemsAppend
  <2> QED
    BY <2>2 DEF Start
<1> QED
  BY <1>1, Invariance, PTL DEF RestartKeepsSources

(* Applying the items the dialog was opened with leaves the order in which *)
(* the sources are searched: the ranks fall, so every item is put before   *)
(* those added already, and the list was turned around to be shown.        *)
THEOREM DialogKeeps == Spec => DialogKeepsOrder
<1>1. IInv => [\A next \in {dialog, NoDialog} :
                    /\ Apply(next)
                    /\ dialog.items = Reverse(UrlsOf(sources))
                    /\ \A i \in DOMAIN sources : Accepted(sources[i].url)
                    => UrlsOf(sources') = UrlsOf(sources)]_vars
  <2> SUFFICES ASSUME IInv, NEW next \in {dialog, NoDialog}, Apply(next),
                      dialog.items = Reverse(UrlsOf(sources)),
                      \A i \in DOMAIN sources : Accepted(sources[i].url)
               PROVE  UrlsOf(sources') = UrlsOf(sources)
    OBVIOUS
  <2>1. sources \in Seq(Source)
    BY DEF IInv, TypeOK
  <2> DEFINE urls == UrlsOf(sources)
  <2>2. urls \in Seq(AllUrls) /\ Len(urls) = Len(sources)
    BY <2>1, UrlsProperties
  <2>3. \A i \in 1 .. Len(sources) : Accepted(urls[i])
    BY <2>1 DEF UrlsOf
  <2> HIDE DEF urls
  <2>4. /\ Reverse(urls) \in Seq(AllUrls) /\ Len(Reverse(urls)) = Len(urls)
        /\ Reverse(Reverse(urls)) = urls
    BY <2>2, ReverseProperties
  <2>5. \A i \in DOMAIN Reverse(urls) : Accepted(Reverse(urls)[i])
    <3>1. \A i \in 1 .. Len(urls) : (Len(urls) - i) + 1 \in 1 .. Len(urls)
      BY <2>2
    <3> QED
      BY <2>2, <2>3, <3>1 DEF Reverse
  <2>6. UrlsOf(AddAll(<<>>, Ranked(Reverse(urls)))) = urls
    BY <2>4, <2>5, RankedItemsPrepend
  <2> QED
    BY <2>6 DEF Apply, urls
<1> QED
  BY <1>1, Invariance, PTL DEF DialogKeepsOrder
=============================================================================
