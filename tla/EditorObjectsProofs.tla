------------------------ MODULE EditorObjectsProofs ------------------------
(***************************************************************************)
(* Theorems about the objects and the tree that shows them.                *)
(*                                                                         *)
(* The invariant is Good, of data and tree together.  It also holds of the *)
(* states within a call, after each signal: an operation is a sequence of  *)
(* createObject(), modifyField() and deleteObject(), and each keeps it.    *)
(***************************************************************************)
EXTENDS EditorObjects, FoldLemmas, SequenceTheorems

(* Functions from some elements of A to B, as maps of the code are.        *)
Partial(A, B) == UNION {[D -> B] : D \in SUBSET A}

(* What they are.                                                          *)
LEMMA PartialIs ==
    \A A, B, f : f \in Partial(A, B) <=> DOMAIN f \subseteq A /\ f \in [DOMAIN f -> B]
<1> SUFFICES ASSUME NEW A, NEW B, NEW f
             PROVE  f \in Partial(A, B) <=> DOMAIN f \subseteq A /\ f \in [DOMAIN f -> B]
  OBVIOUS
<1>1. ASSUME f \in Partial(A, B) PROVE DOMAIN f \subseteq A /\ f \in [DOMAIN f -> B]
  <2>1. PICK D \in SUBSET A : f \in [D -> B]
    BY <1>1 DEF Partial
  <2> QED
    BY <2>1
<1>2. ASSUME DOMAIN f \subseteq A, f \in [DOMAIN f -> B] PROVE f \in Partial(A, B)
  <2>1. DOMAIN f \in SUBSET A
    BY <1>2
  <2> QED
    BY <1>2, <2>1 DEF Partial
<1> QED
  BY <1>1, <1>2

(* They may get another value, lose some, or have none.                    *)
LEMMA PartialSet ==
    ASSUME NEW A, NEW B, NEW f \in Partial(A, B), NEW x \in A, NEW y \in B
    PROVE  [i \in DOMAIN f \union {x} |-> IF i = x THEN y ELSE f[i]] \in Partial(A, B)
<1>1. DOMAIN f \subseteq A /\ \A i \in DOMAIN f : f[i] \in B
  BY PartialIs
<1> DEFINE h == [i \in DOMAIN f \union {x} |-> IF i = x THEN y ELSE f[i]]
<1>2. DOMAIN h \subseteq A /\ h \in [DOMAIN h -> B]
  BY <1>1
<1> QED
  BY <1>2, PartialIs

(* Some of the elements are left out.                                      *)
LEMMA PartialKept ==
    ASSUME NEW A, NEW B, NEW f \in Partial(A, B), NEW D, D \subseteq DOMAIN f
    PROVE  [i \in D |-> f[i]] \in Partial(A, B)
<1>1. DOMAIN f \subseteq A /\ \A i \in DOMAIN f : f[i] \in B
  BY PartialIs
<1> DEFINE h == [i \in D |-> f[i]]
<1>2. DOMAIN h \subseteq A /\ h \in [DOMAIN h -> B]
  BY <1>1
<1> QED
  BY <1>2, PartialIs

(* A map without elements.                                                 *)
LEMMA PartialNone ==
    \A A, B : <<>> \in Partial(A, B)
<1>1. DOMAIN <<>> = {}
  OBVIOUS
<1>2. \A B : <<>> \in [{} -> B]
  OBVIOUS
<1> QED
  BY <1>1, <1>2, PartialIs

-----------------------------------------------------------------------------
(* The children of one folder.                                             *)
(* appendChild().                                                          *)
LEMMA Appended ==
    ASSUME NEW T, NEW s \in Seq(T), NEW x \in T
    PROVE  /\ Append(s, x) \in Seq(T) /\ Range(Append(s, x)) = Range(s) \union {x}
           /\ IsInjective(s) /\ x \notin Range(s) => IsInjective(Append(s, x))
<1> DEFINE b == Append(s, x)
<1>1. /\ b \in Seq(T) /\ Len(s) \in Nat
      /\ \A i \in 1 .. Len(s) : b[i] = s[i]
      /\ b[Len(s) + 1] = x
      /\ DOMAIN s = 1 .. Len(s) /\ DOMAIN b = 1 .. Len(s) + 1
  OBVIOUS
<1> HIDE DEF b
<1>2. Range(b) = Range(s) \union {x}
  BY <1>1 DEF Range
<1>3. ASSUME IsInjective(s), x \notin Range(s) PROVE IsInjective(b)
  <2> SUFFICES ASSUME NEW i \in 1 .. Len(s) + 1, NEW j \in 1 .. Len(s) + 1, b[i] = b[j]
               PROVE  i = j
    BY <1>1 DEF IsInjective
  <2>1. \A k \in 1 .. Len(s) : s[k] # x
    BY <1>1, <1>3 DEF Range
  <2>2. CASE i \in 1 .. Len(s) /\ j \in 1 .. Len(s)
    BY <1>1, <1>3, <2>2 DEF IsInjective
  <2>3. CASE i = Len(s) + 1 \/ j = Len(s) + 1
    <3>1. \A k \in 1 .. Len(s) + 1 : k \in 1 .. Len(s) \/ k = Len(s) + 1
      BY <1>1
    <3> QED
      BY <1>1, <2>1, <2>3, <3>1
  <2> QED
    BY <1>1, <2>2, <2>3
<1> QED
  BY <1>1, <1>2, <1>3 DEF b

(* removeChild() is a loop over the children.                              *)
Pass(t, i, item) == IF i = item THEN t ELSE Append(t, i)
PassStages(h, s, T, item) ==
    /\ h \in [0 .. Len(s) -> Seq(T)]
    /\ h[0] = <<>>
    /\ \A k \in 1 .. Len(s) : h[k] = Pass(h[k - 1], s[k], item)
    /\ h[Len(s)] = Without(s, item)
(* There is such a list after each child.                                  *)
LEMMA WithoutStages ==
    ASSUME NEW T, NEW s \in Seq(T), NEW item
    PROVE  \E h : PassStages(h, s, T, item)
<1> DEFINE D == DOMAIN s
           X == Seq(T)
           step == [p \in X \X T |-> Pass(p[1], p[2], item)]
           Fold(it) == [x \in SUBSET D |->
                IF x = {} THEN <<>> ELSE Pass(it[x \ {Max(x)}], s[Max(x)], item)]
<1>1. step \in [X \X T -> X]
  BY DEF Pass
<1>2. \A x \in X, i \in T : step[<<x, i>>] = Pass(x, i, item)
  OBVIOUS
<1>3. <<>> \in X /\ \A k \in D : s[k] \in T
  OBVIOUS
<1> HIDE DEF X, step, D, Fold
<1>g. PICK g : SeqFold(g, s, X, T, <<>>, step)
  BY <1>1, <1>3, SeqFoldExists
<1>4. /\ g \in [SUBSET D -> X]
      /\ g[{}] = <<>>
      /\ \A S \in SUBSET D : S # {} =>
           /\ Max(S) \in D /\ s[Max(S)] \in T /\ g[S \ {Max(S)}] \in X
           /\ g[S] = step[<<g[S \ {Max(S)}], s[Max(S)]>>]
  BY <1>g DEF SeqFold, D
<1> USE DEF Fold
<1>5. g = Fold(g)
  <2>1. \A S \in SUBSET D : S # {} => g[S] = Pass(g[S \ {Max(S)}], s[Max(S)], item)
    BY <1>2, <1>4
  <2> QED
    BY <1>4, <2>1
<1> DEFINE c == CHOOSE it : it = Fold(it)
<1>6. c = Fold(c)
  BY <1>5
<1>7. Without(s, item) = c[D]
  BY Zenon DEF Without, FoldLeft, MapThenFoldSet, Pass, D
<1> HIDE DEF c
<1>8. FoldsSeq(c, s, X, <<>>, step)
  <2>1. c[{}] = <<>>
    BY <1>6
  <2>2. ASSUME NEW S \in SUBSET D, S # {}, c[S \ {Max(S)}] \in X
        PROVE  c[S] = step[<<c[S \ {Max(S)}], s[Max(S)]>>]
    <3>1. c[S] = Pass(c[S \ {Max(S)}], s[Max(S)], item)
      BY <1>6, <2>2
    <3>2. s[Max(S)] \in T
      BY <1>4, <2>2
    <3> QED
      BY <1>2, <2>2, <3>1, <3>2
  <2> QED
    BY <2>1, <2>2 DEF FoldsSeq, D
<1> HIDE DEF Fold
<1>h. PICK h : StagesOf(c, h, s, X, <<>>, step)
  BY <1>1, <1>3, <1>8, SeqFoldStages
<1>9. Stages(h, s, X, <<>>, step) /\ h[Len(s)] = c[DOMAIN s]
  BY <1>h DEF StagesOf
<1>10. \A k \in 1 .. Len(s) : h[k - 1] \in X /\ s[k] \in T
  <2>1. Len(s) \in Nat /\ D = 1 .. Len(s)
    BY DEF D
  <2>2. h \in [0 .. Len(s) -> X]
    BY <1>9 DEF Stages
  <2>3. \A k \in 1 .. Len(s) : k - 1 \in 0 .. Len(s)
    BY <2>1
  <2> QED
    BY <1>3, <2>1, <2>2, <2>3
<1>11. PassStages(h, s, T, item)
  BY <1>2, <1>7, <1>9, <1>10 DEF Stages, PassStages, X, D
<1> QED
  BY <1>11

(* It leaves the other children, each once.                                *)
LEMMA WithoutProperties ==
    ASSUME NEW T, NEW s \in Seq(T), NEW item, IsInjective(s)
    PROVE  /\ Without(s, item) \in Seq(T)
           /\ Range(Without(s, item)) = Range(s) \ {item}
           /\ IsInjective(Without(s, item))
<1> DEFINE n == Len(s)
           Seen(k) == {s[i] : i \in 1 .. k}
<1>1. n \in Nat /\ DOMAIN s = 1 .. n /\ \A k \in 1 .. n : s[k] \in T
  OBVIOUS
<1>2. PICK h : PassStages(h, s, T, item)
  BY WithoutStages
<1> DEFINE Good == {k \in 0 .. n : IsInjective(h[k]) /\ Range(h[k]) = Seen(k) \ {item}}
<1>3. 0 \in Good
  BY <1>1, <1>2 DEF PassStages, Range, IsInjective
<1>4. \A k \in 0 .. n - 1 : k \in Good => k + 1 \in Good
  <2> SUFFICES ASSUME NEW k \in 0 .. n - 1, IsInjective(h[k]), Range(h[k]) = Seen(k) \ {item}
               PROVE  /\ k + 1 \in 0 .. n /\ IsInjective(h[k + 1])
                      /\ Range(h[k + 1]) = Seen(k + 1) \ {item}
    OBVIOUS
  <2>1. k \in 0 .. n /\ k + 1 \in 0 .. n /\ k + 1 \in 1 .. n /\ (k + 1) - 1 = k
    BY <1>1
  <2>2. h[k] \in Seq(T) /\ h[k + 1] = Pass(h[k], s[k + 1], item) /\ s[k + 1] \in T
    BY <1>1, <1>2, <2>1 DEF PassStages
  <2>3. Seen(k + 1) = Seen(k) \union {s[k + 1]}
    <3>1. \A i : i \in 1 .. k + 1 <=> i \in 1 .. k \/ i = k + 1
      BY <2>1
    <3> QED
      BY <3>1
  <2>4. s[k + 1] \notin Seen(k)
    <3>1. \A i \in 1 .. k : i \in 1 .. n /\ i # k + 1
      BY <1>1, <2>1
    <3> QED
      BY <1>1, <2>1, <3>1 DEF IsInjective
  <2> HIDE DEF Seen
  <2>5. CASE s[k + 1] = item
    BY <2>1, <2>2, <2>3, <2>5 DEF Pass
  <2>6. CASE s[k + 1] # item
    <3> DEFINE a == h[k]
               x == s[k + 1]
    <3>1. a \in Seq(T) /\ x \in T /\ IsInjective(a) /\ x \notin Range(a)
      BY <2>2, <2>4
    <3>2. h[k + 1] = Append(a, x)
      BY <2>2, <2>6 DEF Pass
    <3> HIDE DEF a, x
    <3>3. Range(Append(a, x)) = Range(a) \union {x} /\ IsInjective(Append(a, x))
      BY <3>1, Appended
    <3> QED
      BY <2>1, <2>3, <2>6, <3>2, <3>3 DEF a, x
  <2> QED
    BY <2>5, <2>6
<1>5. n \in Good
  <2> HIDE DEF Good
  <2>1. \A k \in 0 .. n : k \in Good
    BY <1>1, <1>3, <1>4, InductionTo
  <2> QED
    BY <1>1, <2>1
<1>6. Seen(n) = Range(s)
  BY <1>1 DEF Range
<1>7. h[n] = Without(s, item) /\ h[n] \in Seq(T)
  BY <1>1, <1>2 DEF PassStages
<1> QED
  BY <1>5, <1>6, <1>7

(* removeRows() takes at most this child out.                              *)
LEMMA RowRemovedProperties ==
    ASSUME NEW T, NEW s \in Seq(T), NEW item, IsInjective(s)
    PROVE  /\ RowRemoved(s, item) \in Seq(T)
           /\ Range(RowRemoved(s, item)) \subseteq Range(s)
           /\ Range(s) \ {item} \subseteq Range(RowRemoved(s, item))
           /\ IsInjective(RowRemoved(s, item))
<1>1. CASE s # <<>> /\ Head(s) = item
  <2> DEFINE t == Tail(s)
  <2>1. /\ t \in Seq(T) /\ Len(s) \in Nat /\ Len(s) >= 1 /\ Len(t) = Len(s) - 1
        /\ \A i \in 1 .. Len(s) - 1 : t[i] = s[i + 1]
        /\ DOMAIN s = 1 .. Len(s) /\ DOMAIN t = 1 .. Len(s) - 1 /\ s[1] = item
    BY <1>1
  <2>2. RowRemoved(s, item) = t
    BY <1>1 DEF RowRemoved
  <2> HIDE DEF t
  <2>3. \A i \in 1 .. Len(s) - 1 : i + 1 \in 1 .. Len(s)
    BY <2>1
  <2>4. \A i \in 1 .. Len(s) : i = 1 \/ (i - 1 \in 1 .. Len(s) - 1 /\ (i - 1) + 1 = i)
    BY <2>1
  <2>5. Range(t) \subseteq Range(s)
    BY <2>1, <2>3 DEF Range
  <2>6. Range(s) \ {item} \subseteq Range(t)
    <3> SUFFICES ASSUME NEW i \in 1 .. Len(s), s[i] # item PROVE s[i] \in Range(t)
      BY <2>1 DEF Range
    <3>1. i - 1 \in 1 .. Len(s) - 1 /\ s[i] = t[i - 1]
      BY <2>1, <2>4
    <3> QED
      BY <2>1, <3>1 DEF Range
  <2>7. IsInjective(t)
    <3> SUFFICES ASSUME NEW i \in 1 .. Len(s) - 1, NEW j \in 1 .. Len(s) - 1, t[i] = t[j]
                 PROVE  i = j
      BY <2>1 DEF IsInjective
    <3>1. s[i + 1] = s[j + 1] /\ i + 1 \in 1 .. Len(s) /\ j + 1 \in 1 .. Len(s)
      BY <2>1, <2>3
    <3>2. i + 1 = j + 1
      BY <2>1, <3>1 DEF IsInjective
    <3> QED
      BY <2>1, <3>2
  <2> QED
    BY <2>1, <2>2, <2>5, <2>6, <2>7
<1>2. CASE ~(s # <<>> /\ Head(s) = item)
  BY <1>2 DEF RowRemoved
<1> QED
  BY <1>1, <1>2

-----------------------------------------------------------------------------
(* The children of all folders.                                            *)
Numbers == (1 .. MaxItems) \union {Min({})}
AnyItem == [id : Ids, nr : Numbers]
Trees == [Folders -> Seq(AnyItem)]
ItemsOf(t, id) == {i \in Children(t) : i.id = id}
CustomItems(t) == {i \in Children(t) : i.id \in Customs}

(* No item is there twice, and each is where items of its kind are.        *)
Fits(d, item) == d.custom = (item.id.custom # Standard)
Apart(t) ==
    /\ \A d \in Folders : IsInjective(t[d])
    /\ \A d, e \in Folders : d # e => Range(t[d]) \intersect Range(t[e]) = {}
    /\ \A d \in Folders : \A item \in Range(t[d]) : d.custom = (item.id.custom # Standard)

(* The items are those of the folders.                                     *)
LEMMA ChildrenAre ==
    \A t, i : i \in Children(t) <=> \E d \in Folders : i \in Range(t[d])
  BY DEF Children

(* A new item is added to a folder of its kind.                            *)
LEMMA TreeAppend ==
    ASSUME NEW t \in Trees, Apart(t), NEW d \in Folders, NEW x \in AnyItem,
           x \notin Children(t), Fits(d, x)
    PROVE  /\ [t EXCEPT ![d] = Append(@, x)] \in Trees
           /\ Apart([t EXCEPT ![d] = Append(@, x)])
           /\ Children([t EXCEPT ![d] = Append(@, x)]) = Children(t) \union {x}
           /\ x \in Range([t EXCEPT ![d] = Append(@, x)][d])
<1> DEFINE u == [t EXCEPT ![d] = Append(@, x)]
<1>1. t[d] \in Seq(AnyItem) /\ IsInjective(t[d]) /\ x \notin Range(t[d])
  BY ChildrenAre DEF Trees, Apart
<1>2. /\ Append(t[d], x) \in Seq(AnyItem) /\ IsInjective(Append(t[d], x))
      /\ Range(Append(t[d], x)) = Range(t[d]) \union {x}
  BY <1>1, Appended
<1>3. u \in Trees /\ u[d] = Append(t[d], x) /\ \A e \in Folders : e # d => u[e] = t[e]
  BY <1>2 DEF Trees
<1> HIDE DEF u
<1>4. /\ \A e \in Folders : IsInjective(u[e])
      /\ \A e \in Folders : Range(u[e]) = IF e = d THEN Range(t[d]) \union {x} ELSE Range(t[e])
  BY <1>2, <1>3 DEF Apart
<1>5. Children(u) = Children(t) \union {x}
  BY <1>4, ChildrenAre
<1>6. \A e \in Folders : x \notin Range(t[e])
  BY ChildrenAre
<1>7. Apart(u)
  <2>1. \A e, g \in Folders : e # g => Range(u[e]) \intersect Range(u[g]) = {}
    BY <1>4, <1>6 DEF Apart
  <2>2. \A e \in Folders : \A item \in Range(u[e]) : e.custom = (item.id.custom # Standard)
    BY <1>4 DEF Apart, Fits
  <2> QED
    BY <1>4, <2>1, <2>2 DEF Apart
<1>8. x \in Range(u[d])
  BY <1>4
<1> QED
  BY <1>3, <1>5, <1>7, <1>8 DEF u

(* An item is taken out of its folder.                                     *)
LEMMA TreeWithout ==
    ASSUME NEW t \in Trees, Apart(t), NEW d \in Folders, NEW x \in Range(t[d])
    PROVE  /\ [t EXCEPT ![d] = Without(@, x)] \in Trees
           /\ Apart([t EXCEPT ![d] = Without(@, x)])
           /\ Children([t EXCEPT ![d] = Without(@, x)]) = Children(t) \ {x}
<1> DEFINE u == [t EXCEPT ![d] = Without(@, x)]
<1>1. t[d] \in Seq(AnyItem) /\ IsInjective(t[d])
  BY DEF Trees, Apart
<1>2. /\ Without(t[d], x) \in Seq(AnyItem) /\ IsInjective(Without(t[d], x))
      /\ Range(Without(t[d], x)) = Range(t[d]) \ {x}
  BY <1>1, WithoutProperties
<1>3. u \in Trees /\ u[d] = Without(t[d], x) /\ \A e \in Folders : e # d => u[e] = t[e]
  BY <1>2 DEF Trees
<1> HIDE DEF u
<1>4. /\ \A e \in Folders : IsInjective(u[e])
      /\ \A e \in Folders : Range(u[e]) = IF e = d THEN Range(t[d]) \ {x} ELSE Range(t[e])
  BY <1>2, <1>3 DEF Apart
<1>5. \A e \in Folders : e # d => x \notin Range(t[e])
  BY DEF Apart
<1>6. Children(u) = Children(t) \ {x}
  BY <1>4, <1>5, ChildrenAre
<1>7. Apart(u)
  BY <1>4 DEF Apart
<1> QED
  BY <1>3, <1>6, <1>7 DEF u

Exchanged(t, d, e, x) == [t EXCEPT ![d] = Without(@, x), ![e] = Append(@, x)]
(* An item moves to another folder.                                        *)
LEMMA TreeMove ==
    ASSUME NEW t \in Trees, Apart(t), NEW d \in Folders, NEW x \in Range(t[d]), x \in AnyItem,
           NEW e \in Folders, e # d, Fits(e, x)
    PROVE  /\ Exchanged(t, d, e, x) \in Trees /\ Apart(Exchanged(t, d, e, x))
           /\ Children(Exchanged(t, d, e, x)) = Children(t)
           /\ x \in Range(Exchanged(t, d, e, x)[e])
<1> DEFINE v == [t EXCEPT ![d] = Without(@, x)]
           w == [v EXCEPT ![e] = Append(@, x)]
<1>1. v \in Trees /\ Apart(v) /\ Children(v) = Children(t) \ {x}
  BY TreeWithout
<1>2. x \in Children(t)
  BY ChildrenAre
<1>3. Exchanged(t, d, e, x) = w
  BY DEF Exchanged
<1>4. w \in Trees /\ Apart(w) /\ Children(w) = Children(v) \union {x} /\ x \in Range(w[e])
  <2> HIDE DEF v
  <2> QED
    BY <1>1, TreeAppend
<1> HIDE DEF v, w
<1> QED
  BY <1>1, <1>2, <1>3, <1>4

(* removeRows() takes at most one item out, and no other.                  *)
LEMMA TreeRowRemoved ==
    ASSUME NEW t \in Trees, Apart(t), NEW x
    PROVE  /\ [d \in Folders |-> RowRemoved(t[d], x)] \in Trees
           /\ Apart([d \in Folders |-> RowRemoved(t[d], x)])
           /\ Children([d \in Folders |-> RowRemoved(t[d], x)]) \subseteq Children(t)
           /\ Children(t) \ {x} \subseteq Children([d \in Folders |-> RowRemoved(t[d], x)])
<1> DEFINE u == [d \in Folders |-> RowRemoved(t[d], x)]
<1>1. \A d \in Folders : t[d] \in Seq(AnyItem) /\ IsInjective(t[d])
  BY DEF Trees, Apart
<1>2. \A d \in Folders :
        /\ RowRemoved(t[d], x) \in Seq(AnyItem)
        /\ Range(RowRemoved(t[d], x)) \subseteq Range(t[d])
        /\ Range(t[d]) \ {x} \subseteq Range(RowRemoved(t[d], x))
        /\ IsInjective(RowRemoved(t[d], x))
  BY <1>1, RowRemovedProperties
<1>3. /\ u \in Trees
      /\ \A d \in Folders : /\ IsInjective(u[d]) /\ Range(u[d]) \subseteq Range(t[d])
                             /\ Range(t[d]) \ {x} \subseteq Range(u[d])
  BY <1>2 DEF Trees
<1> HIDE DEF u
<1>4. Apart(u)
  <2>1. \A d, e \in Folders : d # e => Range(u[d]) \intersect Range(u[e]) = {}
    <3> SUFFICES ASSUME NEW d \in Folders, NEW e \in Folders, d # e
                 PROVE  Range(u[d]) \intersect Range(u[e]) = {}
      OBVIOUS
    <3>1. Range(t[d]) \intersect Range(t[e]) = {}
      BY DEF Apart
    <3> QED
      BY <1>3, <3>1
  <2>2. \A d \in Folders : \A item \in Range(u[d]) : d.custom = (item.id.custom # Standard)
    BY <1>3 DEF Apart
  <2> QED
    BY <1>3, <2>1, <2>2 DEF Apart
<1>5. Children(u) \subseteq Children(t)
  BY <1>3, ChildrenAre
<1>6. Children(t) \ {x} \subseteq Children(u)
  BY <1>3, ChildrenAre
<1> QED
  BY <1>3, <1>4, <1>5, <1>6 DEF u

-----------------------------------------------------------------------------
(* Data and tree together.                                                 *)
Entries ==
    {e \in Partial(Fields, Classes \union {"changed"}) :
        ClassField \in DOMAIN e => e[ClassField] \in Classes}
Objects == Partial(Ids, Entries)
Hashes == Partial(Ids, AnyItem)
State(o, t, h) == [objects |-> o, tree |-> t, found |-> h]
States == [objects : Objects, tree : Trees, found : Hashes]

(* A state has three parts.                                                *)
LEMMA StateIs ==
    \A S : S \in States <=> /\ S = State(S.objects, S.tree, S.found)
                           /\ S.objects \in Objects /\ S.tree \in Trees /\ S.found \in Hashes
  BY DEF States, State

(* The entry of an object with another value of a field.                   *)
LEMMA EntrySet ==
    ASSUME NEW e \in Entries, NEW f \in Fields, NEW v \in Values(f)
    PROVE  [g \in DOMAIN e \union {f} |-> IF g = f THEN v ELSE e[g]] \in Entries
<1> DEFINE h == [g \in DOMAIN e \union {f} |-> IF g = f THEN v ELSE e[g]]
<1>1. e \in Partial(Fields, Classes \union {"changed"}) /\ v \in Classes \union {"changed"}
  BY DEF Entries, Values
<1>2. h \in Partial(Fields, Classes \union {"changed"})
  BY <1>1, PartialSet
<1>3. ClassField \in DOMAIN h => h[ClassField] \in Classes
  BY DEF Entries, Values
<1> QED
  BY <1>2, <1>3 DEF Entries

(* And with fewer fields.                                                  *)
LEMMA EntryKept ==
    ASSUME NEW e \in Entries, NEW D, D \subseteq DOMAIN e
    PROVE  [g \in D |-> e[g]] \in Entries
<1> DEFINE h == [g \in D |-> e[g]]
<1>1. e \in Partial(Fields, Classes \union {"changed"})
  BY DEF Entries
<1>2. h \in Partial(Fields, Classes \union {"changed"})
  BY <1>1, PartialKept
<1>3. ClassField \in DOMAIN h => h[ClassField] \in Classes
  BY DEF Entries
<1> QED
  BY <1>2, <1>3 DEF Entries

(* A new entry has no fields.                                              *)
LEMMA EntryNone ==
    <<>> \in Entries
<1>1. DOMAIN <<>> = {}
  OBVIOUS
<1> QED
  BY <1>1, PartialNone DEF Entries

(* Every object has a folder of its kind.                                  *)
LEMMA FolderType ==
    ASSUME NEW S, S.objects \in Objects, NEW id \in Ids
    PROVE  /\ FolderOf(S, id) \in Folders
           /\ FolderOf(S, id).custom = (id.custom # Standard)
<1>1. id.original \in Originals
  BY DEF Ids
<1>2. ClassOf[id.original] \in Classes
  BY <1>1, ObjectsAssumption
<1>3. \A i \in DOMAIN S.objects : S.objects[i] \in Entries
  BY PartialIs DEF Objects
<1>4. Class(S, id) \in Classes
  BY <1>2, <1>3 DEF Class, Entries
<1> QED
  BY <1>4 DEF FolderOf, Folders

-----------------------------------------------------------------------------
(* The operations, first what they make of the parts of any state.         *)
NewItem(S, id) ==
    [id |-> id, nr |-> Min((1 .. MaxItems) \ {item.nr : item \in ItemsOf(S.tree, id)})]

(* createItem().                                                           *)
LEMMA WithItemIs ==
    ASSUME NEW S \in States, NEW id \in Ids
    PROVE  /\ NewItem(S, id) \in AnyItem
           /\ WithItem(S, id) \in States
           /\ WithItem(S, id) =
                State(S.objects,
                      [S.tree EXCEPT ![FolderOf(S, id)] = Append(@, NewItem(S, id))],
                      [i \in DOMAIN S.found \union {id} |->
                          IF i = id THEN NewItem(S, id) ELSE S.found[i]])
<1> DEFINE x == NewItem(S, id)
           d == FolderOf(S, id)
           t == [S.tree EXCEPT ![d] = Append(@, x)]
           h == [i \in DOMAIN S.found \union {id} |-> IF i = id THEN x ELSE S.found[i]]
<1>1. x \in AnyItem
  <2> DEFINE free == (1 .. MaxItems) \ {item.nr : item \in ItemsOf(S.tree, id)}
  <2>1. free \in SUBSET Nat /\ free \subseteq 1 .. MaxItems
    BY ObjectsAssumption
  <2>2. x = [id |-> id, nr |-> Min(free)]
    BY DEF NewItem
  <2> HIDE DEF free, x
  <2>3. Min(free) \in Numbers
    <3>1. CASE free = {}
      BY <3>1 DEF Numbers
    <3>2. CASE free # {}
      BY <2>1, <3>2, MinOfNumbers DEF Numbers
    <3> QED
      BY <3>1, <3>2
  <2> QED
    BY <2>2, <2>3 DEF AnyItem
<1>2. WithItem(S, id) = State(S.objects, t, h)
  <2>1. S = State(S.objects, S.tree, S.found)
    BY StateIs
  <2>2. WithItem(S, id) = [S EXCEPT !.tree[d] = Append(@, x),
                                    !.found = [i \in DOMAIN @ \union {id} |->
                                                  IF i = id THEN x ELSE @[i]]]
    BY DEF WithItem, NewItem, ItemsOf
  <2> HIDE DEF x, d
  <2> QED
    BY <2>1, <2>2 DEF State
<1>3. d \in Folders /\ S.tree \in Trees /\ S.found \in Hashes /\ S.objects \in Objects
  BY StateIs, FolderType
<1> HIDE DEF x, d
<1>4. t \in Trees
  <2>1. Append(S.tree[d], x) \in Seq(AnyItem)
    BY <1>1, <1>3 DEF Trees
  <2> QED
    BY <1>3, <2>1 DEF Trees
<1>5. h \in Hashes
  BY <1>1, <1>3, PartialSet DEF Hashes
<1> HIDE DEF t, h
<1>6. WithItem(S, id) \in States
  BY <1>2, <1>3, <1>4, <1>5 DEF States, State
<1> QED
  BY <1>1, <1>2, <1>6 DEF x, d, t, h

(* createObject() of an object without an entry, in the data.              *)
WithEntry(S, id, e) ==
    State([i \in DOMAIN S.objects \union {id} |-> IF i = id THEN e ELSE S.objects[i]],
          S.tree, S.found)
(* It leaves a state.                                                      *)
LEMMA WithEntryType ==
    ASSUME NEW S \in States, NEW id \in Ids, NEW e \in Entries
    PROVE  WithEntry(S, id, e) \in States
<1> DEFINE o == [i \in DOMAIN S.objects \union {id} |-> IF i = id THEN e ELSE S.objects[i]]
<1>1. S.tree \in Trees /\ S.found \in Hashes /\ S.objects \in Objects
  BY StateIs
<1>2. o \in Objects
  BY <1>1, PartialSet DEF Objects
<1> HIDE DEF o
<1>3. State(o, S.tree, S.found) \in States
  BY <1>1, <1>2 DEF States, State
<1> QED
  BY <1>3 DEF WithEntry, o

(* createObject(): first the entry, then the item.                         *)
LEMMA CreatedIs ==
    ASSUME NEW S \in States, NEW id \in Ids
    PROVE  /\ Created(S, id) =
                IF id \in DOMAIN S.objects THEN S
                ELSE IF id.custom = Standard THEN WithEntry(S, id, <<>>)
                ELSE WithItem(WithEntry(S, id, <<>>), id)
           /\ Created(S, id) \in States
<1>1. S = State(S.objects, S.tree, S.found)
  BY StateIs
<1>2. [S EXCEPT !.objects = [i \in DOMAIN @ \union {id} |-> IF i = id THEN <<>> ELSE @[i]]]
        = WithEntry(S, id, <<>>)
  BY <1>1 DEF State, WithEntry
<1>3. Created(S, id) = IF id \in DOMAIN S.objects THEN S
                       ELSE IF id.custom = Standard THEN WithEntry(S, id, <<>>)
                       ELSE WithItem(WithEntry(S, id, <<>>), id)
  BY <1>2, Zenon DEF Created
<1>4. WithEntry(S, id, <<>>) \in States
  BY EntryNone, WithEntryType
<1>5. WithItem(WithEntry(S, id, <<>>), id) \in States
  BY <1>4, WithItemIs
<1> QED
  BY <1>3, <1>4, <1>5

(* modifyField() of the tree.                                              *)
LEMMA MovedToIs ==
    ASSUME NEW S \in States, NEW id, NEW d \in Folders
    PROVE  LET M == MovedTo(S, id, d)
               x == S.found[id]
           IN  /\ M \in States /\ M.objects = S.objects /\ M.found = S.found
               /\ /\ Apart(S.tree) /\ id \in DOMAIN S.found /\ x \in Children(S.tree)
                  /\ d.custom = (x.id.custom # Standard)
                  => /\ Apart(M.tree) /\ Children(M.tree) = Children(S.tree)
                     /\ x \in Range(M.tree[d])
<1> DEFINE M == MovedTo(S, id, d)
           x == S.found[id]
           old == FolderWith(S, x)
           t == [S.tree EXCEPT ![old] = Without(@, x), ![d] = Append(@, x)]
<1>1. S = State(S.objects, S.tree, S.found) /\ S.tree \in Trees /\ S.found \in Hashes
  BY StateIs
<1>2. M = IF id \notin DOMAIN S.found THEN S
          ELSE IF x \notin Children(S.tree) \/ old = d THEN S
          ELSE [S EXCEPT !.tree[old] = Without(@, x), !.tree[d] = Append(@, x)]
  BY DEF MovedTo
<1>3. x \in Children(S.tree) => old \in Folders /\ x \in Range(S.tree[old])
  BY ChildrenAre DEF FolderWith
<1>4. id \in DOMAIN S.found => x \in AnyItem
  BY <1>1, PartialIs DEF Hashes
<1> HIDE DEF old, x, M
<1>5. CASE ~(id \in DOMAIN S.found /\ x \in Children(S.tree) /\ old # d)
  <2>1. M = S
    BY <1>2, <1>5
  <2> QED
    BY <1>3, <1>5, <2>1 DEF M, x
<1>6. CASE id \in DOMAIN S.found /\ x \in Children(S.tree) /\ old # d
  <2>1. M = State(S.objects, t, S.found)
    BY <1>1, <1>2, <1>6 DEF State
  <2>2. t \in Trees
    <3>1. S.tree[old] \in Seq(AnyItem) /\ S.tree[d] \in Seq(AnyItem)
      BY <1>1, <1>3, <1>6 DEF Trees
    <3>2. Without(S.tree[old], x) \in Seq(AnyItem)
      <4>1. PICK h : PassStages(h, S.tree[old], AnyItem, x)
        BY <3>1, WithoutStages
      <4>2. Len(S.tree[old]) \in 0 .. Len(S.tree[old])
        BY <3>1
      <4> QED
        BY <4>1, <4>2 DEF PassStages
    <3>3. Append(S.tree[d], x) \in Seq(AnyItem)
      BY <1>4, <1>6, <3>1
    <3> QED
      BY <1>1, <1>6, <3>2, <3>3 DEF Trees
  <2>3. ASSUME Apart(S.tree), d.custom = (x.id.custom # Standard)
        PROVE  Apart(t) /\ Children(t) = Children(S.tree) /\ x \in Range(t[d])
    <3> DEFINE q == S.tree
    <3>1. /\ q \in Trees /\ Apart(q) /\ old \in Folders /\ x \in Range(q[old]) /\ x \in AnyItem
          /\ d # old /\ Fits(d, x)
      BY <1>1, <1>3, <1>4, <1>6, <2>3 DEF Fits
    <3>2. t = Exchanged(q, old, d, x)
      BY DEF Exchanged
    <3> HIDE DEF q, t
    <3>3. Apart(t) /\ Children(t) = Children(q) /\ x \in Range(t[d])
      BY <3>1, <3>2, TreeMove
    <3> QED
      BY <3>3 DEF q
  <2> HIDE DEF t
  <2>4. M \in States /\ M.objects = S.objects /\ M.found = S.found /\ M.tree = t
    BY <1>1, <2>1, <2>2, StateIs DEF States, State
  <2> QED
    BY <2>3, <2>4 DEF M, x
<1> QED
  BY <1>5, <1>6

(* The entry after modifyField() of the data.                              *)
Changed(e, f, v) == [g \in DOMAIN e \union {f} |-> IF g = f THEN v ELSE e[g]]
(* modifyField() creates the entry, changes it, and then moves the item.   *)
LEMMA ModifiedIs ==
    ASSUME NEW S \in States, NEW id \in Ids, NEW f \in Fields, NEW v \in Values(f)
    PROVE  LET T == Created(S, id)
               U == State([T.objects EXCEPT ![id] = Changed(T.objects[id], f, v)], T.tree, T.found)
           IN  /\ id \in DOMAIN T.objects /\ T \in States /\ U \in States
               /\ Modified(S, id, f, v) = Moved(U, id)
               /\ Modified(S, id, f, v) \in States
<1> DEFINE T == Created(S, id)
           o == [T.objects EXCEPT ![id] = Changed(T.objects[id], f, v)]
           U == State(o, T.tree, T.found)
<1>1. T \in States /\ id \in DOMAIN T.objects
  <2>1. \A h : h \in States => WithItem(h, id).objects = h.objects
    <3> SUFFICES ASSUME NEW h \in States PROVE WithItem(h, id).objects = h.objects
      OBVIOUS
    <3>1. \A t, g : State(h.objects, t, g).objects = h.objects
      BY DEF State
    <3>2. WithItem(h, id) =
            State(h.objects,
                  [h.tree EXCEPT ![FolderOf(h, id)] = Append(@, NewItem(h, id))],
                  [i \in DOMAIN h.found \union {id} |->
                      IF i = id THEN NewItem(h, id) ELSE h.found[i]])
      BY WithItemIs
    <3> QED
      BY <3>1, <3>2
  <2>2. id \in DOMAIN WithEntry(S, id, <<>>).objects
    BY DEF WithEntry, State
  <2>3. WithEntry(S, id, <<>>) \in States
    BY EntryNone, WithEntryType
  <2> QED
    BY <2>1, <2>2, <2>3, CreatedIs
<1>2. Modified(S, id, f, v) =
        Moved([T EXCEPT !.objects[id] =
                  [g \in DOMAIN @ \union {f} |-> IF g = f THEN v ELSE @[g]]], id)
  BY DEF Modified
<1> HIDE DEF T
<1>3. T = State(T.objects, T.tree, T.found) /\ T.objects \in Objects
      /\ T.tree \in Trees /\ T.found \in Hashes
  BY <1>1, StateIs
<1>4. U = [T EXCEPT !.objects[id] = [g \in DOMAIN @ \union {f} |-> IF g = f THEN v ELSE @[g]]]
  BY <1>3 DEF State, Changed
<1>5. o \in Objects
  <2>1. DOMAIN T.objects \subseteq Ids /\ T.objects \in [DOMAIN T.objects -> Entries]
    BY <1>3, PartialIs DEF Objects
  <2>2. Changed(T.objects[id], f, v) \in Entries
    BY <1>1, <2>1, EntrySet DEF Changed
  <2>3. DOMAIN o = DOMAIN T.objects /\ o \in [DOMAIN o -> Entries]
    BY <1>1, <2>1, <2>2
  <2> HIDE DEF o
  <2> QED
    BY <2>1, <2>3, PartialIs DEF Objects
<1> HIDE DEF o
<1>6. U \in States
  BY <1>3, <1>5 DEF States, State
<1>7. FolderOf(U, id) \in Folders
  BY <1>6, StateIs, FolderType
<1> HIDE DEF U
<1>8. Moved(U, id) \in States
  BY <1>6, <1>7, MovedToIs DEF Moved
<1> QED
  BY <1>1, <1>2, <1>4, <1>6, <1>8 DEF T, U, o

-----------------------------------------------------------------------------
(* The invariant, of the state within a call as well as between two.  The  *)
(* hash leads to items of the object asked for, and to one that exists for *)
(* every original and for every object with an entry.                      *)
Leads(S, id) == id \in DOMAIN S.found /\ S.found[id] \in Children(S.tree)
Good(S) ==
    /\ S \in States /\ Apart(S.tree)
    /\ \A id \in DOMAIN S.found : S.found[id].id = id
    /\ \A id \in (Ids \ Customs) \union DOMAIN S.objects : Leads(S, id)
    /\ IsFiniteSet(CustomItems(S.tree))

(* It is about objects with an entry: fewer entries, or others for the     *)
(* same objects, are as good.                                              *)
LEMMA EntriesChange ==
    ASSUME NEW S, Good(S), NEW o \in Objects, DOMAIN o \subseteq DOMAIN S.objects
    PROVE  Good(State(o, S.tree, S.found))
<1> DEFINE U == State(o, S.tree, S.found)
<1>1. /\ S.tree \in Trees /\ S.found \in Hashes
      /\ \A id \in DOMAIN S.found : S.found[id].id = id
      /\ \A id \in (Ids \ Customs) \union DOMAIN S.objects : Leads(S, id)
      /\ Apart(S.tree) /\ IsFiniteSet(CustomItems(S.tree))
  BY StateIs DEF Good
<1>2. U.objects = o /\ U.tree = S.tree /\ U.found = S.found /\ U \in States
  BY <1>1 DEF State, States
<1> HIDE DEF U
<1>3. \A id \in (Ids \ Customs) \union DOMAIN U.objects : Leads(U, id)
  BY <1>1, <1>2 DEF Leads
<1> QED
  BY <1>1, <1>2, <1>3 DEF Good, U

(* There is a number for another item of an object.                        *)
Room(S, id) ==
    \/ id \in DOMAIN S.objects
    \/ id.custom = Standard
    \/ ~(1 .. MaxItems \subseteq {item.nr : item \in ItemsOf(S.tree, id)})

(* Then the new item is none of those in the tree.                         *)
LEMMA NewItemIsNew ==
    ASSUME NEW S, NEW id, ~(1 .. MaxItems \subseteq {item.nr : item \in ItemsOf(S.tree, id)})
    PROVE  NewItem(S, id) \notin Children(S.tree)
<1> DEFINE used == {item.nr : item \in ItemsOf(S.tree, id)}
           free == (1 .. MaxItems) \ used
<1>1. free \in SUBSET Nat /\ free # {}
  BY ObjectsAssumption
<1>2. NewItem(S, id) = [id |-> id, nr |-> Min(free)]
  BY DEF NewItem
<1>3. \A item \in Children(S.tree) : item.id = id => item.nr \in used
  BY DEF ItemsOf
<1>4. Min(free) \in free
  <2> HIDE DEF free
  <2> QED
    BY <1>1, MinOfNumbers
<1>5. Min(free) \notin used
  BY <1>4
<1> HIDE DEF used, free
<1> QED
  BY <1>2, <1>3, <1>5

(* createObject() adds an entry and, for a custom object, an item.         *)
LEMMA CreatedKeeps ==
    ASSUME NEW S, Good(S), NEW id \in Ids, Room(S, id)
    PROVE  /\ Good(Created(S, id))
           /\ Created(S, id).objects =
                IF id \in DOMAIN S.objects THEN S.objects
                ELSE [i \in DOMAIN S.objects \union {id} |-> IF i = id THEN <<>> ELSE S.objects[i]]
           /\ \A j : j # id => ItemsOf(Created(S, id).tree, j) = ItemsOf(S.tree, j)
<1> DEFINE T == Created(S, id)
           o == [i \in DOMAIN S.objects \union {id} |-> IF i = id THEN <<>> ELSE S.objects[i]]
           W == State(o, S.tree, S.found)
<1>1. /\ S \in States /\ S.objects \in Objects /\ S.tree \in Trees /\ S.found \in Hashes
      /\ \A i \in DOMAIN S.found : S.found[i].id = i
      /\ \A i \in (Ids \ Customs) \union DOMAIN S.objects : Leads(S, i)
      /\ Apart(S.tree) /\ IsFiniteSet(CustomItems(S.tree))
  BY StateIs DEF Good
<1>2. /\ T = IF id \in DOMAIN S.objects THEN S
             ELSE IF id.custom = Standard THEN W ELSE WithItem(W, id)
      /\ T \in States
  BY <1>1, CreatedIs DEF WithEntry
<1>3. W \in States
  BY <1>1, EntryNone, WithEntryType DEF WithEntry
<1>4. DOMAIN o = DOMAIN S.objects \union {id}
  OBVIOUS
<1>5. W.objects = o /\ W.tree = S.tree /\ W.found = S.found
  BY DEF State
<1> HIDE DEF T, o, W
<1>6. CASE id \in DOMAIN S.objects
  BY <1>2, <1>6 DEF T
<1>7. CASE id \notin DOMAIN S.objects /\ id.custom = Standard
  <2>1. T = W /\ id \in Ids \ Customs
    BY <1>2, <1>7 DEF Customs
  <2>2. \A i \in (Ids \ Customs) \union DOMAIN W.objects : Leads(W, i)
    BY <1>1, <1>4, <1>5, <2>1 DEF Leads
  <2>3. Good(T)
    BY <1>1, <1>3, <1>5, <2>1, <2>2 DEF Good
  <2> QED
    BY <1>5, <1>7, <2>1, <2>3 DEF T, o
<1>8. CASE id \notin DOMAIN S.objects /\ id.custom # Standard
  <2> DEFINE x == NewItem(W, id)
             d == FolderOf(W, id)
             t == [S.tree EXCEPT ![d] = Append(@, x)]
             h == [i \in DOMAIN S.found \union {id} |-> IF i = id THEN x ELSE S.found[i]]
  <2>1. T = State(o, t, h) /\ x \in AnyItem
    BY <1>2, <1>3, <1>5, <1>8, WithItemIs
  <2>2. x.id = id /\ x \notin Children(S.tree)
    <3>1. ~(1 .. MaxItems \subseteq {item.nr : item \in ItemsOf(W.tree, id)})
      BY <1>5, <1>8 DEF Room
    <3>2. NewItem(W, id) \notin Children(W.tree)
      BY <3>1, NewItemIsNew
    <3> QED
      BY <1>5, <3>2 DEF NewItem
  <2>3. d \in Folders /\ Fits(d, x)
    BY <1>3, <2>2, StateIs, FolderType DEF Fits
  <2>4. DOMAIN h = DOMAIN S.found \union {id} /\ h[id] = x
        /\ \A i \in DOMAIN S.found : i # id => h[i] = S.found[i]
    OBVIOUS
  <2> HIDE DEF x, d, h
  <2>5. t \in Trees /\ Apart(t) /\ Children(t) = Children(S.tree) \union {x}
    BY <1>1, <2>1, <2>2, <2>3, TreeAppend
  <2> HIDE DEF t
  <2>6. T.objects = o /\ T.tree = t /\ T.found = h
    BY <2>1 DEF State
  <2>7. \A i \in DOMAIN T.found : T.found[i].id = i
    BY <1>1, <2>2, <2>4, <2>6
  <2>8. \A i \in (Ids \ Customs) \union DOMAIN T.objects : Leads(T, i)
    BY <1>1, <1>4, <2>4, <2>5, <2>6 DEF Leads
  <2>9. IsFiniteSet(CustomItems(T.tree))
    <3>1. CustomItems(t) \subseteq CustomItems(S.tree) \union {x}
      BY <2>5 DEF CustomItems
    <3>2. IsFiniteSet(CustomItems(S.tree) \union {x})
      BY <1>1, FS_AddElement
    <3> QED
      BY <2>6, <3>1, <3>2, FS_Subset
  <2>10. Good(T)
    BY <1>2, <2>5, <2>6, <2>7, <2>8, <2>9 DEF Good
  <2>11. \A j : j # id => ItemsOf(t, j) = ItemsOf(S.tree, j)
    BY <2>2, <2>5 DEF ItemsOf
  <2> QED
    BY <1>8, <2>6, <2>10, <2>11 DEF T, o
<1> QED
  BY <1>6, <1>7, <1>8

(* All entries after it.                                                   *)
Edited(o, id, f, v) ==
    [i \in DOMAIN o \union {id} |->
        IF i = id THEN Changed(IF id \in DOMAIN o THEN o[id] ELSE <<>>, f, v) ELSE o[i]]
(* modifyField() changes one entry, and leaves the item of the object in   *)
(* the folder of its class.                                                *)
LEMMA ModifiedKeeps ==
    ASSUME NEW S, Good(S), NEW id \in Ids, NEW f \in Fields, NEW v \in Values(f), Room(S, id)
    PROVE  /\ Good(Modified(S, id, f, v))
           /\ Modified(S, id, f, v).objects = Edited(S.objects, id, f, v)
           /\ Modified(S, id, f, v).found[id]
                \in Range(Modified(S, id, f, v).tree[FolderOf(Modified(S, id, f, v), id)])
           /\ \A j : j # id => ItemsOf(Modified(S, id, f, v).tree, j) = ItemsOf(S.tree, j)
<1> DEFINE T == Created(S, id)
           o == [T.objects EXCEPT ![id] = Changed(T.objects[id], f, v)]
           U == State(o, T.tree, T.found)
           M == Modified(S, id, f, v)
           d == FolderOf(U, id)
<1>1. S \in States /\ S.objects \in Objects
  BY StateIs DEF Good
<1>2. id \in DOMAIN T.objects /\ U \in States /\ M = MovedTo(U, id, d)
  BY <1>1, ModifiedIs DEF Moved
<1>3. /\ Good(T)
      /\ T.objects = IF id \in DOMAIN S.objects THEN S.objects
                     ELSE [i \in DOMAIN S.objects \union {id} |->
                              IF i = id THEN <<>> ELSE S.objects[i]]
      /\ \A j : j # id => ItemsOf(T.tree, j) = ItemsOf(S.tree, j)
  BY CreatedKeeps
<1>4. o = Edited(S.objects, id, f, v)
  <2>1. S.objects = [i \in DOMAIN S.objects |-> S.objects[i]]
    BY <1>1, PartialIs DEF Objects
  <2>2. CASE id \in DOMAIN S.objects
    <3>1. T.objects = S.objects /\ DOMAIN S.objects \union {id} = DOMAIN S.objects
      BY <1>3, <2>2
    <3> QED
      BY <2>1, <2>2, <3>1 DEF Edited
  <2>3. CASE id \notin DOMAIN S.objects
    BY <1>3, <2>3 DEF Edited
  <2> QED
    BY <2>2, <2>3
<1>5. U.objects = o /\ U.tree = T.tree /\ U.found = T.found /\ DOMAIN o = DOMAIN T.objects
  BY DEF State
<1> HIDE DEF T, o
<1>6. Good(U)
  <2>1. o \in Objects
    BY <1>2, <1>5, StateIs
  <2> QED
    BY <1>3, <1>5, <2>1, EntriesChange
<1> HIDE DEF U
<1>7. d \in Folders /\ d.custom = (id.custom # Standard)
  BY <1>2, StateIs, FolderType
<1>8. /\ Apart(U.tree) /\ id \in DOMAIN U.found /\ U.found[id] \in Children(U.tree)
      /\ U.found[id].id = id
  BY <1>2, <1>5, <1>6 DEF Good, Leads
<1>9. \A i : FolderOf(M, i) = FolderOf(U, i) \/ M.objects # U.objects
  BY DEF FolderOf, Class
<1> HIDE DEF d, M
<1>10. /\ M \in States /\ M.objects = U.objects /\ M.found = U.found
       /\ Apart(M.tree) /\ Children(M.tree) = Children(U.tree)
       /\ U.found[id] \in Range(M.tree[d])
  BY <1>2, <1>7, <1>8, MovedToIs
<1>11. /\ ItemsOf(M.tree, id) = ItemsOf(U.tree, id) /\ CustomItems(M.tree) = CustomItems(U.tree)
       /\ \A j : ItemsOf(M.tree, j) = ItemsOf(U.tree, j)
  BY <1>10 DEF ItemsOf, CustomItems
<1>12. Good(M)
  BY <1>6, <1>10, <1>11 DEF Good, Leads
<1>13. M.found[id] \in Range(M.tree[FolderOf(M, id)])
  BY <1>9, <1>10 DEF d
<1> QED
  BY <1>3, <1>4, <1>5, <1>10, <1>11, <1>12, <1>13 DEF M

-----------------------------------------------------------------------------
(* The bound MaxItems leaves room for an item.                             *)
LEMMA FewItemsLeaveRoom ==
    ASSUME NEW t, IsFiniteSet(CustomItems(t)), Cardinality(CustomItems(t)) < MaxItems,
           NEW id \in Customs
    PROVE  ~(1 .. MaxItems \subseteq {item.nr : item \in ItemsOf(t, id)})
<1> SUFFICES ASSUME 1 .. MaxItems \subseteq {item.nr : item \in ItemsOf(t, id)} PROVE FALSE
  OBVIOUS
<1> DEFINE C == CustomItems(t)
           N == 1 .. MaxItems
           g == [n \in N |-> CHOOSE item \in C : item.nr = n]
<1>1. ItemsOf(t, id) \subseteq C
  BY DEF ItemsOf, CustomItems
<1>2. \A n \in N : \E item \in C : item.nr = n
  BY <1>1
<1>3. g \in [N -> C] /\ \A n \in N : g[n].nr = n
  BY <1>2
<1>4. IsFiniteSet(N) /\ Cardinality(N) = MaxItems
  BY ObjectsAssumption, FS_Interval
<1> HIDE DEF g, N, C
<1>5. \E m, n \in N : m # n /\ g[m] = g[n]
  BY <1>3, <1>4, FS_PigeonHole DEF C
<1> QED
  BY <1>3, <1>5

(* So there is room where an object may be created.                        *)
LEMMA CanCreateRoom ==
    ASSUME Good(Now), NEW id \in Ids, CanCreate(id)
    PROVE  Room(Now, id)
<1>1. CASE id \in DOMAIN objects \/ id.custom = Standard
  BY <1>1 DEF Room, Now
<1>2. CASE id \notin DOMAIN objects /\ id.custom # Standard
  <2>1. IsFiniteSet(CustomItems(tree)) /\ id \in Customs
    BY <1>2 DEF Good, Now, Customs
  <2>2. Cardinality(CustomItems(tree)) < MaxItems
    BY <1>2 DEF CanCreate, CustomItems
  <2> QED
    BY <2>1, <2>2, FewItemsLeaveRoom DEF Room, Now
<1> QED
  BY <1>1, <1>2

(* deleteObject() takes one entry and at most the item the hash leads to.  *)
LEMMA DeletedIs ==
    ASSUME NEW S \in States, NEW id \in Ids
    PROVE  /\ Erased(S, id) =
                State([i \in DOMAIN S.objects \ {id} |-> S.objects[i]], S.tree, S.found)
           /\ Erased(S, id) \in States
           /\ Deleted(S, id) =
                IF id.custom = Standard \/ id \notin DOMAIN S.found THEN Erased(S, id)
                ELSE State(Erased(S, id).objects,
                           [d \in Folders |-> RowRemoved(S.tree[d], S.found[id])], S.found)
           /\ Deleted(S, id) \in States
<1> DEFINE o == [i \in DOMAIN S.objects \ {id} |-> S.objects[i]]
           W == State(o, S.tree, S.found)
           t == [d \in Folders |-> RowRemoved(S.tree[d], S.found[id])]
<1>1. /\ S = State(S.objects, S.tree, S.found)
      /\ S.objects \in Objects /\ S.tree \in Trees /\ S.found \in Hashes
  BY StateIs
<1>2. Erased(S, id) = W
  BY <1>1 DEF Erased, State
<1>3. W.objects = o /\ W.tree = S.tree /\ W.found = S.found
  BY DEF State
<1>4. o \in Objects
  BY <1>1, PartialKept DEF Objects
<1> HIDE DEF o
<1>5. W \in States
  BY <1>1, <1>4 DEF State, States
<1>6. ItemRemoved(W, id) = IF id \notin DOMAIN S.found THEN W ELSE State(o, t, S.found)
  BY <1>3 DEF ItemRemoved, State
<1>7. Deleted(S, id) = IF id.custom = Standard \/ id \notin DOMAIN S.found THEN W
                       ELSE State(o, t, S.found)
  BY <1>2, <1>6 DEF Deleted
<1>8. t \in Trees
  <2>1. \A d \in Folders : S.tree[d] \in Seq(AnyItem)
    BY <1>1 DEF Trees
  <2>2. \A d \in Folders : RowRemoved(S.tree[d], S.found[id]) \in Seq(AnyItem)
    BY <2>1 DEF RowRemoved
  <2> QED
    BY <2>2 DEF Trees
<1> HIDE DEF t
<1>9. State(o, t, S.found) \in States
  BY <1>1, <1>4, <1>8 DEF State, States
<1> HIDE DEF W
<1>10. Deleted(S, id) \in States
  BY <1>5, <1>7, <1>9
<1> QED
  BY <1>2, <1>3, <1>5, <1>7, <1>10 DEF W, o, t

(* No other object loses its item.                                         *)
LEMMA DeletedKeeps ==
    ASSUME NEW S, Good(S), NEW id \in Ids
    PROVE  /\ Good(Erased(S, id)) /\ Good(Deleted(S, id))
           /\ Children(Deleted(S, id).tree) \subseteq Children(S.tree)
<1> DEFINE o == [i \in DOMAIN S.objects \ {id} |-> S.objects[i]]
           W == Erased(S, id)
           D == Deleted(S, id)
           x == S.found[id]
           t == [d \in Folders |-> RowRemoved(S.tree[d], x)]
<1>1. /\ S \in States /\ S.tree \in Trees /\ Apart(S.tree)
      /\ \A i \in DOMAIN S.found : S.found[i].id = i
      /\ \A i \in (Ids \ Customs) \union DOMAIN S.objects : Leads(S, i)
      /\ IsFiniteSet(CustomItems(S.tree))
  BY StateIs DEF Good
<1>2. /\ W = State(o, S.tree, S.found) /\ W \in States /\ D \in States
      /\ D = IF id.custom = Standard \/ id \notin DOMAIN S.found THEN W
             ELSE State(W.objects, t, S.found)
  BY <1>1, DeletedIs
<1>3. DOMAIN o = DOMAIN S.objects \ {id}
  OBVIOUS
<1> HIDE DEF o, W, D
<1>4. W.objects = o /\ W.tree = S.tree /\ W.found = S.found
  BY <1>2 DEF State
<1>5. Good(W)
  BY <1>1, <1>2, <1>3, <1>4 DEF Good, Leads
<1>6. CASE id.custom = Standard \/ id \notin DOMAIN S.found
  <2>1. D = W
    BY <1>2, <1>6
  <2> QED
    BY <1>4, <1>5, <2>1 DEF W, D
<1>7. CASE id.custom # Standard /\ id \in DOMAIN S.found
  <2>1. /\ t \in Trees /\ Apart(t) /\ Children(t) \subseteq Children(S.tree)
        /\ Children(S.tree) \ {x} \subseteq Children(t)
    BY <1>1, TreeRowRemoved
  <2> HIDE DEF t
  <2>2. D.objects = o /\ D.tree = t /\ D.found = S.found
    BY <1>2, <1>4, <1>7 DEF State
  <2>3. ASSUME NEW i \in (Ids \ Customs) \union DOMAIN o PROVE Leads(D, i)
    <3>1. i # id
      BY <1>3, <1>7, <2>3 DEF Customs
    <3>2. i \in DOMAIN S.found /\ S.found[i] \in Children(S.tree)
      BY <1>1, <1>3, <2>3 DEF Leads
    <3>3. S.found[i] # x
      BY <1>1, <1>7, <3>1, <3>2
    <3> QED
      BY <2>1, <2>2, <3>2, <3>3 DEF Leads
  <2>4. IsFiniteSet(CustomItems(t))
    <3>1. CustomItems(t) \subseteq CustomItems(S.tree)
      BY <2>1 DEF CustomItems
    <3> QED
      BY <1>1, <3>1, FS_Subset
  <2>5. Good(D)
    BY <1>1, <1>2, <2>1, <2>2, <2>3, <2>4 DEF Good
  <2> QED
    BY <1>5, <2>1, <2>2, <2>5 DEF W, D
<1> QED
  BY <1>6, <1>7

(* resetField() erases an entry or some of its fields.                     *)
LEMMA FieldResetKeeps ==
    ASSUME NEW S, Good(S), NEW id \in Ids, NEW f
    PROVE  Good(FieldReset(S, id, f))
<1> DEFINE left == [g \in DOMAIN S.objects[id] \ {f} |-> S.objects[id][g]]
           kept == {j \in DOMAIN S.objects : j # id \/ DOMAIN left # {}}
           o == [i \in kept |-> IF i = id THEN left ELSE S.objects[i]]
<1>1. S = State(S.objects, S.tree, S.found) /\ S.objects \in Objects
  BY StateIs DEF Good
<1>2. CASE id \notin DOMAIN S.objects
  BY <1>2 DEF FieldReset
<1>3. CASE id \in DOMAIN S.objects
  <2>1. DOMAIN S.objects \subseteq Ids /\ \A i \in DOMAIN S.objects : S.objects[i] \in Entries
    BY <1>1, PartialIs DEF Objects
  <2>2. left \in Entries
    BY <1>3, <2>1, EntryKept
  <2>3. FieldReset(S, id, f) = State(o, S.tree, S.found)
    BY <1>1, <1>3 DEF FieldReset, State
  <2> HIDE DEF left
  <2>4. DOMAIN o = kept /\ o \in [kept -> Entries] /\ kept \subseteq DOMAIN S.objects
    BY <2>1, <2>2
  <2> HIDE DEF o, kept
  <2>5. o \in Objects
    BY <2>1, <2>4, PartialIs DEF Objects
  <2> QED
    BY <2>3, <2>4, <2>5, EntriesChange
<1> QED
  BY <1>2, <1>3

-----------------------------------------------------------------------------
(* clearModifications(): the state after each of the objects deleted.      *)
DeletedOneByOne(h, S, order) ==
    /\ h \in [0 .. Len(order) -> States]
    /\ h[0] = S
    /\ \A k \in 1 .. Len(order) : h[k] = Deleted(h[k - 1], order[k])
    /\ h[Len(order)] = FoldLeft(LAMBDA T, id : Deleted(T, id), S, order)
(* There is such a state after each object.                                *)
LEMMA DeleteStages ==
    ASSUME NEW S \in States, NEW order \in Seq(Ids)
    PROVE  \E h : DeletedOneByOne(h, S, order)
<1> DEFINE D == DOMAIN order
           X == States
           Y == Ids
           step == [p \in X \X Y |-> Deleted(p[1], p[2])]
           Fold(it) == [x \in SUBSET D |->
                IF x = {} THEN S ELSE Deleted(it[x \ {Max(x)}], order[Max(x)])]
<1>1. step \in [X \X Y -> X]
  <2> SUFFICES ASSUME NEW x \in X, NEW y \in Y PROVE Deleted(x, y) \in X
    OBVIOUS
  <2> QED
    BY DeletedIs
<1>2. \A x \in X, y \in Y : step[<<x, y>>] = Deleted(x, y)
  OBVIOUS
<1>3. S \in X /\ order \in Seq(Y) /\ \A k \in D : order[k] \in Y
  OBVIOUS
<1> HIDE DEF X, Y, step, D, Fold
<1>g. PICK g : SeqFold(g, order, X, Y, S, step)
  BY <1>1, <1>3, SeqFoldExists
<1>4. /\ g \in [SUBSET D -> X]
      /\ g[{}] = S
      /\ \A T \in SUBSET D : T # {} =>
           /\ Max(T) \in D /\ order[Max(T)] \in Y /\ g[T \ {Max(T)}] \in X
           /\ g[T] = step[<<g[T \ {Max(T)}], order[Max(T)]>>]
  BY <1>g DEF SeqFold, D
<1> USE DEF Fold
<1>5. g = Fold(g)
  <2>1. \A T \in SUBSET D : T # {} => g[T] = Deleted(g[T \ {Max(T)}], order[Max(T)])
    BY <1>2, <1>4
  <2> QED
    BY <1>4, <2>1
<1> DEFINE c == CHOOSE it : it = Fold(it)
<1>6. c = Fold(c)
  BY <1>5
<1>7. FoldLeft(LAMBDA T, id : Deleted(T, id), S, order) = c[D]
  BY Zenon DEF FoldLeft, MapThenFoldSet, D
<1> HIDE DEF c
<1>8. FoldsSeq(c, order, X, S, step)
  <2>1. c[{}] = S
    BY <1>6
  <2>2. ASSUME NEW T \in SUBSET D, T # {}, c[T \ {Max(T)}] \in X
        PROVE  c[T] = step[<<c[T \ {Max(T)}], order[Max(T)]>>]
    <3>1. c[T] = Deleted(c[T \ {Max(T)}], order[Max(T)])
      BY <1>6, <2>2
    <3>2. order[Max(T)] \in Y
      BY <1>4, <2>2
    <3> QED
      BY <1>2, <2>2, <3>1, <3>2
  <2> QED
    BY <2>1, <2>2 DEF FoldsSeq, D
<1> HIDE DEF Fold
<1>h. PICK h : StagesOf(c, h, order, X, S, step)
  BY <1>1, <1>3, <1>8, SeqFoldStages
<1>9. Stages(h, order, X, S, step) /\ h[Len(order)] = c[DOMAIN order]
  BY <1>h DEF StagesOf
<1>10. \A k \in 1 .. Len(order) : h[k - 1] \in X /\ order[k] \in Y
  <2>1. Len(order) \in Nat /\ D = 1 .. Len(order)
    BY DEF D
  <2>2. h \in [0 .. Len(order) -> X]
    BY <1>9 DEF Stages
  <2>3. \A k \in 1 .. Len(order) : k - 1 \in 0 .. Len(order)
    BY <2>1
  <2> QED
    BY <1>3, <2>1, <2>2, <2>3
<1>11. DeletedOneByOne(h, S, order)
  BY <1>2, <1>7, <1>9, <1>10 DEF Stages, DeletedOneByOne, X, D
<1> QED
  BY <1>11

(* It keeps the originals and their items.                                 *)
LEMMA ClearedKeeps ==
    ASSUME NEW S, Good(S), NEW order \in Seq(Ids)
    PROVE  /\ Good(Cleared(S, order))
           /\ Children(Cleared(S, order).tree) \subseteq Children(S.tree)
           /\ Cleared(S, order).objects = <<>>
<1> DEFINE n == Len(order)
<1>1. n \in Nat /\ \A k \in 1 .. n : order[k] \in Ids
  OBVIOUS
<1>2. PICK h : DeletedOneByOne(h, S, order)
  BY DeleteStages DEF Good
<1> DEFINE Sound == {k \in 0 .. n : Good(h[k]) /\ Children(h[k].tree) \subseteq Children(S.tree)}
<1>3. 0 \in Sound
  <2>1. 0 \in 0 .. n
    BY <1>1
  <2>2. h[0] = S
    BY <1>2, Zenon DEF DeletedOneByOne
  <2>3. Good(h[0]) /\ Children(h[0].tree) \subseteq Children(S.tree)
    BY <2>2
  <2> QED
    BY <2>1, <2>3
<1>4. \A k \in 0 .. n - 1 : k \in Sound => k + 1 \in Sound
  <2> SUFFICES ASSUME NEW k \in 0 .. n - 1, Good(h[k]),
                      Children(h[k].tree) \subseteq Children(S.tree)
               PROVE  /\ k + 1 \in 0 .. n /\ Good(h[k + 1])
                      /\ Children(h[k + 1].tree) \subseteq Children(S.tree)
    OBVIOUS
  <2>1. k + 1 \in 0 .. n /\ k + 1 \in 1 .. n /\ (k + 1) - 1 = k
    BY <1>1
  <2>2. h[k + 1] = Deleted(h[k], order[k + 1]) /\ order[k + 1] \in Ids
    BY <1>1, <1>2, <2>1 DEF DeletedOneByOne
  <2>3. Good(h[k + 1]) /\ Children(h[k + 1].tree) \subseteq Children(h[k].tree)
    <3> DEFINE G == h[k]
               i == order[k + 1]
    <3>1. Good(G) /\ i \in Ids /\ h[k + 1] = Deleted(G, i)
      BY <2>2
    <3> HIDE DEF G, i
    <3>2. Good(Deleted(G, i)) /\ Children(Deleted(G, i).tree) \subseteq Children(G.tree)
      BY <3>1, DeletedKeeps
    <3> QED
      BY <3>1, <3>2 DEF G
  <2> QED
    BY <2>1, <2>3
<1>5. n \in Sound
  <2> HIDE DEF Sound
  <2>1. \A k \in 0 .. n : k \in Sound
    BY <1>1, <1>3, <1>4, InductionTo
  <2> QED
    BY <1>1, <2>1
<1> DEFINE told == h[n]
<1>6. told = FoldLeft(LAMBDA T, id : Deleted(T, id), S, order)
  BY <1>2, Zenon DEF DeletedOneByOne
<1>7. Good(told) /\ Children(told.tree) \subseteq Children(S.tree)
  BY <1>5
<1>8. Cleared(S, order) = [told EXCEPT !.objects = <<>>]
  BY <1>6, Zenon DEF Cleared
<1> HIDE DEF told
<1>9. told = State(told.objects, told.tree, told.found)
  BY <1>7, StateIs DEF Good
<1> DEFINE C == State(<<>>, told.tree, told.found)
<1>10. Cleared(S, order) = C
  BY <1>8, <1>9 DEF State
<1>11. <<>> \in Objects /\ DOMAIN <<>> = {}
  BY PartialNone DEF Objects
<1>12. Good(C)
  BY <1>7, <1>11, EntriesChange
<1>13. C.objects = <<>> /\ C.tree = told.tree
  BY DEF State
<1> QED
  BY <1>7, <1>10, <1>12, <1>13

-----------------------------------------------------------------------------
(* What a file of the import holds, and the state after each of it.        *)
Change == {m \in Modification : m.value \in Values(m.field)}

ImportedOneByOne(h, S, file) ==
    /\ h \in [0 .. Len(file) -> States]
    /\ h[0] = S
    /\ \A k \in 1 .. Len(file) : h[k] = Modified(h[k - 1], file[k].id, file[k].field, file[k].value)
    /\ h[Len(file)] = Imported(S, file)
(* There is such a state after each modification.                          *)
LEMMA ImportStages ==
    ASSUME NEW S \in States, NEW file \in Seq(Change)
    PROVE  \E h : ImportedOneByOne(h, S, file)
<1> DEFINE D == DOMAIN file
           X == States
           Y == Change
           step == [p \in X \X Y |-> Modified(p[1], p[2].id, p[2].field, p[2].value)]
           Fold(it) == [x \in SUBSET D |->
                IF x = {} THEN S
                ELSE Modified(it[x \ {Max(x)}], file[Max(x)].id, file[Max(x)].field,
                              file[Max(x)].value)]
<1>1. step \in [X \X Y -> X]
  <2> SUFFICES ASSUME NEW x \in X, NEW y \in Y PROVE Modified(x, y.id, y.field, y.value) \in X
    OBVIOUS
  <2>1. y.id \in Ids /\ y.field \in Fields /\ y.value \in Values(y.field)
    BY DEF Change, Modification
  <2> QED
    BY <2>1, ModifiedIs
<1>2. \A x \in X, y \in Y : step[<<x, y>>] = Modified(x, y.id, y.field, y.value)
  OBVIOUS
<1>3. S \in X /\ file \in Seq(Y) /\ \A k \in D : file[k] \in Y
  OBVIOUS
<1> HIDE DEF X, Y, step, D, Fold
<1>g. PICK g : SeqFold(g, file, X, Y, S, step)
  BY <1>1, <1>3, SeqFoldExists
<1>4. /\ g \in [SUBSET D -> X]
      /\ g[{}] = S
      /\ \A T \in SUBSET D : T # {} =>
           /\ Max(T) \in D /\ file[Max(T)] \in Y /\ g[T \ {Max(T)}] \in X
           /\ g[T] = step[<<g[T \ {Max(T)}], file[Max(T)]>>]
  BY <1>g DEF SeqFold, D
<1> USE DEF Fold
<1>5. g = Fold(g)
  <2>1. \A T \in SUBSET D : T # {} =>
           g[T] = Modified(g[T \ {Max(T)}], file[Max(T)].id, file[Max(T)].field,
                           file[Max(T)].value)
    BY <1>2, <1>4
  <2> QED
    BY <1>4, <2>1
<1> DEFINE c == CHOOSE it : it = Fold(it)
<1>6. c = Fold(c)
  BY <1>5
<1>7. Imported(S, file) = c[D]
  BY Zenon DEF Imported, FoldLeft, MapThenFoldSet, D
<1> HIDE DEF c
<1>8. FoldsSeq(c, file, X, S, step)
  <2>1. c[{}] = S
    BY <1>6
  <2>2. ASSUME NEW T \in SUBSET D, T # {}, c[T \ {Max(T)}] \in X
        PROVE  c[T] = step[<<c[T \ {Max(T)}], file[Max(T)]>>]
    <3>1. c[T] = Modified(c[T \ {Max(T)}], file[Max(T)].id, file[Max(T)].field, file[Max(T)].value)
      BY <1>6, <2>2
    <3>2. file[Max(T)] \in Y
      BY <1>4, <2>2
    <3> QED
      BY <1>2, <2>2, <3>1, <3>2
  <2> QED
    BY <2>1, <2>2 DEF FoldsSeq, D
<1> HIDE DEF Fold
<1>h. PICK h : StagesOf(c, h, file, X, S, step)
  BY <1>1, <1>3, <1>8, SeqFoldStages
<1>9. Stages(h, file, X, S, step) /\ h[Len(file)] = c[DOMAIN file]
  BY <1>h DEF StagesOf
<1>10. \A k \in 1 .. Len(file) : h[k - 1] \in X /\ file[k] \in Y
  <2>1. Len(file) \in Nat /\ D = 1 .. Len(file)
    BY DEF D
  <2>2. h \in [0 .. Len(file) -> X]
    BY <1>9 DEF Stages
  <2>3. \A k \in 1 .. Len(file) : k - 1 \in 0 .. Len(file)
    BY <2>1
  <2> QED
    BY <1>3, <2>1, <2>2, <2>3
<1>11. ImportedOneByOne(h, S, file)
  BY <1>2, <1>7, <1>9, <1>10 DEF Stages, ImportedOneByOne, X, D
<1> QED
  BY <1>11

(* What the first k modifications of a file say: of each field of an       *)
(* object the last one counts.                                             *)
Latest(file, k, id, f) == {i \in 1 .. k : file[i].id = id /\ file[i].field = f}
EntryRead(file, k, id) ==
    [f \in {g \in Fields : Latest(file, k, id, g) # {}} |->
        file[Max(Latest(file, k, id, f))].value]
ReadTo(file, k) == [id \in {file[i].id : i \in 1 .. k} |-> EntryRead(file, k, id)]

(* One more modification edits one field of one object.                    *)
LEMMA ReadStep ==
    ASSUME NEW file \in Seq(Change), NEW k \in 0 .. Len(file) - 1
    PROVE  ReadTo(file, k + 1)
             = Edited(ReadTo(file, k), file[k + 1].id, file[k + 1].field, file[k + 1].value)
<1> DEFINE m == file[k + 1]
           held(n) == {file[i].id : i \in 1 .. n}
<1>1. /\ k \in Nat /\ k + 1 \in Nat /\ k + 1 \in 1 .. Len(file)
      /\ 1 .. k + 1 = (1 .. k) \union {k + 1} /\ k + 1 \notin 1 .. k
  OBVIOUS
<1>2. m.id \in Ids /\ m.field \in Fields
  <2>1. m \in Change
    BY <1>1
  <2> HIDE DEF m
  <2> QED
    BY <2>1 DEF Change, Modification
<1>3. \A id, f : m.id = id /\ m.field = f =>
         Latest(file, k + 1, id, f) = Latest(file, k, id, f) \union {k + 1}
  BY <1>1 DEF Latest
<1>4. \A id, f : ~(m.id = id /\ m.field = f) =>
         Latest(file, k + 1, id, f) = Latest(file, k, id, f)
  BY <1>1 DEF Latest
<1>5. Max(Latest(file, k + 1, m.id, m.field)) = k + 1
  <2> DEFINE L == Latest(file, k + 1, m.id, m.field)
  <2>1. L \in SUBSET (0 .. k + 1) /\ k + 1 \in L
    BY <1>1, <1>3 DEF Latest
  <2> HIDE DEF L
  <2>2. Max(L) \in L /\ \A x \in L : x <= Max(L)
    BY <1>1, <2>1, MaxOfBounded
  <2>3. Max(L) \in 0 .. k + 1 /\ k + 1 <= Max(L)
    BY <2>1, <2>2
  <2> QED
    BY <1>1, <2>3 DEF L
<1>6. held(k + 1) = held(k) \union {m.id}
  BY <1>1
<1> HIDE DEF m, held
<1>7. \A id : id # m.id => EntryRead(file, k + 1, id) = EntryRead(file, k, id)
  <2> SUFFICES ASSUME NEW id, id # m.id
               PROVE  EntryRead(file, k + 1, id) = EntryRead(file, k, id)
    OBVIOUS
  <2>1. \A f : Latest(file, k + 1, id, f) = Latest(file, k, id, f)
    BY <1>4
  <2> QED
    BY <2>1 DEF EntryRead
<1>8. EntryRead(file, k + 1, m.id) = Changed(EntryRead(file, k, m.id), m.field, m.value)
  <2> DEFINE new == EntryRead(file, k + 1, m.id)
             old == EntryRead(file, k, m.id)
  <2>1. DOMAIN new = DOMAIN old \union {m.field}
    <3>1. \A g \in Fields : Latest(file, k + 1, m.id, g) # {} <=>
             (Latest(file, k, m.id, g) # {} \/ g = m.field)
      BY <1>3, <1>4
    <3> QED
      BY <1>2, <3>1 DEF EntryRead
  <2>2. m.field \in DOMAIN new
    BY <2>1
  <2>3. new[m.field] = m.value
    <3>1. new[m.field] = file[Max(Latest(file, k + 1, m.id, m.field))].value
      BY <2>2 DEF EntryRead
    <3> QED
      BY <1>5, <3>1 DEF m
  <2>4. \A f \in DOMAIN old : f # m.field => new[f] = old[f]
    <3> SUFFICES ASSUME NEW f \in DOMAIN old, f # m.field PROVE new[f] = old[f]
      OBVIOUS
    <3>1. Latest(file, k + 1, m.id, f) = Latest(file, k, m.id, f)
      BY <1>4
    <3>2. f \in DOMAIN new
      BY <2>1
    <3> QED
      BY <3>1, <3>2 DEF EntryRead
  <2>5. new = [f \in DOMAIN new |-> new[f]]
    BY DEF EntryRead
  <2> HIDE DEF new, old
  <2>6. new = [f \in DOMAIN old \union {m.field} |-> IF f = m.field THEN m.value ELSE old[f]]
    BY <2>1, <2>3, <2>4, <2>5
  <2> QED
    BY <2>6 DEF new, old, Changed
<1>9. m.id \notin held(k) => EntryRead(file, k, m.id) = <<>>
  <2> SUFFICES ASSUME m.id \notin held(k) PROVE EntryRead(file, k, m.id) = <<>>
    OBVIOUS
  <2>1. \A f : Latest(file, k, m.id, f) = {}
    BY DEF Latest, held
  <2> QED
    BY <2>1 DEF EntryRead
<1> DEFINE old == ReadTo(file, k)
           new == ReadTo(file, k + 1)
<1>10. /\ DOMAIN old = held(k) /\ DOMAIN new = held(k + 1)
       /\ \A id \in held(k) : old[id] = EntryRead(file, k, id)
       /\ new = [id \in held(k + 1) |-> EntryRead(file, k + 1, id)]
  BY DEF ReadTo, held
<1> HIDE DEF old, new
<1>11. Changed(IF m.id \in DOMAIN old THEN old[m.id] ELSE <<>>, m.field, m.value)
         = EntryRead(file, k + 1, m.id)
  <2>1. (IF m.id \in DOMAIN old THEN old[m.id] ELSE <<>>) = EntryRead(file, k, m.id)
    BY <1>9, <1>10
  <2> QED
    BY <1>8, <2>1
<1> DEFINE edited == Changed(IF m.id \in DOMAIN old THEN old[m.id] ELSE <<>>, m.field, m.value)
<1>12. Edited(old, m.id, m.field, m.value)
         = [i \in DOMAIN old \union {m.id} |-> IF i = m.id THEN edited ELSE old[i]]
  BY DEF Edited
<1>13. edited = EntryRead(file, k + 1, m.id)
  BY <1>11
<1> HIDE DEF edited
<1>14. Edited(old, m.id, m.field, m.value) = [i \in held(k + 1) |-> EntryRead(file, k + 1, i)]
  BY <1>6, <1>7, <1>10, <1>12, <1>13
<1> QED
  BY <1>10, <1>14 DEF m, old, new

(* An import reads the whole file, and keeps what it found in the tree.    *)
LEMMA ImportedKeeps ==
    ASSUME NEW C, Good(C), C.objects = <<>>, NEW file \in Seq(Change),
           \A i \in DOMAIN file : Room(C, file[i].id)
    PROVE  Good(Imported(C, file)) /\ Imported(C, file).objects = ReadTo(file, Len(file))
<1> DEFINE n == Len(file)
           Others(S) == \A j : j \notin DOMAIN S.objects => ItemsOf(S.tree, j) = ItemsOf(C.tree, j)
<1>1. n \in Nat /\ DOMAIN file = 1 .. n /\ \A k \in 1 .. n : file[k] \in Change
  OBVIOUS
<1>2. PICK h : ImportedOneByOne(h, C, file)
  BY ImportStages DEF Good
<1> DEFINE Sound == {k \in 0 .. n : Good(h[k]) /\ h[k].objects = ReadTo(file, k) /\ Others(h[k])}
<1>3. 0 \in Sound
  <2>1. 0 \in 0 .. n /\ 1 .. 0 = {}
    BY <1>1
  <2>2. h[0] = C
    BY <1>2, Zenon DEF ImportedOneByOne
  <2>3. ReadTo(file, 0) = <<>>
    <3>1. {file[i].id : i \in 1 .. 0} = {}
      BY <2>1
    <3> QED
      BY <3>1 DEF ReadTo
  <2>4. Good(h[0]) /\ h[0].objects = ReadTo(file, 0) /\ Others(h[0])
    BY <2>2, <2>3
  <2> QED
    BY <2>1, <2>4
<1>4. \A k \in 0 .. n - 1 : k \in Sound => k + 1 \in Sound
  <2> SUFFICES ASSUME NEW k \in 0 .. n - 1, k \in Sound PROVE k + 1 \in Sound
    OBVIOUS
  <2> DEFINE G == h[k]
             m == file[k + 1]
             M == Modified(G, m.id, m.field, m.value)
  <2>1. k + 1 \in 0 .. n /\ k + 1 \in 1 .. n /\ (k + 1) - 1 = k
    BY <1>1
  <2>2. h[k + 1] = M
    BY <1>2, <2>1 DEF ImportedOneByOne
  <2>3. m \in Change /\ Room(C, m.id)
    BY <1>1, <2>1
  <2>4. Good(G) /\ G.objects = ReadTo(file, k) /\ Others(G)
    OBVIOUS
  <2>5. ReadTo(file, k + 1) = Edited(ReadTo(file, k), m.id, m.field, m.value)
    BY ReadStep
  <2> HIDE DEF G, m, Sound
  <2>6. m.id \in Ids /\ m.field \in Fields /\ m.value \in Values(m.field)
    BY <2>3 DEF Change, Modification
  <2>7. Room(G, m.id)
    <3>1. CASE m.id \in DOMAIN G.objects
      BY <3>1 DEF Room
    <3>2. CASE m.id \notin DOMAIN G.objects
      <4>1. ItemsOf(G.tree, m.id) = ItemsOf(C.tree, m.id)
        BY <2>4, <3>2
      <4>2. m.id \notin DOMAIN C.objects
        OBVIOUS
      <4> QED
        BY <2>3, <4>1, <4>2 DEF Room
    <3> QED
      BY <3>1, <3>2
  <2>8. /\ Good(M) /\ M.objects = Edited(G.objects, m.id, m.field, m.value)
        /\ \A j : j # m.id => ItemsOf(M.tree, j) = ItemsOf(G.tree, j)
    BY <2>4, <2>6, <2>7, ModifiedKeeps
  <2> HIDE DEF M
  <2>9. M.objects = ReadTo(file, k + 1)
    BY <2>4, <2>5, <2>8
  <2>10. Others(M)
    <3>1. DOMAIN M.objects = DOMAIN G.objects \union {m.id}
      BY <2>8 DEF Edited
    <3> QED
      BY <2>4, <2>8, <3>1
  <2>11. Good(h[k + 1]) /\ h[k + 1].objects = ReadTo(file, k + 1) /\ Others(h[k + 1])
    BY <2>2, <2>8, <2>9, <2>10
  <2> QED
    BY <2>1, <2>11 DEF Sound
<1>5. n \in Sound
  <2> HIDE DEF Sound
  <2>1. \A k \in 0 .. n : k \in Sound
    BY <1>1, <1>3, <1>4, InductionTo
  <2> QED
    BY <1>1, <2>1
<1>6. h[n] = Imported(C, file)
  BY <1>2, Zenon DEF ImportedOneByOne
<1>7. Good(h[n]) /\ h[n].objects = ReadTo(file, n)
  BY <1>5
<1> QED
  BY <1>6, <1>7

-----------------------------------------------------------------------------
(* The orders in which some elements of a finite set may come.             *)
LEMMA OrderIs ==
    ASSUME NEW S, IsFiniteSet(S), NEW s \in SetToAllKPermutations(S)
    PROVE  s \in Seq(S) /\ IsInjective(s)
<1>1. PICK T \in SUBSET S : s \in SetToSeqs(T)
  BY DEF SetToAllKPermutations
<1>2. IsFiniteSet(T)
  BY FS_Subset
<1>3. Cardinality(T) \in Nat
  BY <1>2, FS_CardinalityType
<1>4. s \in [1 .. Cardinality(T) -> T]
      /\ \A i, j \in 1 .. Cardinality(T) : i # j => s[i] # s[j]
  BY <1>1 DEF SetToSeqs
<1> DEFINE n == Cardinality(T)
<1> HIDE DEF n
<1>5. s \in [1 .. n -> S]
  BY <1>4 DEF n
<1>6. s \in Seq(S)
  BY <1>3, <1>5 DEF n
<1>7. IsInjective(s)
  BY <1>4 DEF IsInjective
<1> QED
  BY <1>6, <1>7

(* The guard of the import leaves room for the objects of the file.        *)
LEMMA ImportRoom ==
    ASSUME Good(Now), NEW file \in Seq(Change), NEW i \in DOMAIN file,
           Cardinality({item \in Children(tree) : item.id \in Customs})
             + Cardinality({file[j].id : j \in DOMAIN file} \intersect Customs) <= MaxItems,
           NEW C, Children(C.tree) \subseteq Children(tree)
    PROVE  Room(C, file[i].id)
<1> DEFINE held == {file[j].id : j \in DOMAIN file}
           named == held \intersect Customs
           g == [j \in DOMAIN file |-> file[j].id]
           id == file[i].id
<1>1. Len(file) \in Nat /\ DOMAIN file = 1 .. Len(file)
  OBVIOUS
<1>2. id \in Ids
  <2>1. file[i] \in Change
    OBVIOUS
  <2> QED
    BY <2>1 DEF Change, Modification
<1>3. IsFiniteSet(DOMAIN file)
  BY <1>1, FS_Interval
<1>4. g \in Surjection(DOMAIN file, held)
  BY DEF Surjection
<1>5. id \in held
  OBVIOUS
<1>6. Cardinality(CustomItems(tree)) + Cardinality(named) <= MaxItems
  BY DEF CustomItems
<1> HIDE DEF g, held, id
<1>7. IsFiniteSet(named)
  <2>1. IsFiniteSet(held)
    BY <1>3, <1>4, FS_Surjection
  <2> QED
    BY <2>1, FS_Subset
<1> HIDE DEF named
<1>8. CASE id.custom = Standard
  BY <1>8 DEF Room, id
<1>9. CASE id.custom # Standard
  <2>1. id \in Customs /\ named # {}
    BY <1>2, <1>5, <1>9 DEF Customs, named
  <2>2. Cardinality(named) \in Nat /\ Cardinality(named) # 0
    BY <1>7, <2>1, FS_CardinalityType, FS_EmptySet
  <2>3. IsFiniteSet(CustomItems(tree))
    BY DEF Good, Now
  <2>4. Cardinality(CustomItems(tree)) \in Nat
    BY <2>3, FS_CardinalityType
  <2>5. Cardinality(CustomItems(tree)) < MaxItems
    BY <1>6, <2>2, <2>4, ObjectsAssumption
  <2>6. ~(1 .. MaxItems \subseteq {item.nr : item \in ItemsOf(tree, id)})
    BY <2>1, <2>3, <2>5, FewItemsLeaveRoom
  <2>7. ItemsOf(C.tree, id) \subseteq ItemsOf(tree, id)
    BY DEF ItemsOf
  <2>8. {item.nr : item \in ItemsOf(C.tree, id)} \subseteq {item.nr : item \in ItemsOf(tree, id)}
    BY <2>7
  <2> QED
    BY <2>6, <2>8 DEF Room, id
<1> QED
  BY <1>8, <1>9

(* Only finitely many custom objects have an entry: each has an item.      *)
LEMMA FewCustoms ==
    ASSUME NEW S, Good(S)
    PROVE  IsFiniteSet(DOMAIN S.objects \intersect Customs)
<1> DEFINE D == DOMAIN S.objects \intersect Customs
           g == [id \in D |-> S.found[id]]
<1>1. /\ \A id \in DOMAIN S.found : S.found[id].id = id
      /\ \A id \in (Ids \ Customs) \union DOMAIN S.objects : Leads(S, id)
      /\ IsFiniteSet(CustomItems(S.tree))
  BY DEF Good
<1>2. \A id \in D : S.found[id] \in CustomItems(S.tree) /\ S.found[id].id = id
  BY <1>1 DEF Leads, CustomItems
<1>3. g \in [D -> CustomItems(S.tree)] /\ \A id \in D : g[id].id = id
  BY <1>2
<1> HIDE DEF g, D
<1>4. IsInjective(g)
  BY <1>3 DEF IsInjective
<1>5. g \in Injection(D, CustomItems(S.tree))
  BY <1>3, <1>4 DEF Injection
<1> QED
  BY <1>1, <1>5, FS_Injection DEF D

(* importCustomObjects(): whatever the order of the entries was.           *)
LEMMA ImportKeeps ==
    ASSUME Good(Now), NEW file \in Seq(Change),
           Cardinality({item \in Children(tree) : item.id \in Customs})
             + Cardinality({file[j].id : j \in DOMAIN file} \intersect Customs) <= MaxItems,
           NEW order \in SetToAllKPermutations(DOMAIN objects \intersect Customs)
    PROVE  /\ Good(Imported(Cleared(Now, order), file))
           /\ Imported(Cleared(Now, order), file).objects = ReadTo(file, Len(file))
<1> DEFINE C == Cleared(Now, order)
<1>1. Now.objects = objects /\ Now.tree = tree
  BY DEF Now
<1>2. order \in Seq(Ids)
  <2>1. IsFiniteSet(DOMAIN objects \intersect Customs)
    BY <1>1, FewCustoms
  <2>2. order \in Seq(DOMAIN objects \intersect Customs)
    BY <2>1, OrderIs
  <2>3. DOMAIN objects \intersect Customs \subseteq Ids
    BY DEF Customs
  <2> QED
    BY <2>2, <2>3
<1>3. Good(C) /\ Children(C.tree) \subseteq Children(tree) /\ C.objects = <<>>
  BY <1>1, <1>2, ClearedKeeps
<1> HIDE DEF C
<1>4. \A i \in DOMAIN file : Room(C, file[i].id)
  BY <1>3, ImportRoom
<1>5. Good(Imported(C, file)) /\ Imported(C, file).objects = ReadTo(file, Len(file))
  BY <1>3, <1>4, ImportedKeeps
<1> QED
  BY <1>5 DEF C

(* The files are such sequences.                                           *)
LEMMA ImportsAreChanges ==
    Imports \subseteq Seq(Change)
<1> SUFFICES ASSUME NEW file \in Imports PROVE file \in Seq(Change)
  OBVIOUS
<1>1. file \in Seq(Modification) /\ \A i \in DOMAIN file : file[i].value \in Values(file[i].field)
  BY ImportsAssumption
<1>2. Len(file) \in Nat /\ DOMAIN file = 1 .. Len(file) /\ file = [i \in 1 .. Len(file) |-> file[i]]
      /\ \A i \in 1 .. Len(file) : file[i] \in Modification
  BY <1>1
<1>3. \A i \in 1 .. Len(file) : file[i] \in Change
  BY <1>1, <1>2 DEF Change
<1>4. file \in [1 .. Len(file) -> Change]
  BY <1>2, <1>3
<1> QED
  BY <1>2, <1>4

-----------------------------------------------------------------------------
(* The tree is loaded: an item for each original, in the folder of its     *)
(* class.                                                                  *)
LEMMA InitIsGood ==
    Init => Good(Now)
<1> SUFFICES ASSUME Init PROVE Good(Now)
  OBVIOUS
<1> DEFINE Std == Ids \ Customs
           F == Range(found)
           g == [o \in Originals |-> found[[original |-> o, custom |-> Standard]]]
<1>1. /\ objects = <<>> /\ found = [id \in Std |-> [id |-> id, nr |-> 1]]
      /\ tree \in [Folders -> SetToAllKPermutations(F)]
      /\ \A d \in Folders : Range(tree[d]) =
           {found[id] : id \in {i \in DOMAIN found : FolderOf(Now, i) = d}}
  BY DEF Init
<1>2. /\ \A id \in Std : id \in Ids /\ id.custom = Standard /\ id.original \in Originals
                         /\ id = [original |-> id.original, custom |-> Standard]
      /\ \A o \in Originals : [original |-> o, custom |-> Standard] \in Std
  BY DEF Ids, Customs
<1>3. Now.objects = objects /\ Now.tree = tree /\ Now.found = found
  BY DEF Now
<1> HIDE DEF Std
<1>4. DOMAIN found = Std /\ \A id \in Std : found[id].id = id /\ found[id] \in AnyItem
  <2>1. 1 \in Numbers
    BY ObjectsAssumption DEF Numbers
  <2> QED
    BY <1>1, <1>2, <2>1 DEF AnyItem
<1>5. F = {found[id] : id \in Std}
  BY <1>4 DEF Range
<1>6. IsFiniteSet(F)
  <2>1. g \in [Originals -> F]
    BY <1>2, <1>5
  <2>2. ASSUME NEW x \in F PROVE \E o \in Originals : g[o] = x
    <3>1. PICK id \in Std : x = found[id]
      BY <1>5
    <3>2. id.original \in Originals /\ id = [original |-> id.original, custom |-> Standard]
      BY <1>2
    <3> QED
      BY <3>1, <3>2
  <2> HIDE DEF g, F
  <2>3. g \in Surjection(Originals, F)
    BY <2>1, <2>2 DEF Surjection
  <2> QED
    BY <2>3, ObjectsAssumption, FS_Surjection
<1> HIDE DEF g, F
<1>7. \A d \in Folders : tree[d] \in Seq(F) /\ IsInjective(tree[d])
  BY <1>1, <1>6, OrderIs
<1>8. F \subseteq AnyItem
  BY <1>4, <1>5
<1>9. tree \in Trees
  <2>1. \A d \in Folders : tree[d] \in Seq(AnyItem)
    BY <1>7, <1>8
  <2> QED
    BY <1>1, <2>1 DEF Trees
<1>10. \A id \in Std : FolderOf(Now, id) \in Folders /\ ~FolderOf(Now, id).custom
  <2> SUFFICES ASSUME NEW id \in Std
               PROVE  FolderOf(Now, id) \in Folders /\ ~FolderOf(Now, id).custom
    OBVIOUS
  <2>1. Now.objects \in Objects
    BY <1>1, <1>3, PartialNone DEF Objects
  <2>2. id \in Ids /\ id.custom = Standard
    BY <1>2
  <2>3. FolderOf(Now, id) \in Folders /\ FolderOf(Now, id).custom = (id.custom # Standard)
    BY <2>1, <2>2, FolderType
  <2> QED
    BY <2>2, <2>3
<1>11. \A d \in Folders : \A x : x \in Range(tree[d]) <=>
          \E id \in Std : x = found[id] /\ FolderOf(Now, id) = d
  BY <1>1, <1>4
<1>12. Apart(tree)
  <2>1. ASSUME NEW d \in Folders, NEW e \in Folders, d # e
        PROVE  Range(tree[d]) \intersect Range(tree[e]) = {}
    <3> SUFFICES ASSUME NEW x, x \in Range(tree[d]), x \in Range(tree[e]) PROVE FALSE
      OBVIOUS
    <3>1. PICK i \in Std : x = found[i] /\ FolderOf(Now, i) = d
      BY <1>11
    <3>2. PICK j \in Std : x = found[j] /\ FolderOf(Now, j) = e
      BY <1>11
    <3>3. i = j
      BY <1>4, <3>1, <3>2
    <3> QED
      BY <2>1, <3>1, <3>2, <3>3
  <2>2. ASSUME NEW d \in Folders, NEW item \in Range(tree[d])
        PROVE  d.custom = (item.id.custom # Standard)
    <3>1. PICK id \in Std : item = found[id] /\ FolderOf(Now, id) = d
      BY <1>11
    <3>2. item.id = id /\ id.custom = Standard /\ ~d.custom
      BY <1>2, <1>4, <1>10, <3>1
    <3>3. d.custom \in BOOLEAN
      BY DEF Folders
    <3> QED
      BY <3>2, <3>3
  <2> QED
    BY <1>7, <2>1, <2>2 DEF Apart
<1>13. found \in Hashes
  <2>1. DOMAIN found \subseteq Ids /\ found \in [DOMAIN found -> AnyItem]
    BY <1>1, <1>2, <1>4
  <2> QED
    BY <2>1, PartialIs DEF Hashes
<1>14. \A id \in Std \union DOMAIN objects : Leads(Now, id)
  <2>1. DOMAIN objects = {}
    BY <1>1
  <2>2. ASSUME NEW id \in Std PROVE Leads(Now, id)
    <3>1. found[id] \in Range(tree[FolderOf(Now, id)])
      BY <1>10, <1>11
    <3> QED
      BY <1>3, <1>4, <1>10, <3>1, ChildrenAre DEF Leads
  <2> QED
    BY <2>1, <2>2
<1>15. CustomItems(tree) = {}
  <2> SUFFICES ASSUME NEW x \in CustomItems(tree) PROVE FALSE
    OBVIOUS
  <2>1. PICK d \in Folders : x \in Range(tree[d])
    BY ChildrenAre DEF CustomItems
  <2>2. PICK id \in Std : x = found[id]
    BY <1>11, <2>1
  <2>3. x.id = id /\ id.custom = Standard
    BY <1>2, <1>4, <2>2
  <2> QED
    BY <2>3 DEF CustomItems, Customs
<1>16. Now \in States
  BY <1>1, <1>9, <1>13, PartialNone DEF Now, States, Objects
<1> QED
  BY <1>3, <1>4, <1>12, <1>14, <1>15, <1>16, FS_EmptySet DEF Good, Std

(* The state after a step is the one the operation leaves.                 *)
LEMMA BecomesIs ==
    ASSUME NEW S \in States, Becomes(S)
    PROVE  Now' = S
<1>1. S = State(S.objects, S.tree, S.found)
  BY StateIs
<1>2. Now' = State(objects', tree', found')
  BY DEF Now, State
<1> QED
  BY <1>1, <1>2 DEF Becomes

(* The invariant holds of what the variables are between two calls.        *)
IInv == Good(Now)

(* An operation that leaves a good state keeps it.                         *)
LEMMA BecomesGood ==
    ASSUME NEW S, Good(S), Becomes(S)
    PROVE  IInv'
<1>1. S \in States
  BY DEF Good
<1>2. Now' = S
  BY <1>1, BecomesIs
<1>3. Good(Now')
  BY <1>2
<1> QED
  BY <1>3 DEF IInv

(* So does one that only changes entries.                                  *)
LEMMA EntriesGood ==
    ASSUME IInv, objects' \in Objects, DOMAIN objects' \subseteq DOMAIN objects,
           UNCHANGED <<tree, found>>
    PROVE  IInv'
<1>1. Now.objects = objects /\ Now.tree = tree /\ Now.found = found
  BY DEF Now
<1> DEFINE o == objects'
<1>2. Now' = State(o, tree, found)
  BY DEF Now, State
<1>3. o \in Objects /\ DOMAIN o \subseteq DOMAIN objects
  OBVIOUS
<1> HIDE DEF o
<1>4. Good(State(o, tree, found))
  BY <1>1, <1>3, EntriesChange DEF IInv
<1>5. Good(Now')
  BY <1>2, <1>4
<1> QED
  BY <1>5 DEF IInv

(* compress() takes fields from some entries and erases empty ones.        *)
LEMMA CompressKeeps ==
    ASSUME IInv, Compress
    PROVE  IInv'
<1>1. PICK done, lost :
        /\ objects' = [id \in DOMAIN objects \ (lost \intersect done) |->
              IF id \in done THEN Compressed(id) ELSE objects[id]]
        /\ UNCHANGED <<tree, found>>
  BY DEF Compress
<1>2. DOMAIN objects \subseteq Ids /\ \A id \in DOMAIN objects : objects[id] \in Entries
  <2>1. objects \in Objects
    BY StateIs DEF IInv, Good, Now
  <2> QED
    BY <2>1, PartialIs DEF Objects
<1>3. \A id \in DOMAIN objects : Compressed(id) \in Entries
  <2> SUFFICES ASSUME NEW id \in DOMAIN objects PROVE Compressed(id) \in Entries
    OBVIOUS
  <2> DEFINE D == DOMAIN objects[id] \ Redundant(id)
  <2>1. Compressed(id) = [f \in D |-> objects[id][f]]
    BY DEF Compressed
  <2>2. D \subseteq DOMAIN objects[id]
    OBVIOUS
  <2> HIDE DEF D
  <2> QED
    BY <1>2, <2>1, <2>2, EntryKept
<1> DEFINE o == objects'
           kept == DOMAIN objects \ (lost \intersect done)
<1>4. o \in [kept -> Entries] /\ kept \subseteq DOMAIN objects
  BY <1>1, <1>2, <1>3
<1> HIDE DEF o, kept
<1>5. DOMAIN o = kept /\ o \in [DOMAIN o -> Entries]
  BY <1>4
<1>6. o \in Objects
  BY <1>2, <1>4, <1>5, PartialIs DEF Objects
<1> QED
  BY <1>1, <1>4, <1>5, <1>6, EntriesGood DEF o

(* Every operation keeps the invariant.                                    *)
LEMMA StepIsGood ==
    IInv /\ [Next]_vars => IInv'
<1> SUFFICES ASSUME IInv, [Next]_vars PROVE IInv'
  OBVIOUS
<1>0. Good(Now) /\ Customs \subseteq Ids /\ Now.objects = objects
  BY DEF IInv, Customs, Now
<1>00. ASSUME UNCHANGED <<objects, tree, found>> PROVE IInv'
  <2>1. Now' = Now
    BY <1>00 DEF Now
  <2>2. Good(Now')
    BY <1>0, <2>1
  <2> QED
    BY <2>2 DEF IInv
<1>1. ASSUME NEW id \in Ids, NEW f \in Fields, NEW v \in Values(f), EditField(id, f, v)
      PROVE  IInv'
  <2>1. CanCreate(id) /\ Becomes(Modified(Now, id, f, v))
    BY <1>1 DEF EditField
  <2>2. Good(Modified(Now, id, f, v))
    BY <1>0, <2>1, CanCreateRoom, ModifiedKeeps
  <2> QED
    BY <2>1, <2>2, BecomesGood
<1>2. ASSUME NEW id \in Customs, NewObject(id) PROVE IInv'
  <2>1. id \in Ids /\ Room(Now, id)
    BY <1>0, <1>2, CanCreateRoom DEF NewObject
  <2>2. ASSUME NEW f \in OtherFields, Becomes(Modified(Now, id, f, "changed")) PROVE IInv'
    <3>1. f \in Fields /\ "changed" \in Values(f)
      BY ObjectsAssumption DEF Fields, Values
    <3>2. Good(Modified(Now, id, f, "changed"))
      BY <1>0, <2>1, <3>1, ModifiedKeeps
    <3> QED
      BY <2>2, <3>2, BecomesGood
  <2>3. ASSUME Becomes(Created(Now, id)) PROVE IInv'
    <3>1. Good(Created(Now, id))
      BY <1>0, <2>1, CreatedKeeps
    <3> QED
      BY <2>3, <3>1, BecomesGood
  <2> QED
    BY <1>2, <2>2, <2>3 DEF NewObject
<1>3. ASSUME NEW id \in Ids, NEW f \in Fields, ResetField(id, f) PROVE IInv'
  <2>1. Good(FieldReset(Now, id, f))
    BY <1>0, FieldResetKeeps
  <2> QED
    BY <1>3, <2>1, BecomesGood DEF ResetField
<1>4. ASSUME NEW id \in Ids, ResetObject(id) PROVE IInv'
  <2>1. DOMAIN objects \subseteq Ids /\ objects \in [DOMAIN objects -> Entries]
    BY <1>0, StateIs, PartialIs DEF Good, Objects
  <2>2. /\ id \in DOMAIN objects /\ objects' = [objects EXCEPT ![id] = <<>>]
        /\ UNCHANGED <<tree, found>>
    BY <1>4 DEF ResetObject
  <2>3. DOMAIN objects' = DOMAIN objects /\ objects' \in [DOMAIN objects' -> Entries]
    BY <2>1, <2>2, EntryNone
  <2>4. objects' \in Objects
    BY <2>1, <2>3, PartialIs DEF Objects
  <2> QED
    BY <2>2, <2>3, <2>4, EntriesGood
<1>5. ASSUME NEW id \in Ids, DeleteObject(id) PROVE IInv'
  <2>1. Good(Deleted(Now, id))
    BY <1>0, DeletedKeeps
  <2> QED
    BY <1>5, <2>1, BecomesGood DEF DeleteObject
<1>6. ASSUME NEW id \in Ids, UseDangling(id) PROVE IInv'
  <2>1. Good(Erased(Now, id))
    BY <1>0, DeletedKeeps
  <2> QED
    BY <1>00, <1>6, <2>1, BecomesGood DEF UseDangling
<1>7. ASSUME NEW file \in Imports, Import(file) PROVE IInv'
  <2>1. PICK order \in SetToAllKPermutations(DOMAIN objects \intersect Customs) :
          Becomes(Imported(Cleared(Now, order), file))
    BY <1>7 DEF Import
  <2>2. file \in Seq(Change)
    BY ImportsAreChanges
  <2>3. Good(Imported(Cleared(Now, order), file))
    BY <1>0, <1>7, <2>2, ImportKeeps DEF Import
  <2> QED
    BY <2>1, <2>3, BecomesGood
<1>8. ASSUME Compress PROVE IInv'
  BY <1>8, CompressKeeps
<1>9. ASSUME Export PROVE IInv'
  BY <1>00, <1>9 DEF Export
<1> QED
  BY <1>00, <1>1, <1>2, <1>3, <1>4, <1>5, <1>6, <1>7, <1>8, <1>9 DEF Next, vars

(* So it holds throughout.                                                 *)
LEMMA Invariance == Spec => []IInv
<1>1. Init => IInv
  BY InitIsGood DEF IInv
<1> QED
  BY <1>1, StepIsGood, PTL DEF Spec

(***************************************************************************)
(* Whatever objects, classes, fields and files there are, and in whatever  *)
(* order objects are created, edited, reset, deleted, imported and         *)
(* compressed, the tree shows every original object and every object that  *)
(* ObjectData holds an entry of, the hash finds it there, and no item is in*)
(* the tree twice.  (An object may have an item left from before it was    *)
(* erased, besides the one the hash finds.)                                *)
(***************************************************************************)
THEOREM TreeIsComplete == Spec => []TreeShowsObjects
<1>1. IInv => TreeShowsObjects
  <2> SUFFICES ASSUME IInv PROVE TreeShowsObjects
    OBVIOUS
  <2>1. /\ Apart(tree) /\ \A id \in DOMAIN found : found[id].id = id
        /\ \A id \in (Ids \ Customs) \union DOMAIN objects : Leads(Now, id)
    BY DEF IInv, Good, Now
  <2>2. \A id \in (Ids \ Customs) \union DOMAIN objects :
          id \in DOMAIN found /\ found[id].id = id /\ ~Dangles(id)
    BY <2>1 DEF Leads, Now, Dangles
  <2> QED
    BY <2>1, <2>2 DEF TreeShowsObjects, Apart
<1> QED
  BY <1>1, Invariance, PTL

(***************************************************************************)
(* After any edit the item of the object is in the folder of its class,    *)
(* also if modifyField() created the entry and the item before.            *)
(***************************************************************************)
THEOREM EditsMoveItems == Spec => EditMovesItem
<1> DEFINE Moves ==
        \A id \in Ids, f \in Fields : \A v \in Values(f) :
            EditField(id, f, v) => found'[id] \in Range(tree'[FolderOf(Now', id)])
<1>1. IInv => [Moves]_vars
  <2> SUFFICES ASSUME IInv, NEW id \in Ids, NEW f \in Fields, NEW v \in Values(f),
                      EditField(id, f, v)
               PROVE  found'[id] \in Range(tree'[FolderOf(Now', id)])
    OBVIOUS
  <2> DEFINE M == Modified(Now, id, f, v)
  <2>1. Good(Now) /\ CanCreate(id) /\ Becomes(M)
    BY DEF IInv, EditField
  <2>2. Good(M) /\ M.found[id] \in Range(M.tree[FolderOf(M, id)])
    BY <2>1, CanCreateRoom, ModifiedKeeps
  <2> HIDE DEF M
  <2>3. Now' = M
    BY <2>1, <2>2, BecomesIs DEF Good
  <2>4. found' = M.found /\ tree' = M.tree
    BY <2>1 DEF Becomes
  <2> QED
    BY <2>2, <2>3, <2>4
<1> QED
  BY <1>1, Invariance, PTL DEF EditMovesItem

(***************************************************************************)
(* After any import ObjectData holds what the file says and nothing else:  *)
(* nothing of what was there is left, in whatever order it was deleted,    *)
(* and of several modifications of one field the last one counts.          *)
(***************************************************************************)
THEOREM ImportsReplace == Spec => ImportReplaces
<1> DEFINE Replaces ==
        \A file \in Imports : Import(file) =>
            LET last(id, f) == {i \in DOMAIN file : file[i].id = id /\ file[i].field = f}
                held == {id \in Ids : \E i \in DOMAIN file : file[i].id = id}
            IN /\ DOMAIN objects' = held
               /\ \A id \in held : objects'[id] =
                    [f \in {g \in Fields : last(id, g) # {}} |-> file[Max(last(id, f))].value]
<1>1. IInv => [Replaces]_vars
  <2> SUFFICES ASSUME IInv, NEW file \in Imports, Import(file)
               PROVE  LET last(id, f) == {i \in DOMAIN file : file[i].id = id /\ file[i].field = f}
                          held == {id \in Ids : \E i \in DOMAIN file : file[i].id = id}
                      IN /\ DOMAIN objects' = held
                         /\ \A id \in held : objects'[id] =
                              [f \in {g \in Fields : last(id, g) # {}} |->
                                  file[Max(last(id, f))].value]
    OBVIOUS
  <2> DEFINE n == Len(file)
             last(id, f) == {i \in DOMAIN file : file[i].id = id /\ file[i].field = f}
             held == {id \in Ids : \E i \in DOMAIN file : file[i].id = id}
  <2>1. file \in Seq(Change)
    BY ImportsAreChanges
  <2>2. PICK order \in SetToAllKPermutations(DOMAIN objects \intersect Customs) :
          Becomes(Imported(Cleared(Now, order), file))
    BY DEF Import
  <2>3. Imported(Cleared(Now, order), file).objects = ReadTo(file, n)
    BY <2>1, ImportKeeps DEF Import, IInv
  <2>4. objects' = ReadTo(file, n)
    BY <2>2, <2>3 DEF Becomes
  <2>5. DOMAIN file = 1 .. n /\ \A i \in DOMAIN file : file[i].id \in Ids
    BY <2>1 DEF Change, Modification
  <2>6. \A id, f : last(id, f) = Latest(file, n, id, f)
    BY <2>5 DEF Latest
  <2>7. held = {file[i].id : i \in 1 .. n}
    BY <2>5
  <2> HIDE DEF n, last, held
  <2>8. DOMAIN objects' = held /\ \A id \in held : objects'[id] = EntryRead(file, n, id)
    BY <2>4, <2>7 DEF ReadTo
  <2>9. \A id : EntryRead(file, n, id) =
           [f \in {g \in Fields : last(id, g) # {}} |-> file[Max(last(id, f))].value]
    BY <2>6 DEF EntryRead
  <2>10. /\ DOMAIN objects' = held
         /\ \A id \in held : objects'[id] =
               [f \in {g \in Fields : last(id, g) # {}} |-> file[Max(last(id, f))].value]
    BY <2>8, <2>9
  <2> QED
    BY <2>10 DEF held, last
<1> QED
  BY <1>1, Invariance, PTL DEF ImportReplaces
=============================================================================
