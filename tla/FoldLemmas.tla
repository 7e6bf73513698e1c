----------------------------- MODULE FoldLemmas -----------------------------
(***************************************************************************)
(* Facts about folds.  A fold is a function defined by recursion over the  *)
(* subsets of a finite set; that there is such a function, and what it     *)
(* yields, is shown by going to a least counterexample.                    *)
(***************************************************************************)
EXTENDS Integers, Sequences, SequencesExt, FiniteSets, FiniteSetsExt, FiniteSetTheorems,
        SequenceTheorems, TLAPS

(* A set of numbers that is not empty has a least element.                 *)
LEMMA LeastNat ==
    ASSUME NEW S \in SUBSET Nat, S # {}
    PROVE  \E x \in S : \A y \in S : x <= y
<1> DEFINE R == OpToRel(<, Nat)
<1>1. \A x, y \in Nat : y < x => <<y, x>> \in R
  BY DEF OpToRel
<1>2. IsWellFoundedOn(R, Nat)
  BY NatLessThanWellFounded
<1> HIDE DEF R
<1>3. PICK x \in S : \A y \in S : ~ (<<y, x>> \in R)
  BY <1>2, WFMin
<1>4. \A y \in S : ~ (y < x) /\ x \in Nat /\ y \in Nat
  BY <1>1, <1>3
<1> QED
  BY <1>4

(* Induction up to a bound, over the numbers of a set.                     *)
LEMMA InductionTo ==
    ASSUME NEW n \in Nat, NEW Good, 0 \in Good,
           \A k \in 0 .. n - 1 : k \in Good => k + 1 \in Good
    PROVE  \A k \in 0 .. n : k \in Good
<1> DEFINE Bad == {k \in 0 .. n : k \notin Good}
<1> SUFFICES ASSUME Bad # {} PROVE FALSE
  OBVIOUS
<1>1. Bad \in SUBSET Nat
  OBVIOUS
<1>2. PICK m \in Bad : \A k \in Bad : m <= k
  <2> HIDE DEF Bad
  <2> QED
    BY <1>1, LeastNat
<1>3. m \in 1 .. n /\ m - 1 \in 0 .. n - 1 /\ m - 1 \notin Bad
  <2>1. m \in 0 .. n /\ m # 0
    OBVIOUS
  <2> HIDE DEF Bad
  <2> QED
    BY <1>2, <2>1
<1> QED
  BY <1>3

(* Recursion over the subsets of a finite set defines a function: step     *)
(* takes the element pick chooses and the result for the other elements.   *)
FoldEquation(g, S, base, pick, step) ==
    \A T \in SUBSET S :
        g[T] = IF T = {} THEN base ELSE step[<<pick[T], g[T \ {pick[T]}]>>]
LEMMA FoldExists ==
    ASSUME NEW S, IsFiniteSet(S), NEW X, NEW base \in X,
           NEW pick, \A T \in SUBSET S : T # {} => pick[T] \in T,
           NEW step \in [S \X X -> X]
    PROVE  \E g \in [SUBSET S -> X] : FoldEquation(g, S, base, pick, step)
<1> DEFINE Up(n) == {T \in SUBSET S : Cardinality(T) <= n}
           Good(g, n) == \A T \in Up(n) :
                g[T] = IF T = {} THEN base ELSE step[<<pick[T], g[T \ {pick[T]}]>>]
           Bad == {n \in Nat : ~ \E g \in [SUBSET S -> X] : Good(g, n)}
<1>1. \A T \in SUBSET S : IsFiniteSet(T) /\ Cardinality(T) \in Nat
  BY FS_Subset, FS_CardinalityType
<1>2. \A T \in SUBSET S : T # {} =>
        /\ pick[T] \in S /\ T \ {pick[T]} \in SUBSET S
        /\ Cardinality(T \ {pick[T]}) = Cardinality(T) - 1
  BY <1>1, FS_RemoveElement
<1>3. Bad = {}
  <2> SUFFICES ASSUME Bad # {} PROVE FALSE
    OBVIOUS
  <2>1. PICK m \in Bad : \A n \in Bad : m <= n
    BY LeastNat
  <2>2. CASE m = 0
    <3> DEFINE g == [T \in SUBSET S |-> base]
    <3>1. \A T \in Up(0) : T = {}
      BY <1>1, FS_EmptySet
    <3>2. g \in [SUBSET S -> X] /\ Good(g, 0)
      BY <3>1
    <3> QED
      BY <2>1, <2>2, <3>2
  <2>3. CASE m # 0
    <3>1. m - 1 \in Nat /\ m - 1 \notin Bad
      <4>1. m \in Nat
        OBVIOUS
      <4> HIDE DEF Bad
      <4> QED
        BY <2>1, <2>3, <4>1
    <3>2. PICK f \in [SUBSET S -> X] : Good(f, m - 1)
      BY <3>1
    <3> DEFINE g == [T \in SUBSET S |->
                        IF T \in Up(m - 1) THEN f[T] ELSE step[<<pick[T], f[T \ {pick[T]}]>>]]
    <3>3. {} \in Up(m - 1)
      BY <3>1, FS_EmptySet
    <3>4. \A T \in SUBSET S : T # {} => step[<<pick[T], f[T \ {pick[T]}]>>] \in X
      BY <1>2
    <3>5. g \in [SUBSET S -> X]
      BY <3>3, <3>4
    <3>6. \A T \in Up(m) : T # {} => T \ {pick[T]} \in Up(m - 1)
      <4> SUFFICES ASSUME NEW T \in SUBSET S, Cardinality(T) <= m, T # {}
                   PROVE  T \ {pick[T]} \in SUBSET S /\ Cardinality(T \ {pick[T]}) <= m - 1
        OBVIOUS
      <4>1. Cardinality(T) \in Nat /\ m \in Nat
        BY <1>1, <2>1
      <4> QED
        BY <1>2, <4>1
    <3>7. \A T \in Up(m) : T # {} => g[T \ {pick[T]}] = f[T \ {pick[T]}]
      BY <3>6
    <3>8. \A T \in Up(m - 1) : g[T] = f[T]
      OBVIOUS
    <3>9. \A T \in Up(m) \ Up(m - 1) : g[T] = step[<<pick[T], f[T \ {pick[T]}]>>] /\ T # {}
      BY <3>3
    <3> HIDE DEF g
    <3>10. \A T \in Up(m) :
            g[T] = IF T = {} THEN base ELSE step[<<pick[T], g[T \ {pick[T]}]>>]
      <4> HIDE DEF Up
      <4> SUFFICES ASSUME NEW T \in Up(m)
                   PROVE  g[T] = IF T = {} THEN base ELSE step[<<pick[T], g[T \ {pick[T]}]>>]
        OBVIOUS
      <4>1. CASE T \in Up(m - 1)
        BY <3>2, <3>7, <3>8, <4>1
      <4>2. CASE T \notin Up(m - 1)
        BY <3>7, <3>9, <4>2
      <4> QED
        BY <4>1, <4>2
    <3>11. Good(g, m)
      BY <3>10
    <3> QED
      BY <2>1, <3>5, <3>11
  <2> QED
    BY <2>2, <2>3
<1>4. Cardinality(S) \in Nat /\ SUBSET S = Up(Cardinality(S))
  BY <1>1, FS_Subset
<1>5. PICK g \in [SUBSET S -> X] : Good(g, Cardinality(S))
  BY <1>3, <1>4
<1> QED
  BY <1>4, <1>5 DEF FoldEquation

(* Two functions that start the same and are determined for a set by what  *)
(* they are without the element picked are the same.                       *)
SameSteps(g, h, S, pick) ==
    /\ g[{}] = h[{}]
    /\ \A T \in SUBSET S :
         T # {} => /\ pick[T] \in T
                   /\ g[T \ {pick[T]}] = h[T \ {pick[T]}] => g[T] = h[T]
LEMMA FoldUnique ==
    ASSUME NEW S, IsFiniteSet(S), NEW g, NEW h, NEW pick, SameSteps(g, h, S, pick)
    PROVE  \A T \in SUBSET S : g[T] = h[T]
<1> USE DEF SameSteps
<1> DEFINE n == Cardinality(S)
           Good == {k \in Nat : \A T \in SUBSET S : Cardinality(T) <= k => g[T] = h[T]}
<1>1. n \in Nat /\ \A T \in SUBSET S : /\ IsFiniteSet(T) /\ Cardinality(T) \in Nat
                                       /\ Cardinality(T) <= n
  BY FS_Subset, FS_CardinalityType
<1>2. 0 \in Good
  <2> SUFFICES ASSUME NEW T \in SUBSET S, Cardinality(T) <= 0 PROVE g[T] = h[T]
    OBVIOUS
  <2>1. T = {}
    BY <1>1, FS_EmptySet
  <2> QED
    BY <2>1
<1>3. \A k \in 0 .. n - 1 : k \in Good => k + 1 \in Good
  <2> SUFFICES ASSUME NEW k \in 0 .. n - 1, k \in Good,
                      NEW T \in SUBSET S, Cardinality(T) <= k + 1
               PROVE  g[T] = h[T]
    BY <1>1
  <2>1. CASE T = {}
    BY <2>1
  <2>2. CASE T # {}
    <3>1. pick[T] \in T /\ T \ {pick[T]} \in SUBSET S
      BY <2>2
    <3>2. Cardinality(T \ {pick[T]}) = Cardinality(T) - 1 /\ Cardinality(T) \in Nat
      BY <1>1, <3>1, FS_RemoveElement
    <3>3. Cardinality(T \ {pick[T]}) <= k
      BY <1>1, <3>2
    <3>4. g[T \ {pick[T]}] = h[T \ {pick[T]}]
      BY <3>1, <3>3
    <3> QED
      BY <2>2, <3>4
  <2> QED
    BY <2>1, <2>2
<1> HIDE DEF Good
<1>4. n \in Good
  <2>1. \A k \in 0 .. n : k \in Good
    BY <1>1, <1>2, <1>3, InductionTo
  <2> QED
    BY <1>1, <2>1
<1> QED
  BY <1>1, <1>4 DEF Good

-----------------------------------------------------------------------------
(* Folds over sequences from left to right, which take the greatest of the *)
(* positions that are left: what there is after each position.             *)

(* Max picks the largest element of a set of numbers with a bound.         *)
LEMMA MaxOfBounded ==
    ASSUME NEW n \in Nat, NEW T \in SUBSET (0 .. n), T # {}
    PROVE  Max(T) \in T /\ \A x \in T : x <= Max(T)
<1> DEFINE U == {u \in 0 .. n : n - u \in T}
<1>0. \A x \in T : n - x \in 0 .. n /\ n - (n - x) = x
  OBVIOUS
<1>1. U \in SUBSET Nat /\ U # {}
  <2>1. PICK x \in T : TRUE
    OBVIOUS
  <2>2. n - x \in 0 .. n /\ n - (n - x) \in T
    BY <1>0
  <2>3. n - x \in U
    BY <2>2
  <2>4. U \in SUBSET Nat
    OBVIOUS
  <2> HIDE DEF U
  <2> QED
    BY <2>3, <2>4
<1>2. PICK u \in U : \A v \in U : u <= v
  <2> HIDE DEF U
  <2> QED
    BY <1>1, LeastNat
<1> DEFINE m == n - u
<1>3. m \in T /\ u \in 0 .. n
  OBVIOUS
<1>4. \A x \in T : m >= x
  <2> SUFFICES ASSUME NEW x \in T PROVE n - u >= x
    OBVIOUS
  <2>0. n - x \in 0 .. n /\ n - (n - x) \in T
    BY <1>0
  <2>1. n - x \in U /\ x \in 0 .. n
    BY <2>0
  <2> QED
    BY <1>2, <1>3, <2>1
<1> QED
  BY <1>3, <1>4 DEF Max
(* Min picks the smallest.                                                 *)
LEMMA MinOfNumbers ==
    ASSUME NEW T \in SUBSET Nat, T # {}
    PROVE  Min(T) \in T /\ \A x \in T : Min(T) <= x
<1>1. PICK m \in T : \A x \in T : m <= x
  BY LeastNat
<1> QED
  BY <1>1 DEF Min

FoldsSeq(g, s, X, base, step) ==
    /\ g[{}] = base
    /\ \A T \in SUBSET DOMAIN s :
         T # {} /\ g[T \ {Max(T)}] \in X => g[T] = step[<<g[T \ {Max(T)}], s[Max(T)]>>]
Stages(h, s, X, base, step) ==
    /\ h \in [0 .. Len(s) -> X]
    /\ h[0] = base
    /\ \A k \in 1 .. Len(s) : h[k] = step[<<h[k - 1], s[k]>>]

StagesOf(g, h, s, X, base, step) == Stages(h, s, X, base, step) /\ h[Len(s)] = g[DOMAIN s]

(* Such a fold exists for every step.                                      *)
SeqFold(g, s, X, Y, base, step) ==
    /\ g \in [SUBSET DOMAIN s -> X]
    /\ g[{}] = base
    /\ \A T \in SUBSET DOMAIN s : T # {} =>
         /\ Max(T) \in DOMAIN s /\ s[Max(T)] \in Y /\ g[T \ {Max(T)}] \in X
         /\ g[T] = step[<<g[T \ {Max(T)}], s[Max(T)]>>]
LEMMA SeqFoldExists ==
    ASSUME NEW Y, NEW s \in Seq(Y), NEW X, NEW base \in X, NEW step \in [X \X Y -> X]
    PROVE  \E g : SeqFold(g, s, X, Y, base, step)
<1> DEFINE n == Len(s)
           D == DOMAIN s
           pick == [T \in SUBSET D |-> Max(T)]
           put == [p \in D \X X |-> step[<<p[2], s[p[1]]>>]]
<1>1. n \in Nat /\ D = 1 .. n
  OBVIOUS
<1>2. \A T \in SUBSET D : T # {} => Max(T) \in T
  <2>1. \A T \in SUBSET D : T \in SUBSET (0 .. n)
    BY <1>1
  <2> QED
    BY <1>1, <2>1, MaxOfBounded
<1>3. \A d \in D : s[d] \in Y
  OBVIOUS
<1>4. put \in [D \X X -> X]
  <2> SUFFICES ASSUME NEW d \in D, NEW x \in X PROVE step[<<x, s[d]>>] \in X
    OBVIOUS
  <2> QED
    BY <1>3
<1>5. \A d \in D, x \in X : put[<<d, x>>] = step[<<x, s[d]>>]
  OBVIOUS
<1>6. IsFiniteSet(D)
  BY <1>1, FS_Interval
<1>7. \A T \in SUBSET D : T # {} => pick[T] \in T
  BY <1>2
<1>8. \A T \in SUBSET D : pick[T] = Max(T)
  OBVIOUS
<1> HIDE DEF D, pick, put
<1>9. PICK g \in [SUBSET D -> X] : FoldEquation(g, D, base, pick, put)
  BY <1>4, <1>6, <1>7, FoldExists
<1>10. ASSUME NEW T \in SUBSET D, T # {}
       PROVE  /\ Max(T) \in D /\ s[Max(T)] \in Y /\ g[T \ {Max(T)}] \in X
              /\ g[T] = step[<<g[T \ {Max(T)}], s[Max(T)]>>]
  <2>1. Max(T) \in D /\ T \ {Max(T)} \in SUBSET D
    BY <1>2, <1>10
  <2>2. g[T \ {Max(T)}] \in X
    BY <2>1
  <2>3. g[T] = put[<<pick[T], g[T \ {pick[T]}]>>]
    BY <1>9, <1>10 DEF FoldEquation
  <2> QED
    BY <1>3, <1>5, <1>8, <2>1, <2>2, <2>3
<1>11. g[{}] = base
  BY <1>9 DEF FoldEquation
<1> QED
  BY <1>9, <1>10, <1>11 DEF D, SeqFold

(* The stages of a fold.                                                   *)
LEMMA SeqFoldStages ==
    ASSUME NEW Y, NEW s \in Seq(Y), NEW X, NEW base \in X, NEW step \in [X \X Y -> X],
           NEW g, FoldsSeq(g, s, X, base, step)
    PROVE  \E h : StagesOf(g, h, s, X, base, step)
<1> DEFINE n == Len(s)
           h == [k \in 0 .. n |-> g[1 .. k]]
<1>1. n \in Nat /\ DOMAIN s = 1 .. n /\ \A k \in 1 .. n : s[k] \in Y
  OBVIOUS
<1>2. \A k \in 1 .. n : /\ 1 .. k \in SUBSET (1 .. n) /\ 1 .. k # {}
                       /\ Max(1 .. k) = k /\ (1 .. k) \ {k} = 1 .. (k - 1)
  <2> SUFFICES ASSUME NEW k \in 1 .. n
               PROVE  /\ 1 .. k \in SUBSET (1 .. n) /\ 1 .. k # {}
                      /\ Max(1 .. k) = k /\ (1 .. k) \ {k} = 1 .. (k - 1)
    OBVIOUS
  <2>1. 1 .. k \in SUBSET (0 .. n) /\ k \in 1 .. k
    BY <1>1
  <2>2. Max(1 .. k) \in 1 .. k /\ k <= Max(1 .. k)
    BY <1>1, <2>1, MaxOfBounded
  <2> QED
    BY <1>1, <2>1, <2>2
<1>3. h[0] = base
  <2>1. 1 .. 0 = {} /\ 0 \in 0 .. n
    BY <1>1
  <2> QED
    BY <2>1 DEF FoldsSeq
<1>4. \A k \in 1 .. n : k \in 0 .. n /\ k - 1 \in 0 .. n
  BY <1>1
<1>5. \A k \in 1 .. n : h[k - 1] \in X => h[k] = step[<<h[k - 1], s[k]>>]
  <2> SUFFICES ASSUME NEW k \in 1 .. n, g[1 .. (k - 1)] \in X
               PROVE  g[1 .. k] = step[<<g[1 .. (k - 1)], s[k]>>]
    BY <1>4
  <2> QED
    BY <1>1, <1>2 DEF FoldsSeq
<1>6. h[n] = g[DOMAIN s]
  BY <1>1
<1>7. DOMAIN h = 0 .. n /\ h = [k \in 0 .. n |-> h[k]]
  OBVIOUS
<1> HIDE DEF h
<1>8. \A k \in 0 .. n : h[k] \in X
  <2> DEFINE Good == {k \in 0 .. n : h[k] \in X}
  <2>1. 0 \in Good
    BY <1>1, <1>3
  <2>2. \A k \in 0 .. n - 1 : k \in Good => k + 1 \in Good
    <3> SUFFICES ASSUME NEW k \in 0 .. n - 1, h[k] \in X
                 PROVE  k + 1 \in 0 .. n /\ h[k + 1] \in X
      OBVIOUS
    <3>1. k + 1 \in 1 .. n /\ (k + 1) - 1 = k
      BY <1>1
    <3>2. h[k + 1] = step[<<h[k], s[k + 1]>>] /\ s[k + 1] \in Y
      BY <1>1, <1>5, <3>1
    <3> QED
      BY <1>1, <3>1, <3>2
  <2> HIDE DEF Good
  <2>3. \A k \in 0 .. n : k \in Good
    BY <1>1, <2>1, <2>2, InductionTo
  <2> QED
    BY <2>3 DEF Good
<1>9. h \in [0 .. n -> X]
  BY <1>7, <1>8
<1>10. \A k \in 1 .. n : h[k] = step[<<h[k - 1], s[k]>>]
  BY <1>4, <1>5, <1>8
<1> QED
  BY <1>3, <1>6, <1>9, <1>10 DEF Stages, StagesOf

-----------------------------------------------------------------------------
(* Sums over finite sets: the order in which the elements are taken does   *)
(* not matter.                                                             *)
SumOver(f, T) == MapThenSumSet(LAMBDA x : f[x], T)
(* A sum is a function of the set, and any element can be added last.     *)
Sums(g, f, S) ==
    /\ g \in [SUBSET S -> Nat]
    /\ g[{}] = 0
    /\ \A T \in SUBSET S : SumOver(f, T) = g[T]
    /\ \A T \in SUBSET S : \A x \in T : g[T] = f[x] + g[T \ {x}]
LEMMA SumIsFunction ==
    ASSUME NEW S, IsFiniteSet(S), NEW f \in [S -> Nat]
    PROVE  \E g : Sums(g, f, S)
<1> DEFINE pick == [T \in SUBSET S |-> CHOOSE x \in T : TRUE]
           step == [p \in S \X Nat |-> f[p[1]] + p[2]]
<1>1. \A T \in SUBSET S : T # {} => pick[T] \in T
  OBVIOUS
<1>2. step \in [S \X Nat -> Nat] /\ 0 \in Nat
  OBVIOUS
<1>3. \A x \in S, m \in Nat : step[<<x, m>>] = f[x] + m
  OBVIOUS
<1>4. PICK g \in [SUBSET S -> Nat] : FoldEquation(g, S, 0, pick, step)
  <2> HIDE DEF pick, step
  <2> QED
    BY <1>1, <1>2, FoldExists
<1>5. \A T \in SUBSET S : T # {} => g[T] = f[pick[T]] + g[T \ {pick[T]}]
  <2> SUFFICES ASSUME NEW T \in SUBSET S, T # {} PROVE g[T] = f[pick[T]] + g[T \ {pick[T]}]
    OBVIOUS
  <2>1. pick[T] \in S /\ g[T \ {pick[T]}] \in Nat
    BY <1>1, <1>4
  <2> HIDE DEF pick, step
  <2> QED
    BY <1>3, <1>4, <2>1 DEF FoldEquation
<1>6. ASSUME NEW T \in SUBSET S PROVE SumOver(f, T) = g[T]
  <2> DEFINE Fold(it) == [s \in SUBSET T |->
                IF s = {} THEN 0 ELSE f[CHOOSE x \in s : TRUE] + it[s \ {CHOOSE x \in s : TRUE}]]
             c == CHOOSE it : it = Fold(it)
             h == [s \in SUBSET T |-> g[s]]
  <2>1. SumOver(f, T) = c[T]
    BY Zenon DEF SumOver, MapThenSumSet, MapThenFoldSet
  <2>2. h = Fold(h)
    <3> SUFFICES ASSUME NEW s \in SUBSET T
                 PROVE  h[s] = IF s = {} THEN 0 ELSE f[CHOOSE x \in s : TRUE]
                                                     + h[s \ {CHOOSE x \in s : TRUE}]
      OBVIOUS
    <3>1. s \in SUBSET S /\ pick[s] = CHOOSE x \in s : TRUE /\ s \ {pick[s]} \in SUBSET T
      OBVIOUS
    <3> HIDE DEF pick
    <3> QED
      BY <1>4, <1>5, <3>1 DEF FoldEquation
  <2>3. c = Fold(c)
    BY <2>2
  <2> HIDE DEF c
  <2>4. c[{}] = g[{}]
    BY <1>4, <2>3 DEF FoldEquation
  <2>5. \A U \in SUBSET T : U # {} =>
            /\ c[U] = f[pick[U]] + c[U \ {pick[U]}]
            /\ g[U] = f[pick[U]] + g[U \ {pick[U]}]
    <3> SUFFICES ASSUME NEW U \in SUBSET T, U # {}
                 PROVE  /\ c[U] = f[pick[U]] + c[U \ {pick[U]}]
                        /\ g[U] = f[pick[U]] + g[U \ {pick[U]}]
      OBVIOUS
    <3>1. U \in SUBSET S /\ pick[U] = CHOOSE x \in U : TRUE
      OBVIOUS
    <3>2. c[U] = f[CHOOSE x \in U : TRUE] + c[U \ {CHOOSE x \in U : TRUE}]
      BY <2>3
    <3>3. g[U] = f[pick[U]] + g[U \ {pick[U]}]
      BY <1>5, <3>1
    <3> QED
      BY <3>1, <3>2, <3>3
  <2>6. IsFiniteSet(T) /\ \A U \in SUBSET T : U # {} => pick[U] \in U
    BY <1>1, FS_Subset
  <2> HIDE DEF pick, step
  <2>7. \A U \in SUBSET T : U # {} /\ c[U \ {pick[U]}] = g[U \ {pick[U]}] => c[U] = g[U]
    BY <2>5
  <2>8. \A U \in SUBSET T : c[U] = g[U]
    <3>1. SameSteps(c, g, T, pick)
      BY <2>4, <2>6, <2>7 DEF SameSteps
    <3> QED
      BY <2>6, <3>1, FoldUnique
  <2> QED
    BY <2>1, <2>8
<1>7. g[{}] = 0
  BY <1>4 DEF FoldEquation
<1> DEFINE n == Cardinality(S)
           AnyLast(T) == \A x \in T : g[T] = f[x] + g[T \ {x}]
           Good == {k \in Nat : \A T \in SUBSET S : Cardinality(T) <= k => AnyLast(T)}
<1>8. n \in Nat /\ \A T \in SUBSET S : /\ IsFiniteSet(T) /\ Cardinality(T) \in Nat
                                       /\ Cardinality(T) <= n
  BY FS_Subset, FS_CardinalityType
<1>9. 0 \in Good
  <2>1. \A T \in SUBSET S : Cardinality(T) <= 0 => T = {}
    BY <1>8, FS_EmptySet
  <2> QED
    BY <2>1
<1>10. \A k \in 0 .. n - 1 : k \in Good => k + 1 \in Good
  <2> SUFFICES ASSUME NEW k \in 0 .. n - 1, k \in Good,
                      NEW T \in SUBSET S, Cardinality(T) <= k + 1
               PROVE  k + 1 \in Nat /\ AnyLast(T)
    <3>1. Good \in SUBSET Nat /\ \A k \in Nat :
              k \in Good <=> \A T \in SUBSET S : Cardinality(T) <= k => AnyLast(T)
      OBVIOUS
    <3>2. \A k \in 0 .. n - 1 : k + 1 \in Nat
      BY <1>8
    <3> HIDE DEF Good, AnyLast
    <3> QED
      BY <3>1, <3>2
  <2>0. \A U \in SUBSET S : Cardinality(U) <= k => AnyLast(U)
    OBVIOUS
  <2> HIDE DEF Good
  <2> SUFFICES ASSUME NEW x \in T PROVE g[T] = f[x] + g[T \ {x}]
    BY <1>8
  <2> DEFINE y == pick[T]
  <2>1. y \in T /\ y \in S /\ x \in S
    BY <1>1
  <2> HIDE DEF pick
  <2>2. g[T] = f[y] + g[T \ {y}]
    BY <1>5, <2>1
  <2>3. CASE x = y
    BY <2>2, <2>3
  <2>4. CASE x # y
    <3>1. \A z \in T : /\ T \ {z} \in SUBSET S
                       /\ Cardinality(T \ {z}) = Cardinality(T) - 1 /\ Cardinality(T) \in Nat
      BY <1>8, FS_RemoveElement
    <3>2. \A z \in T : T \ {z} \in SUBSET S /\ Cardinality(T \ {z}) <= k
      BY <1>8, <3>1
    <3>3. g[T \ {y}] = f[x] + g[(T \ {y}) \ {x}]
      BY <2>0, <2>1, <2>4, <3>2
    <3>4. g[T \ {x}] = f[y] + g[(T \ {x}) \ {y}]
      BY <2>0, <2>1, <2>4, <3>2
    <3>5. (T \ {y}) \ {x} = (T \ {x}) \ {y} /\ (T \ {x}) \ {y} \in SUBSET S
      OBVIOUS
    <3>6. f[x] \in Nat /\ f[y] \in Nat /\ g[(T \ {x}) \ {y}] \in Nat
      BY <2>1, <3>5
    <3> DEFINE rest == g[(T \ {x}) \ {y}]
    <3>7. rest \in Nat /\ g[T \ {x}] = f[y] + rest /\ g[T \ {y}] = f[x] + rest
      BY <3>3, <3>4, <3>5, <3>6
    <3> HIDE DEF rest
    <3>8. f[y] + (f[x] + rest) = f[x] + (f[y] + rest)
      BY <3>6, <3>7
    <3> QED
      BY <2>2, <3>7, <3>8
  <2> QED
    BY <2>3, <2>4
<1> HIDE DEF Good
<1>11. n \in Good
  <2>1. \A k \in 0 .. n : k \in Good
    BY <1>8, <1>9, <1>10, InductionTo
  <2> QED
    BY <1>8, <2>1
<1>12. \A T \in SUBSET S : \A x \in T : g[T] = f[x] + g[T \ {x}]
  BY <1>8, <1>11 DEF Good
<1> QED
  BY <1>4, <1>6, <1>7, <1>12 DEF Sums

(* What is used of sums.                                                   *)
LEMMA SumProperties ==
    ASSUME NEW S, IsFiniteSet(S), NEW f \in [S -> Nat], NEW T \in SUBSET S
    PROVE  /\ SumOver(f, T) \in Nat
           /\ T = {} => SumOver(f, T) = 0
           /\ \A x \in T : SumOver(f, T) = f[x] + SumOver(f, T \ {x})
<1>1. PICK g : Sums(g, f, S)
  BY SumIsFunction
<1>2. \A x \in T : T \ {x} \in SUBSET S
  OBVIOUS
<1> QED
  BY <1>1, <1>2 DEF Sums

(* Equal summands have equal sums.                                         *)
LEMMA SumCongruence ==
    ASSUME NEW S, IsFiniteSet(S), NEW f \in [S -> Nat], NEW h \in [S -> Nat],
           NEW T \in SUBSET S, \A x \in T : f[x] = h[x]
    PROVE  SumOver(f, T) = SumOver(h, T)
<1> DEFINE F == [U \in SUBSET T |-> SumOver(f, U)]
           H == [U \in SUBSET T |-> SumOver(h, U)]
           pick == [U \in SUBSET T |-> CHOOSE x \in U : TRUE]
<1>1. F[{}] = H[{}]
  BY SumProperties
<1>2. \A U \in SUBSET T : U # {} => pick[U] \in U
  OBVIOUS
<1>3. \A U \in SUBSET T : U # {} /\ F[U \ {pick[U]}] = H[U \ {pick[U]}] => F[U] = H[U]
  <2> SUFFICES ASSUME NEW U \in SUBSET T, U # {}, F[U \ {pick[U]}] = H[U \ {pick[U]}]
               PROVE  F[U] = H[U]
    OBVIOUS
  <2>1. pick[U] \in U /\ U \ {pick[U]} \in SUBSET T /\ U \in SUBSET S
    BY <1>2
  <2>2. PICK x \in U : x = pick[U]
    BY <2>1
  <2> HIDE DEF pick
  <2>3. SumOver(f, U) = f[x] + SumOver(f, U \ {x}) /\ SumOver(h, U) = h[x] + SumOver(h, U \ {x})
    BY <2>1, SumProperties
  <2>4. F[U \ {x}] = SumOver(f, U \ {x}) /\ H[U \ {x}] = SumOver(h, U \ {x})
    BY <2>1, <2>2
  <2>5. F[U] = SumOver(f, U) /\ H[U] = SumOver(h, U)
    OBVIOUS
  <2>6. f[x] = h[x] /\ F[U \ {x}] = H[U \ {x}]
    BY <2>2
  <2> HIDE DEF F, H
  <2> QED
    BY <2>3, <2>4, <2>5, <2>6
<1>4. IsFiniteSet(T)
  BY FS_Subset
<1> HIDE DEF F, H, pick
<1>5. SameSteps(F, H, T, pick)
  BY <1>1, <1>2, <1>3 DEF SameSteps
<1>6. \A U \in SUBSET T : F[U] = H[U]
  BY <1>4, <1>5, FoldUnique
<1> QED
  BY <1>6 DEF F, H

-----------------------------------------------------------------------------
(***************************************************************************)
(* Sequences, one behind the other.                                        *)
(***************************************************************************)
(* The first k of the sequences, put together.                             *)
Flats(h, s, T) ==
    /\ h \in [0..Len(s) -> Seq(T)] /\ h[0] = <<>>
    /\ \A k \in 1..Len(s) : h[k] = h[k - 1] \o s[k]

(* There are such stages for every sequence of sequences.                  *)
LEMMA FlatsExist ==
    ASSUME NEW T, NEW s \in Seq(Seq(T))
    PROVE  \E h : Flats(h, s, T)
<1> DEFINE X == Seq(T)
           step == [p \in X \X X |-> p[1] \o p[2]]
<1>1. <<>> \in X /\ \A x, y \in X : x \o y \in X
  OBVIOUS
<1>2. step \in [X \X X -> X] /\ \A x, y \in X : step[<<x, y>>] = x \o y
  <2> HIDE DEF X
  <2> QED BY <1>1
<1>3. Len(s) \in Nat /\ \A k \in 1..Len(s) : s[k] \in X
  OBVIOUS
<1> HIDE DEF X, step
<1>4. s \in Seq(X)
  BY DEF X
<1>5. PICK g : SeqFold(g, s, X, X, <<>>, step)
  BY <1>1, <1>2, <1>4, SeqFoldExists
<1>6. FoldsSeq(g, s, X, <<>>, step)
  BY <1>5 DEF SeqFold, FoldsSeq
<1>7. PICK h : StagesOf(g, h, s, X, <<>>, step)
  BY <1>1, <1>2, <1>4, <1>6, SeqFoldStages
<1>8. /\ h \in [0..Len(s) -> X] /\ h[0] = <<>>
      /\ \A k \in 1..Len(s) : h[k] = step[<<h[k - 1], s[k]>>]
  BY <1>7 DEF StagesOf, Stages
<1>9. \A k \in 1..Len(s) : h[k - 1] \in X
  <2>1. \A k \in 1..Len(s) : k - 1 \in 0..Len(s)
    BY <1>3
  <2> QED BY <2>1, <1>8
<1>10. \A k \in 1..Len(s) : h[k] = h[k - 1] \o s[k]
  BY <1>2, <1>3, <1>8, <1>9
<1> QED BY <1>8, <1>10 DEF Flats, X

(* The last stage is what FlattenSeq() makes of all.                       *)
LEMMA FlatsEnd ==
    ASSUME NEW T, NEW s \in Seq(Seq(T)), NEW h, Flats(h, s, T)
    PROVE  FlattenSeq(s) = h[Len(s)]
<1> DEFINE n == Len(s)
           Flat(it) == [i \in 1..n |-> IF i = 1 THEN s[i] ELSE it[i - 1] \o s[i]]
           f == [k \in 1..n |-> h[k]]
           c == CHOOSE it : it = Flat(it)
<1>1. /\ n \in Nat /\ \A k \in 1..n : s[k] \in Seq(T)
      /\ s = <<>> <=> n = 0
  OBVIOUS
<1>2. /\ h \in [0..n -> Seq(T)] /\ h[0] = <<>>
      /\ \A k \in 1..n : h[k] = h[k - 1] \o s[k]
  BY DEF Flats
<1> HIDE DEF n
<1>3. \A k \in 1..n : k - 1 \in 0..n /\ (k # 1 => k - 1 \in 1..n)
  BY <1>1
<1>4. \A k \in 1..n : h[k] = IF k = 1 THEN s[k] ELSE h[k - 1] \o s[k]
  <2> SUFFICES ASSUME NEW k \in 1..n, k = 1 PROVE h[k] = s[k]
    BY <1>2
  <2>1. h[k - 1] = <<>> /\ s[k] \in Seq(T)
    BY <1>1, <1>2
  <2>2. h[k] = <<>> \o s[k]
    BY <1>2, <2>1
  <2> QED BY <2>1, <2>2, ConcatEmptySeq
<1>5. f = Flat(f)
  BY <1>3, <1>4
<1> HIDE DEF f
<1>6. c = Flat(c)
  BY <1>5
<1> HIDE DEF c
<1>7. \A k \in 1..n : c[k] = IF k = 1 THEN s[k] ELSE c[k - 1] \o s[k]
  BY <1>6
<1> DEFINE Good == {k \in 0..n : k > 0 => c[k] = h[k]}
<1>8. \A k \in 0..n : k \in Good
  <2>1. 0 \in Good
    BY <1>1
  <2>2. ASSUME NEW k \in 0..n - 1, k \in Good PROVE k + 1 \in Good
    <3>1. k + 1 \in 1..n /\ k + 1 \in 0..n /\ (k + 1) - 1 = k /\ k \in Nat
      BY <1>1
    <3>2. k > 0 => c[k] = h[k]
      BY <2>2
    <3>3. c[k + 1] = h[k + 1]
      BY <1>4, <1>7, <3>1, <3>2
    <3> QED BY <3>1, <3>3
  <2> HIDE DEF Good
  <2> QED BY <1>1, <2>1, <2>2, InductionTo
<1>9. CASE n = 0
  BY <1>1, <1>2, <1>9 DEF FlattenSeq, n
<1>10. CASE n # 0
  <2>1. FlattenSeq(s) = c[n]
    BY <1>10, Zenon DEF FlattenSeq, n, c
  <2>2. n \in 0..n /\ n > 0
    BY <1>1, <1>10
  <2> QED BY <1>8, <2>1, <2>2 DEF n
<1> QED BY <1>9, <1>10

(* So is every stage of the beginning it stands for.                       *)
LEMMA FlatsOfBeginning ==
    ASSUME NEW T, NEW s \in Seq(Seq(T)), NEW h, Flats(h, s, T), NEW k \in 0..Len(s)
    PROVE  FlattenSeq(SubSeq(s, 1, k)) = h[k]
<1> DEFINE b == SubSeq(s, 1, k)
           g == [i \in 0..k |-> h[i]]
<1>1. Len(s) \in Nat /\ k \in Nat /\ k <= Len(s) /\ \A i \in 1..k : s[i] \in Seq(T)
  OBVIOUS
<1>2. b \in Seq(Seq(T)) /\ Len(b) = k /\ \A i \in 1..k : b[i] = s[i]
  BY <1>1, SubSeqProperties
<1> HIDE DEF b
<1>3. /\ h \in [0..Len(s) -> Seq(T)] /\ h[0] = <<>>
      /\ \A i \in 1..Len(s) : h[i] = h[i - 1] \o s[i]
  BY DEF Flats
<1>4. \A i \in 0..k : i \in 0..Len(s)
  BY <1>1
<1>5. \A i \in 1..k : i \in 1..Len(s) /\ i \in 0..k /\ i - 1 \in 0..k
  BY <1>1
<1>6. Flats(g, b, T)
  <2>0. 0 \in 0..k
    BY <1>1
  <2>1. g \in [0..k -> Seq(T)] /\ g[0] = <<>>
    <3> HIDE DEF Flats
    <3>1. \A i \in 0..k : h[i] \in Seq(T)
      BY <1>3, <1>4
    <3> QED BY <2>0, <3>1, <1>3
  <2>2. \A i \in 1..k : g[i] = g[i - 1] \o b[i]
    BY <1>2, <1>3, <1>5
  <2> QED BY <1>2, <2>1, <2>2 DEF Flats
<1>7. FlattenSeq(b) = g[k]
  BY <1>2, <1>6, FlatsEnd
<1>8. k \in 0..k
  BY <1>1
<1> QED BY <1>7, <1>8 DEF b

(* Each sequence is found again between its two stages.                    *)
Between(cells, from, to) == SubSeq(cells, from + 1, to)

(* Where one of them lies in what FlattenSeq() makes of all.               *)
LEMMA FlatsParts ==
    ASSUME NEW T, NEW s \in Seq(Seq(T)), NEW h, Flats(h, s, T), NEW k \in 1..Len(s)
    PROVE  /\ Len(h[k - 1]) \in Nat /\ Len(h[k]) \in Nat /\ Len(h[Len(s)]) \in Nat
           /\ Len(h[k]) = Len(h[k - 1]) + Len(s[k]) /\ Len(h[k]) <= Len(h[Len(s)])
           /\ Between(h[Len(s)], Len(h[k - 1]), Len(h[k])) = s[k]
<1> DEFINE n == Len(s)
           Good == {i \in 0..n : i >= k => /\ Len(h[k]) <= Len(h[i])
                                          /\ \A j \in 1..Len(h[k]) : h[i][j] = h[k][j]}
<1>1. /\ n \in Nat /\ k \in Nat /\ k - 1 \in 0..n /\ k \in 0..n /\ n \in 0..n
      /\ \A i \in 1..n : s[i] \in Seq(T)
  OBVIOUS
<1>2. /\ h \in [0..n -> Seq(T)] /\ h[0] = <<>>
      /\ \A i \in 1..n : h[i] = h[i - 1] \o s[i]
  BY DEF Flats
<1> HIDE DEF n
<1>3. \A i \in 0..n : h[i] \in Seq(T) /\ Len(h[i]) \in Nat
  BY <1>2
<1>4. \A i \in 1..n : /\ Len(h[i]) = Len(h[i - 1]) + Len(s[i])
                     /\ \A j \in 1..Len(h[i]) :
                          h[i][j] = IF j <= Len(h[i - 1]) THEN h[i - 1][j]
                                                          ELSE s[i][j - Len(h[i - 1])]
  <2> SUFFICES ASSUME NEW i \in 1..n
               PROVE  /\ Len(h[i]) = Len(h[i - 1]) + Len(s[i])
                      /\ \A j \in 1..Len(h[i]) :
                           h[i][j] = IF j <= Len(h[i - 1]) THEN h[i - 1][j]
                                                           ELSE s[i][j - Len(h[i - 1])]
    OBVIOUS
  <2>0. i - 1 \in 0..n
    BY <1>1
  <2>1. h[i - 1] \in Seq(T) /\ s[i] \in Seq(T)
    BY <2>0, <1>1, <1>3
  <2> DEFINE x == h[i - 1]
             y == s[i]
  <2>2. h[i] = x \o y
    BY <1>2
  <2>3. x \in Seq(T) /\ y \in Seq(T)
    BY <2>1
  <2> HIDE DEF x, y
  <2>4. /\ Len(x \o y) = Len(x) + Len(y) /\ Len(x) \in Nat /\ Len(y) \in Nat
        /\ \A j \in 1..Len(x) + Len(y) : (x \o y)[j] = IF j <= Len(x) THEN x[j] ELSE y[j - Len(x)]
    BY <2>3, ConcatProperties
  <2> QED BY <2>2, <2>4 DEF x, y
<1>5. \A i \in 1..n : Len(s[i]) \in Nat
  BY <1>1
<1>6. \A i \in 0..n : i \in Good
  <2>1. 0 \in Good
    BY <1>1
  <2>2. ASSUME NEW i \in 0..n - 1, i \in Good PROVE i + 1 \in Good
    <3>1. i + 1 \in 1..n /\ i + 1 \in 0..n /\ (i + 1) - 1 = i /\ i \in Nat /\ i \in 0..n
      BY <1>1
    <3>2. CASE i + 1 = k
      BY <3>1, <3>2, <1>3
    <3>3. CASE i + 1 < k
      BY <3>1, <3>3, <1>1
    <3>4. CASE i + 1 > k
      <4>1. Len(h[k]) <= Len(h[i]) /\ \A j \in 1..Len(h[k]) : h[i][j] = h[k][j]
        BY <2>2, <3>1, <3>4, <1>1
      <4>2. /\ Len(h[i + 1]) = Len(h[i]) + Len(s[i + 1])
            /\ \A j \in 1..Len(h[i + 1]) : j <= Len(h[i]) => h[i + 1][j] = h[i][j]
        BY <1>4, <3>1
      <4>3. Len(h[i]) \in Nat /\ Len(h[i + 1]) \in Nat /\ Len(s[i + 1]) \in Nat /\ Len(h[k]) \in Nat
        BY <1>1, <1>3, <1>5, <3>1
      <4>4. Len(h[k]) <= Len(h[i + 1])
        <5> DEFINE x == Len(h[k])
                   y == Len(h[i])
                   z == Len(s[i + 1])
        <5>1. x <= y /\ Len(h[i + 1]) = y + z
          BY <4>1, <4>2
        <5>2. x \in Nat /\ y \in Nat /\ z \in Nat
          BY <4>3
        <5> HIDE DEF x, y, z
        <5>3. x <= y + z
          BY <5>1, <5>2
        <5> QED BY <5>1, <5>3 DEF x
      <4>5. \A j \in 1..Len(h[k]) : j \in 1..Len(h[i + 1]) /\ j <= Len(h[i])
        BY <4>1, <4>3, <4>4
      <4>6. \A j \in 1..Len(h[k]) : h[i + 1][j] = h[k][j]
        BY <4>1, <4>2, <4>5
      <4> QED BY <3>1, <4>4, <4>6
    <3> QED BY <3>1, <3>2, <3>3, <3>4, <1>1
  <2> HIDE DEF Good
  <2> QED BY <1>1, <2>1, <2>2, InductionTo
<1>7. Len(h[k]) <= Len(h[n]) /\ \A j \in 1..Len(h[k]) : h[n][j] = h[k][j]
  <2>1. n \in Good /\ n >= k
    BY <1>1, <1>6 DEF n
  <2> QED BY <2>1
<1>8. /\ Len(h[k - 1]) \in Nat /\ Len(h[k]) \in Nat /\ Len(h[n]) \in Nat /\ Len(s[k]) \in Nat
      /\ k \in 1..n
  BY <1>1, <1>3, <1>5 DEF n
<1> DEFINE a == Len(h[k - 1])
           b == Len(h[k])
           part == SubSeq(h[n], a + 1, b)
<1>9. b = a + Len(s[k])
  BY <1>4, <1>8
<1>10. part \in Seq(T) /\ Len(part) = Len(s[k]) /\ \A i \in 1..Len(s[k]) : part[i] = h[n][a + i]
  <2>1. \A i \in a + 1..b : h[n][i] \in T
    <3>1. h[n] \in Seq(T)
      BY <1>1, <1>3
    <3> HIDE DEF a, b
    <3> QED BY <3>1, <1>7, <1>8 DEF a, b
  <2>2. a + 1 \in Int /\ b \in Int
    BY <1>8
  <2>3. /\ part \in Seq(T) /\ Len(part) = IF a + 1 <= b THEN b - (a + 1) + 1 ELSE 0
        /\ \A i \in 1..b - (a + 1) + 1 : part[i] = h[n][(a + 1) + i - 1]
    <3> DEFINE w == h[n]
    <3>1. \A i \in a + 1..b : w[i] \in T
      BY <2>1
    <3> HIDE DEF a, b, w
    <3>2. /\ SubSeq(w, a + 1, b) \in Seq(T)
          /\ Len(SubSeq(w, a + 1, b)) = IF a + 1 <= b THEN b - (a + 1) + 1 ELSE 0
          /\ \A i \in 1..b - (a + 1) + 1 : SubSeq(w, a + 1, b)[i] = w[(a + 1) + i - 1]
      BY <2>2, <3>1, SubSeqProperties
    <3> QED BY <3>2 DEF w
  <2> HIDE DEF part
  <2> QED BY <2>3, <1>8, <1>9
<1>11. \A i \in 1..Len(s[k]) : h[n][a + i] = s[k][i]
  <2> SUFFICES ASSUME NEW i \in 1..Len(s[k]) PROVE h[n][a + i] = s[k][i]
    OBVIOUS
  <2>1. a \in Nat /\ b \in Nat /\ Len(s[k]) \in Nat
    BY <1>8
  <2>2. a + i \in 1..b /\ ~(a + i <= a) /\ (a + i) - a = i
    <3> HIDE DEF a, b
    <3> QED BY <2>1, <1>9
  <2> QED BY <2>2, <1>4, <1>7, <1>8
<1>12. part = s[k]
  <2>1. s[k] \in Seq(T)
    BY <1>1, <1>8
  <2> HIDE DEF part, a
  <2> QED BY <1>10, <1>11, <2>1, SeqEqual
<1> QED BY <1>7, <1>8, <1>9, <1>12 DEF Between, n

(* So are the cells of each.                                               *)
LEMMA FlatsCells ==
    ASSUME NEW T, NEW s \in Seq(Seq(T)), NEW h, Flats(h, s, T), NEW k \in 1..Len(s),
           NEW i \in 1..Len(s[k])
    PROVE  h[Len(s)][Len(h[k - 1]) + i] = s[k][i]
<1> DEFINE a == Len(h[k - 1])
           b == Len(h[k])
           c == h[Len(s)]
           n == Len(s[k])
<1>1. Len(s) \in Nat /\ Len(s) \in 0..Len(s) /\ s[k] \in Seq(T) /\ n \in Nat
  OBVIOUS
<1>2. a \in Nat /\ b \in Nat /\ Len(c) \in Nat /\ b = a + n /\ b <= Len(c)
  BY FlatsParts
<1>3. SubSeq(c, a + 1, b) = s[k]
  BY FlatsParts DEF Between
<1>4. c \in Seq(T)
  BY <1>1 DEF Flats
<1> HIDE DEF a, b, c
<1>5. \A j \in a + 1..b : c[j] \in T
  BY <1>2, <1>4
<1>6. \A j \in 1..b - (a + 1) + 1 : SubSeq(c, a + 1, b)[j] = c[(a + 1) + j - 1]
  BY <1>2, <1>5, SubSeqProperties
<1> HIDE DEF n
<1>7. i \in 1..n
  BY DEF n
<1>8. i \in 1..b - (a + 1) + 1 /\ (a + 1) + i - 1 = a + i
  BY <1>1, <1>2, <1>7
<1>9. SubSeq(c, a + 1, b)[i] = c[a + i]
  BY <1>6, <1>8
<1> QED BY <1>3, <1>9 DEF a, c

(* A sequence of one sequence, put together.                               *)
LEMMA OneFlattened ==
    ASSUME NEW T, NEW x \in Seq(T)
    PROVE  FlattenSeq(<<x>>) = x
<1> DEFINE s == <<x>>
<1>1. s \in Seq(Seq(T)) /\ Len(s) = 1 /\ s[1] = x
  OBVIOUS
<1> HIDE DEF s
<1>2. PICK h : Flats(h, s, T)
  BY <1>1, FlatsExist
<1>3. h[1] = h[1 - 1] \o s[1] /\ h[0] = <<>>
  BY <1>1, <1>2 DEF Flats
<1>4. 1 - 1 = 0
  OBVIOUS
<1>5. <<>> \o x = x
  BY ConcatEmptySeq
<1>6. FlattenSeq(s) = h[1]
  BY <1>1, <1>2, FlatsEnd
<1> QED BY <1>1, <1>3, <1>4, <1>5, <1>6 DEF s
=============================================================================
