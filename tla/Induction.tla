------------------------------ MODULE Induction ------------------------------
(***************************************************************************)
(* Induction over data, for the proofs about operators that fold over a    *)
(* sequence.  The induction theorems of the library take the property as   *)
(* an operator, which no installed prover instantiates; here a property is *)
(* a set of numbers, and the step of a fold is a function.  So is what the *)
(* proofs need of sums over finite sets and of insertion into a sequence.  *)
(***************************************************************************)
EXTENDS Integers, Sequences, SequencesExt, SequenceTheorems, FiniteSetTheorems,
        WellFoundedInduction, TLAPS

\* Every non-empty set of natural numbers has a least element.
LEMMA LeastElement ==
  ASSUME NEW S, S \subseteq Nat, S # {}
  PROVE  \E m \in S : \A n \in S : m <= n
<1>1. \E x \in S : \A y \in S : ~(<<y, x>> \in OpToRel(<, Nat))
  BY WFMin, NatLessThanWellFounded
<1>2. \A x \in S, y \in S : ~(<<y, x>> \in OpToRel(<, Nat)) => x <= y
  BY DEF OpToRel
<1>. QED
  BY <1>1, <1>2

\* Induction over the natural numbers, for the set of those with a property.
LEMMA SetInduction ==
  ASSUME NEW S, 0 \in S, \A n \in Nat : n \in S => n + 1 \in S
  PROVE  \A n \in Nat : n \in S
<1>. SUFFICES ASSUME Nat \ S # {} PROVE FALSE
  OBVIOUS
<1>1. PICK m \in Nat \ S : \A n \in Nat \ S : m <= n
  BY LeastElement
<1>2. m # 0 /\ m - 1 \in Nat /\ m - 1 \in S
  BY <1>1
<1>. QED
  BY <1>1, <1>2

\* Every non-empty set of numbers up to n has a greatest element.
LEMMA MaxOfSubset ==
  ASSUME NEW n \in Nat, NEW s \in SUBSET (1..n), s # {}
  PROVE  Max(s) \in s /\ \A i \in s : i <= Max(s)
<1>. DEFINE T == {k \in Nat : \E i \in s : k = n - i}
<1>1. T \subseteq Nat /\ T # {}
  <2>1. PICK i \in s : TRUE
    OBVIOUS
  <2>2. n - i \in T
    BY <2>1
  <2>. QED
    BY <2>2
<1>2. PICK m \in T : \A k \in T : m <= k
  BY <1>1, LeastElement
<1>3. n - m \in s /\ \A i \in s : i <= n - m
  BY <1>2
<1>4. \E x \in s : \A y \in s : x >= y
  BY <1>3
<1>5. Max(s) \in s /\ \A y \in s : Max(s) >= y
  BY <1>4 DEF Max
<1>. QED
  BY <1>5

\* The recursion inside the folds of the community modules, over the subsets of
\* S and into X: F is the step, and c chooses the element that is next.
HasFold(S, X, b, F, c) ==
  \E g \in [SUBSET S -> X] :
    /\ g[{}] = b
    /\ \A s \in (SUBSET S) \ {{}} : g[s] = F[<<g[s \ {c[s]}], c[s]>>]

\* Over a finite set that recursion has a solution.
LEMMA FoldExists ==
  ASSUME NEW S, IsFiniteSet(S), NEW X, NEW b \in X, NEW F \in [X \X S -> X],
         NEW c \in [(SUBSET S) \ {{}} -> S], \A s \in (SUBSET S) \ {{}} : c[s] \in s
  PROVE  HasFold(S, X, b, F, c)
<1>. DEFINE Small(n) == {s \in SUBSET S : Cardinality(s) <= n}
            Good(n, g) == \A s \in Small(n) :
                            g[s] = IF s = {} THEN b ELSE F[<<g[s \ {c[s]}], c[s]>>]
            T == {n \in Nat : \E g \in [Small(n) -> X] : Good(n, g)}
<1>1. \A s \in SUBSET S : /\ IsFiniteSet(s) /\ Cardinality(s) \in Nat
                          /\ Cardinality(s) <= Cardinality(S)
                          /\ Cardinality(s) = 0 <=> s = {}
  BY FS_Subset, FS_CardinalityType, FS_EmptySet
<1>2. \A s \in SUBSET S : s # {} =>
        /\ s \ {c[s]} \in SUBSET S
        /\ Cardinality(s \ {c[s]}) = Cardinality(s) - 1
  BY <1>1, FS_RemoveElement
<1>3. 0 \in T
  <2>1. Small(0) = {{}}
    BY <1>1
  <2>2. [s \in Small(0) |-> b] \in [Small(0) -> X] /\ Good(0, [s \in Small(0) |-> b])
    BY <2>1
  <2>. QED
    BY <2>2
<1>4. ASSUME NEW n \in Nat, n \in T PROVE n + 1 \in T
  <2>1. PICK g \in [Small(n) -> X] : Good(n, g)
    BY <1>4
  <2>. DEFINE h == [s \in Small(n + 1) |->
                      IF s = {} THEN b ELSE F[<<g[s \ {c[s]}], c[s]>>]]
  <2>2. \A s \in Small(n + 1) : s # {} => s \ {c[s]} \in Small(n) /\ c[s] \in S
    BY <1>1, <1>2
  <2>3. \A s \in Small(n + 1) : h[s] \in X
    BY <2>2
  <2>4. ASSUME NEW s \in Small(n) PROVE s \in Small(n + 1) /\ h[s] = g[s]
    <3>1. s \in Small(n + 1)
      BY <1>1
    <3>2. g[s] = IF s = {} THEN b ELSE F[<<g[s \ {c[s]}], c[s]>>]
      BY <2>1
    <3>. QED
      BY <3>1, <3>2
  <2>5. Good(n + 1, h)
    BY <2>2, <2>4
  <2>6. h \in [Small(n + 1) -> X]
    BY <2>3
  <2>. HIDE DEF Small, Good, h
  <2>7. \E g1 \in [Small(n + 1) -> X] : Good(n + 1, g1)
    BY <2>5, <2>6
  <2>. QED
    BY <2>7
<1>5. \A n \in Nat : n \in T
  BY <1>3, <1>4, SetInduction
<1>6. Cardinality(S) \in Nat /\ Small(Cardinality(S)) = SUBSET S
  BY <1>1
<1>7. PICK g \in [Small(Cardinality(S)) -> X] : Good(Cardinality(S), g)
  <2>. HIDE DEF Small, Good
  <2>. QED
    BY <1>5, <1>6
<1>8. g \in [SUBSET S -> X] /\ g[{}] = b
  BY <1>6, <1>7
<1>9. \A s \in (SUBSET S) \ {{}} : g[s] = F[<<g[s \ {c[s]}], c[s]>>]
  BY <1>6, <1>7
<1>. QED
  BY <1>8, <1>9 DEF HasFold

\* FoldLeft takes the elements of a sequence out of the set of its indices,
\* from the greatest down.
HasFoldLeft(X, b, F, s) ==
  \E g \in [SUBSET DOMAIN s -> X] :
    /\ g[{}] = b
    /\ \A d \in (SUBSET DOMAIN s) \ {{}} : g[d] = F[<<g[d \ {Max(d)}], s[Max(d)]>>]

\* That recursion has a solution, too.
LEMMA FoldLeftExists ==
  ASSUME NEW X, NEW V, NEW b \in X, NEW F \in [X \X V -> X], NEW s \in Seq(V)
  PROVE  HasFoldLeft(X, b, F, s)
<1>. DEFINE D == 1..Len(s)
<1>1. Len(s) \in Nat /\ DOMAIN s = D /\ IsFiniteSet(D)
  BY FS_Interval
<1>2. PICK G \in [X \X D -> X] : \A x \in X, i \in D : G[<<x, i>>] = F[<<x, s[i]>>]
  <2>. DEFINE G == [x \in X \X D |-> F[<<x[1], s[x[2]]>>]]
  <2>1. G \in [X \X D -> X] /\ \A x \in X, i \in D : G[<<x, i>>] = F[<<x, s[i]>>]
    BY <1>1
  <2>. HIDE DEF G
  <2>. QED
    BY <2>1
<1>3. \A d \in (SUBSET D) \ {{}} : Max(d) \in d
  BY <1>1, MaxOfSubset
<1>4. PICK c \in [(SUBSET D) \ {{}} -> D] : \A d \in (SUBSET D) \ {{}} : c[d] = Max(d)
  <2>. DEFINE c == [d \in (SUBSET D) \ {{}} |-> Max(d)]
  <2>1. /\ c \in [(SUBSET D) \ {{}} -> D]
        /\ \A d \in (SUBSET D) \ {{}} : c[d] = Max(d)
    BY <1>3
  <2>. HIDE DEF c
  <2>. QED
    BY <2>1
<1>5. PICK g \in [SUBSET D -> X] :
              /\ g[{}] = b
              /\ \A d \in (SUBSET D) \ {{}} : g[d] = G[<<g[d \ {c[d]}], c[d]>>]
  <2>1. \A d \in (SUBSET D) \ {{}} : c[d] \in d
    BY <1>3, <1>4
  <2>2. HasFold(D, X, b, G, c)
    <3>. HIDE DEF D
    <3>. QED
      BY <1>1, <2>1, FoldExists
  <2>. QED
    BY <2>2 DEF HasFold
<1>6. ASSUME NEW d \in SUBSET D, d # {}
      PROVE  g[d] = F[<<g[d \ {Max(d)}], s[Max(d)]>>]
  <2>1. Max(d) \in D /\ d \ {Max(d)} \in SUBSET D /\ c[d] = Max(d)
    BY <1>3, <1>4, <1>6
  <2>2. g[d] = G[<<g[d \ {Max(d)}], Max(d)>>] /\ g[d \ {Max(d)}] \in X
    BY <1>5, <1>6, <2>1
  <2>. QED
    BY <1>2, <2>1, <2>2
<1>. QED
  BY <1>1, <1>5, <1>6 DEF HasFoldLeft

\* The greatest element of an interval, and what is left without it.
LEMMA MaxOfInterval ==
  ASSUME NEW n \in Nat, NEW i \in 1..n
  PROVE  /\ 1..i \in SUBSET (1..n) /\ 1..i # {}
         /\ Max(1..i) = i
         /\ (1..i) \ {i} = 1..(i - 1)
<1>1. i \in Nat /\ i \in 1..i /\ 1..i \in SUBSET (1..n) /\ 1..i \in SUBSET (1..i)
  OBVIOUS
<1>2. Max(1..i) \in 1..i /\ i <= Max(1..i)
  BY <1>1, MaxOfSubset
<1>. QED
  BY <1>1, <1>2

\* Stepping through s from left to right, from b, leads to r.
RunsTo(X, b, F, s, r) ==
  \E h \in [0..Len(s) -> X] :
    /\ h[0] = b
    /\ \A i \in 1..Len(s) : h[i] = F[<<h[i - 1], s[i]>>]
    /\ r = h[Len(s)]

\* Whatever solves that recursion runs through the sequence from left to right.
LEMMA FoldLeftRuns ==
  ASSUME NEW X, NEW V, NEW b \in X, NEW F \in [X \X V -> X], NEW s \in Seq(V), NEW g,
         g[{}] = b,
         \A d \in SUBSET DOMAIN s :
           d # {} /\ g[d \ {Max(d)}] \in X => g[d] = F[<<g[d \ {Max(d)}], s[Max(d)]>>]
  PROVE  RunsTo(X, b, F, s, g[DOMAIN s])
<1>1. Len(s) \in Nat /\ DOMAIN s = 1..Len(s) /\ \A i \in 1..Len(s) : s[i] \in V
  OBVIOUS
<1>2. g[1..0] = b
  <2>1. 1..0 = {}
    OBVIOUS
  <2>. QED
    BY <2>1
<1>3. ASSUME NEW i \in 1..Len(s), g[1..(i - 1)] \in X
      PROVE  g[1..i] = F[<<g[1..(i - 1)], s[i]>>] /\ g[1..i] \in X
  <2>1. /\ 1..i \in SUBSET DOMAIN s /\ 1..i # {}
        /\ Max(1..i) = i /\ (1..i) \ {i} = 1..(i - 1)
    BY <1>1, MaxOfInterval
  <2>2. g[1..i] = F[<<g[1..(i - 1)], s[i]>>]
    BY <1>3, <2>1
  <2>. QED
    BY <1>1, <1>3, <2>2
<1>. DEFINE T == {n \in Nat : n <= Len(s) => g[1..n] \in X}
<1>4. 0 \in T
  BY <1>2
<1>5. ASSUME NEW n \in Nat, n \in T PROVE n + 1 \in T
  <2>1. CASE n + 1 <= Len(s)
    <3>1. n + 1 \in 1..Len(s) /\ (n + 1) - 1 = n /\ g[1..n] \in X
      BY <1>1, <1>5, <2>1
    <3>2. g[1..(n + 1)] \in X
      BY <1>3, <3>1
    <3>. QED
      BY <3>2
  <2>. QED
    BY <2>1, <1>1
<1>6. \A n \in Nat : n \in T
  <2>. HIDE DEF T
  <2>. QED
    BY <1>4, <1>5, SetInduction
<1>7. \A i \in 0..Len(s) : g[1..i] \in X
  BY <1>1, <1>6
<1>. DEFINE h == [i \in 0..Len(s) |-> g[1..i]]
<1>8. h \in [0..Len(s) -> X]
  BY <1>7
<1>9. \A i \in 1..Len(s) : g[1..i] = F[<<g[1..(i - 1)], s[i]>>]
  <2>1. \A i \in 1..Len(s) : i - 1 \in 0..Len(s)
    BY <1>1
  <2>. QED
    BY <1>3, <1>7, <2>1
<1>10. \A i \in 1..Len(s) : h[i] = F[<<h[i - 1], s[i]>>]
  <2>1. \A i \in 1..Len(s) : i \in 0..Len(s) /\ i - 1 \in 0..Len(s)
    BY <1>1
  <2>. QED
    BY <1>9, <2>1
<1>11. h[0] = b /\ g[DOMAIN s] = h[Len(s)]
  BY <1>1, <1>2
<1>. QED
  BY <1>8, <1>10, <1>11 DEF RunsTo

-----------------------------------------------------------------------------
(* Insertion into a sequence.                                              *)

\* t is s with x inserted before its element i.
IsInsertion(S, s, i, x, t) ==
  /\ t \in Seq(S) /\ Len(t) = Len(s) + 1
  /\ \A j \in 1..(Len(s) + 1) :
       t[j] = IF j < i THEN s[j] ELSE IF j = i THEN x ELSE s[j - 1]

\* Inserting an element moves those behind it.
LEMMA Inserted ==
  ASSUME NEW S, NEW s \in Seq(S), NEW i \in 1..(Len(s) + 1), NEW x \in S
  PROVE  IsInsertion(S, s, i, x, InsertAt(s, i, x))
<1>. DEFINE v == SubSeq(s, 1, i - 1)
            w == SubSeq(s, i, Len(s))
            one == <<x>>
            u == one \o w
<1>1. Len(s) \in Nat /\ i \in Nat
  OBVIOUS
<1>2. v \in Seq(S) /\ Len(v) = i - 1 /\ \A j \in 1..(i - 1) : v[j] = s[j]
  <2>1. /\ 1 \in 1..(Len(s) + 1) /\ i - 1 \in 0..Len(s)
    BY <1>1
  <2>. QED
    BY <1>1, <2>1, SubSeqProperties
<1>3. w \in Seq(S) /\ Len(w) = Len(s) - i + 1
      /\ \A j \in 1..(Len(s) - i + 1) : w[j] = s[i + j - 1]
  <2>1. Len(s) \in 0..Len(s)
    BY <1>1
  <2>. QED
    BY <1>1, <2>1, SubSeqProperties
<1>. HIDE DEF v, w
<1>4. /\ u \in Seq(S) /\ Len(u) = Len(s) - i + 2 /\ u[1] = x
      /\ \A j \in 1..(Len(s) - i + 1) : u[j + 1] = w[j]
  <2>1. one \in Seq(S) /\ Len(one) = 1 /\ one[1] = x
    OBVIOUS
  <2>. HIDE DEF one
  <2>2. /\ u \in Seq(S) /\ Len(u) = Len(one) + Len(w)
        /\ \A j \in 1..(Len(one) + Len(w)) :
             u[j] = IF j <= Len(one) THEN one[j] ELSE w[j - Len(one)]
    BY <2>1, <1>3, ConcatProperties
  <2>3. ASSUME NEW j \in 1..(Len(s) - i + 1) PROVE u[j + 1] = w[j]
    <3>1. j + 1 \in 1..(Len(one) + Len(w)) /\ ~(j + 1 <= Len(one)) /\ (j + 1) - Len(one) = j
      BY <1>1, <1>3, <2>1
    <3>. QED
      BY <2>2, <3>1
  <2>. HIDE DEF u
  <2>. QED
    BY <1>1, <1>3, <2>1, <2>2, <2>3
<1>5. InsertAt(s, i, x) = v \o u
  <2>1. InsertAt(s, i, x) = v \o one \o w
    BY DEF InsertAt, v, w
  <2>2. one \in Seq(S)
    OBVIOUS
  <2>. HIDE DEF one
  <2>. QED
    BY <1>2, <1>3, <2>1, <2>2, ConcatAssociative
<1>. HIDE DEF u
<1>6. /\ v \o u \in Seq(S) /\ Len(v \o u) = Len(s) + 1
      /\ \A j \in 1..(Len(s) + 1) : (v \o u)[j] = IF j <= i - 1 THEN v[j] ELSE u[j - (i - 1)]
  BY <1>1, <1>2, <1>4, ConcatProperties
<1>7. \A j \in 1..(Len(s) + 1) : j > i => u[j - (i - 1)] = s[j - 1]
  <2>1. ASSUME NEW j \in 1..(Len(s) + 1), j > i PROVE u[j - (i - 1)] = s[j - 1]
    <3>1. j - i \in 1..(Len(s) - i + 1) /\ (j - i) + 1 = j - (i - 1) /\ i + (j - i) - 1 = j - 1
      BY <1>1, <2>1
    <3>. QED
      BY <1>3, <1>4, <3>1
  <2>. QED
    BY <2>1
<1>8. ASSUME NEW j \in 1..(Len(s) + 1)
      PROVE  (v \o u)[j] = IF j < i THEN s[j] ELSE IF j = i THEN x ELSE s[j - 1]
  <2>1. j \in Nat /\ i \in Nat
    OBVIOUS
  <2>2. j < i => (v \o u)[j] = s[j]
    BY <1>2, <1>6, <2>1
  <2>3. j = i => (v \o u)[j] = x
    BY <1>4, <1>6, <2>1
  <2>4. j > i => (v \o u)[j] = s[j - 1]
    BY <1>6, <1>7, <2>1
  <2>. DEFINE y == (v \o u)[j]
  <2>5. y = IF j < i THEN s[j] ELSE IF j = i THEN x ELSE s[j - 1]
    <3>1. (j < i => y = s[j]) /\ (j = i => y = x) /\ (j > i => y = s[j - 1])
      BY <2>2, <2>3, <2>4
    <3>. HIDE DEF y
    <3>. QED
      BY <2>1, <3>1
  <2>. QED
    BY <2>5
<1>. QED
  BY <1>5, <1>6, <1>8 DEF IsInsertion

-----------------------------------------------------------------------------
(* Sums over finite sets.                                                  *)

\* Induction over the subsets of a finite set, for the set of those with a
\* property.
LEMMA SubsetInduction ==
  ASSUME NEW S, IsFiniteSet(S), NEW B, {} \in B,
         \A s \in SUBSET S : s # {} /\ (\A x \in s : s \ {x} \in B) => s \in B
  PROVE  \A s \in SUBSET S : s \in B
<1>1. \A s \in SUBSET S : IsFiniteSet(s) /\ Cardinality(s) \in Nat
  BY FS_Subset, FS_CardinalityType
<1>2. \A s \in SUBSET S : Cardinality(s) = 0 => s = {}
  BY <1>1, FS_EmptySet
<1>3. \A s \in SUBSET S : \A x \in s :
        s \ {x} \in SUBSET S /\ Cardinality(s \ {x}) = Cardinality(s) - 1
  BY <1>1, FS_RemoveElement
<1>. DEFINE T == {n \in Nat : \A s \in SUBSET S : Cardinality(s) = n => s \in B}
<1>4. 0 \in T
  BY <1>2
<1>5. ASSUME NEW n \in Nat, n \in T PROVE n + 1 \in T
  <2>1. ASSUME NEW s \in SUBSET S, Cardinality(s) = n + 1 PROVE s \in B
    <3>1. s # {}
      BY <2>1, FS_EmptySet
    <3>2. \A x \in s : s \ {x} \in B
      BY <1>3, <1>5, <2>1
    <3>. QED
      BY <3>1, <3>2
  <2>. QED
    BY <2>1
<1>6. \A n \in Nat : n \in T
  <2>. HIDE DEF T
  <2>. QED
    BY <1>4, <1>5, SetInduction
<1>. QED
  BY <1>1, <1>6

\* g adds up the numbers w over the subsets of S, in the order of CHOOSE.
SumsUp(S, w, g) ==
  /\ g[{}] = 0
  /\ \A s \in SUBSET S :
       s # {} => g[s] = w[CHOOSE x \in s : TRUE] + g[s \ {CHOOSE x \in s : TRUE}]

\* Some g does.
HasSums(S, w) == \E g \in [SUBSET S -> Nat] : SumsUp(S, w, g)

\* Every finite set of numbers can be added up.
LEMMA SumsExist ==
  ASSUME NEW S, IsFiniteSet(S), NEW w, \A x \in S : w[x] \in Nat
  PROVE  HasSums(S, w)
<1>1. PICK F \in [Nat \X S -> Nat] : \A n \in Nat, x \in S : F[<<n, x>>] = w[x] + n
  <2>. DEFINE F == [z \in Nat \X S |-> w[z[2]] + z[1]]
  <2>1. F \in [Nat \X S -> Nat] /\ \A n \in Nat, x \in S : F[<<n, x>>] = w[x] + n
    OBVIOUS
  <2>. HIDE DEF F
  <2>. QED
    BY <2>1
<1>2. PICK c \in [(SUBSET S) \ {{}} -> S] : \A s \in (SUBSET S) \ {{}} : c[s] = CHOOSE x \in s : TRUE
  <2>. DEFINE c == [s \in (SUBSET S) \ {{}} |-> CHOOSE x \in s : TRUE]
  <2>1. c \in [(SUBSET S) \ {{}} -> S] /\ \A s \in (SUBSET S) \ {{}} : c[s] = CHOOSE x \in s : TRUE
    OBVIOUS
  <2>. HIDE DEF c
  <2>. QED
    BY <2>1
<1>3. \A s \in (SUBSET S) \ {{}} : c[s] \in s
  BY <1>2
<1>4. HasFold(S, Nat, 0, F, c)
  BY <1>3, FoldExists
<1>5. PICK g \in [SUBSET S -> Nat] :
           /\ g[{}] = 0
           /\ \A s \in (SUBSET S) \ {{}} : g[s] = F[<<g[s \ {c[s]}], c[s]>>]
  BY <1>4 DEF HasFold
<1>6. ASSUME NEW s \in SUBSET S, s # {}
      PROVE  g[s] = w[CHOOSE x \in s : TRUE] + g[s \ {CHOOSE x \in s : TRUE}]
  <2>1. c[s] \in S /\ s \ {c[s]} \in SUBSET S /\ g[s \ {c[s]}] \in Nat
    BY <1>3, <1>6
  <2>2. g[s] = w[c[s]] + g[s \ {c[s]}]
    BY <1>1, <1>5, <1>6, <2>1
  <2>. QED
    BY <1>2, <1>6, <2>2
<1>. QED
  BY <1>5, <1>6 DEF HasSums, SumsUp

\* w lists numbers on S.
Numbers(S, w) == \A x \in S : w[x] \in Nat

\* g adds up the numbers w over the subsets of S, in any order.
AddsUp(S, w, g) ==
  \A s \in SUBSET S : g[s] \in Nat /\ \A x \in s : g[s] = w[x] + g[s \ {x}]

\* A sum is a number, and does not depend on which element is added first.
LEMMA SumOfAny ==
  ASSUME NEW S, IsFiniteSet(S), NEW w, Numbers(S, w), NEW g, SumsUp(S, w, g)
  PROVE  AddsUp(S, w, g)
<1>. USE DEF Numbers
<1>. DEFINE Good(s) == /\ g[s] \in Nat
                       /\ \A x \in s : g[s \ {x}] \in Nat /\ g[s] = w[x] + g[s \ {x}]
            B == {s \in SUBSET S : Good(s)}
<1>1. {} \in B
  BY DEF SumsUp
<1>2. ASSUME NEW s \in SUBSET S, s # {}, \A x \in s : s \ {x} \in B PROVE s \in B
  <2>. DEFINE c == CHOOSE x \in s : TRUE
  <2>1. c \in s /\ w[c] \in Nat
    BY <1>2
  <2>2. g[s] = w[c] + g[s \ {c}]
    BY <1>2 DEF SumsUp
  <2>. HIDE DEF c
  <2>3. \A x \in s : Good(s \ {x})
    BY <1>2
  <2>4. g[s] \in Nat
    <3>1. Good(s \ {c})
      BY <2>1, <2>3
    <3>2. g[s \ {c}] \in Nat
      BY <3>1
    <3>. QED
      BY <2>1, <2>2, <3>2
  <2>5. ASSUME NEW x \in s PROVE g[s] = w[x] + g[s \ {x}]
    <3>1. CASE x # c
      <4>. DEFINE n == g[(s \ {c}) \ {x}]
      <4>1. x \in s \ {c} /\ c \in s \ {x} /\ (s \ {x}) \ {c} = (s \ {c}) \ {x}
        BY <2>1, <3>1
      <4>2. g[s \ {c}] = w[x] + n /\ n \in Nat
        BY <2>1, <2>3, <4>1
      <4>3. g[s \ {x}] = w[c] + g[(s \ {x}) \ {c}]
        BY <2>3, <4>1
      <4>4. g[s \ {x}] = w[c] + n
        BY <4>1, <4>3
      <4>5. w[x] \in Nat
        OBVIOUS
      <4>. HIDE DEF n
      <4>. QED
        BY <2>1, <2>2, <4>2, <4>4, <4>5
    <3>. QED
      BY <2>2, <3>1
  <2>6. Good(s)
    BY <2>3, <2>4, <2>5
  <2>. QED
    BY <2>6
<1>. HIDE DEF B
<1>3. \A s \in SUBSET S : s \in B
  BY <1>1, <1>2, SubsetInduction
<1>. QED
  BY <1>3 DEF B, AddsUp

\* Equal numbers have equal sums.
LEMMA SumsAgree ==
  ASSUME NEW S, NEW w, NEW g, SumsUp(S, w, g), NEW T, NEW v, NEW h, SumsUp(T, v, h),
         NEW U, IsFiniteSet(U), U \subseteq S, U \subseteq T, \A x \in U : w[x] = v[x]
  PROVE  g[U] = h[U]
<1>. DEFINE B == {s \in SUBSET U : g[s] = h[s]}
<1>1. {} \in B
  BY DEF SumsUp
<1>2. ASSUME NEW s \in SUBSET U, s # {}, \A x \in s : s \ {x} \in B PROVE s \in B
  <2>. DEFINE c == CHOOSE x \in s : TRUE
  <2>1. c \in s
    BY <1>2
  <2>2. s \in SUBSET S /\ s \in SUBSET T
    OBVIOUS
  <2>3. g[s] = w[c] + g[s \ {c}] /\ h[s] = v[c] + h[s \ {c}]
    BY <1>2, <2>2 DEF SumsUp
  <2>. HIDE DEF c
  <2>4. g[s \ {c}] = h[s \ {c}] /\ w[c] = v[c]
    BY <1>2, <2>1
  <2>. QED
    BY <2>3, <2>4
<1>. HIDE DEF B
<1>3. \A s \in SUBSET U : s \in B
  BY <1>1, <1>2, SubsetInduction
<1>. QED
  BY <1>3 DEF B

\* Zeros add up to zero.
LEMMA SumOfZeros ==
  ASSUME NEW S, NEW w, NEW g, SumsUp(S, w, g),
         NEW U, IsFiniteSet(U), U \subseteq S, \A x \in U : w[x] = 0
  PROVE  g[U] = 0
<1>. DEFINE B == {s \in SUBSET U : g[s] = 0}
<1>1. {} \in B
  BY DEF SumsUp
<1>2. ASSUME NEW s \in SUBSET U, s # {}, \A x \in s : s \ {x} \in B PROVE s \in B
  <2>. DEFINE c == CHOOSE x \in s : TRUE
  <2>1. c \in s
    BY <1>2
  <2>2. g[s] = w[c] + g[s \ {c}]
    BY <1>2 DEF SumsUp
  <2>. HIDE DEF c
  <2>3. g[s \ {c}] = 0 /\ w[c] = 0
    BY <1>2, <2>1
  <2>. QED
    BY <2>2, <2>3
<1>. HIDE DEF B
<1>3. \A s \in SUBSET U : s \in B
  BY <1>1, <1>2, SubsetInduction
<1>. QED
  BY <1>3 DEF B

-----------------------------------------------------------------------------
(* Dropping elements of a sequence.                                        *)

\* r is what remains of the first n elements of s without those of the pid p: m
\* says where each element comes from.
KeptUpTo(S, s, n, p, r) ==
  /\ r \in Seq(S)
  /\ \E m \in [1..Len(r) -> 1..n] :
       /\ \A i \in 1..Len(r) : r[i] = s[m[i]] /\ r[i].pid # p /\ i <= m[i]
       /\ \A i, j \in 1..Len(r) : i < j => m[i] < m[j]
       /\ \A j \in 1..n : s[j].pid # p => \E i \in 1..Len(r) : m[i] = j

Kept(S, s, p, r) == KeptUpTo(S, s, Len(s), p, r)

\* The elements that are not of the pid p, as the loops over a queue collect them.
Others(s, p) == FoldLeft(LAMBDA kept, it : IF it.pid = p THEN kept ELSE Append(kept, it), <<>>, s)

\* One turn of such a loop.
LEMMA KeepOne ==
  ASSUME NEW S, NEW s \in Seq(S), NEW n \in Nat, n < Len(s), NEW p, NEW r, KeptUpTo(S, s, n, p, r)
  PROVE  KeptUpTo(S, s, n + 1, p, IF s[n + 1].pid = p THEN r ELSE Append(r, s[n + 1]))
<1>1. /\ r \in Seq(S) /\ Len(r) \in Nat /\ Len(s) \in Nat /\ n + 1 \in 1..Len(s)
      /\ s[n + 1] \in S
  BY DEF KeptUpTo
<1>2. PICK m \in [1..Len(r) -> 1..n] :
            /\ \A i \in 1..Len(r) : r[i] = s[m[i]] /\ r[i].pid # p /\ i <= m[i]
            /\ \A i, j \in 1..Len(r) : i < j => m[i] < m[j]
            /\ \A j \in 1..n : s[j].pid # p => \E i \in 1..Len(r) : m[i] = j
  BY DEF KeptUpTo
<1>3. CASE s[n + 1].pid = p
  <2>1. m \in [1..Len(r) -> 1..(n + 1)]
    BY <1>2
  <2>2. \A j \in 1..(n + 1) : s[j].pid # p => j \in 1..n
    BY <1>3
  <2>3. KeptUpTo(S, s, n + 1, p, r)
    BY <1>1, <1>2, <2>1, <2>2, ZenonT(40) DEF KeptUpTo
  <2>. QED
    BY <1>3, <2>3
<1>4. CASE s[n + 1].pid # p
  <2>. DEFINE e == s[n + 1]
              t == Append(r, e)
              k == [i \in 1..(Len(r) + 1) |-> IF i = Len(r) + 1 THEN n + 1 ELSE m[i]]
  <2>1. /\ t \in Seq(S) /\ Len(t) = Len(r) + 1
        /\ \A i \in 1..Len(r) : t[i] = r[i]
        /\ t[Len(r) + 1] = e
    BY <1>1
  <2>2. Len(r) <= n
    <3>1. CASE Len(r) = 0
      BY <3>1
    <3>2. CASE Len(r) # 0
      <4>1. Len(r) \in 1..Len(r)
        BY <1>1, <3>2
      <4>2. Len(r) <= m[Len(r)] /\ m[Len(r)] \in 1..n
        BY <1>2, <4>1
      <4>. QED
        BY <1>1, <4>2
    <3>. QED
      BY <3>1, <3>2
  <2>3. /\ k \in [1..(Len(r) + 1) -> 1..(n + 1)]
        /\ k[Len(r) + 1] = n + 1
        /\ \A i \in 1..Len(r) : k[i] = m[i]
    BY <1>1, <1>2
  <2>4. \A i \in 1..(Len(r) + 1) : i \in 1..Len(r) \/ i = Len(r) + 1
    BY <1>1
  <2>. HIDE DEF t, k
  <2>5. ASSUME NEW i \in 1..(Len(r) + 1)
        PROVE  t[i] = s[k[i]] /\ t[i].pid # p /\ i <= k[i]
    <3>1. CASE i \in 1..Len(r)
      BY <1>2, <2>1, <2>3, <3>1
    <3>2. CASE i = Len(r) + 1
      BY <1>1, <1>4, <2>1, <2>2, <2>3, <3>2
    <3>. QED
      BY <2>4, <3>1, <3>2
  <2>6. \A i, j \in 1..(Len(r) + 1) : i < j => k[i] < k[j]
    <3>1. \A i \in 1..Len(r) : m[i] < n + 1
      BY <1>2
    <3>. QED
      BY <1>1, <1>2, <2>3, <2>4, <3>1
  <2>7. \A j \in 1..(n + 1) : s[j].pid # p => \E i \in 1..(Len(r) + 1) : k[i] = j
    <3>1. ASSUME NEW j \in 1..(n + 1), s[j].pid # p
          PROVE  \E i \in 1..(Len(r) + 1) : k[i] = j
      <4>1. CASE j = n + 1
        <5>1. Len(r) + 1 \in 1..(Len(r) + 1)
          BY <1>1
        <5>. QED
          BY <2>3, <4>1, <5>1
      <4>2. CASE j \in 1..n
        <5>1. PICK i \in 1..Len(r) : m[i] = j
          BY <1>2, <3>1, <4>2
        <5>2. i \in 1..(Len(r) + 1)
          BY <1>1
        <5>. QED
          BY <2>3, <5>1, <5>2
      <4>. QED
        BY <4>1, <4>2
    <3>. QED
      BY <3>1
  <2>8. \E l \in [1..Len(t) -> 1..(n + 1)] :
          /\ \A i \in 1..Len(t) : t[i] = s[l[i]] /\ t[i].pid # p /\ i <= l[i]
          /\ \A i, j \in 1..Len(t) : i < j => l[i] < l[j]
          /\ \A j \in 1..(n + 1) : s[j].pid # p => \E i \in 1..Len(t) : l[i] = j
    <3>1. PICK c : c = Len(t)
      OBVIOUS
    <3>2. c = Len(r) + 1
      BY <2>1, <3>1
    <3>3. /\ k \in [1..c -> 1..(n + 1)]
          /\ \A i \in 1..c : t[i] = s[k[i]] /\ t[i].pid # p /\ i <= k[i]
          /\ \A i, j \in 1..c : i < j => k[i] < k[j]
          /\ \A j \in 1..(n + 1) : s[j].pid # p => \E i \in 1..c : k[i] = j
      BY <2>3, <2>5, <2>6, <2>7, <3>2
    <3>. QED
      BY <3>1, <3>3
  <2>9. KeptUpTo(S, s, n + 1, p, t)
    BY <2>1, <2>8 DEF KeptUpTo
  <2>. QED
    BY <1>4, <2>9 DEF t
<1>. QED
  BY <1>3, <1>4

\* What is dropped and what remains, of a whole sequence.
LEMMA OthersKept ==
  ASSUME NEW S, NEW s \in Seq(S), NEW p
  PROVE  Kept(S, s, p, Others(s, p))
<1>. DEFINE X == Seq(S)
            D == SUBSET DOMAIN s
            Keep(kept, it) == IF it.pid = p THEN kept ELSE Append(kept, it)
            P(g) == g = [d \in D |-> IF d = {} THEN <<>> ELSE Keep(g[d \ {Max(d)}], s[Max(d)])]
            iter == CHOOSE g : P(g)
<1>1. PICK F \in [X \X S -> X] : \A x \in X, e \in S : F[<<x, e>>] = Keep(x, e)
  <2>. DEFINE F == [z \in X \X S |-> Keep(z[1], z[2])]
  <2>1. F \in [X \X S -> X] /\ \A x \in X, e \in S : F[<<x, e>>] = Keep(x, e)
    OBVIOUS
  <2>. HIDE DEF F
  <2>. QED
    BY <2>1
<1>2. <<>> \in X /\ Len(s) \in Nat /\ DOMAIN s = 1..Len(s)
  OBVIOUS
<1>3. \A d \in D \ {{}} : Max(d) \in DOMAIN s /\ s[Max(d)] \in S /\ d \ {Max(d)} \in D
  <2>1. ASSUME NEW d \in D \ {{}}
        PROVE  Max(d) \in DOMAIN s /\ s[Max(d)] \in S /\ d \ {Max(d)} \in D
    <3>1. Max(d) \in d
      BY <1>2, MaxOfSubset
    <3>2. Max(d) \in 1..Len(s)
      BY <1>2, <3>1
    <3>. HIDE DEF Max
    <3>. QED
      BY <1>2, <3>2
  <2>. HIDE DEF D
  <2>. QED
    BY <2>1
<1>4. \E g : P(g)
  <2>1. HasFoldLeft(X, <<>>, F, s)
    <3>. HIDE DEF X
    <3>. QED
      BY <1>2, FoldLeftExists
  <2>2. PICK g \in [D -> X] : /\ g[{}] = <<>>
           /\ \A d \in D \ {{}} : g[d] = F[<<g[d \ {Max(d)}], s[Max(d)]>>]
    BY <2>1 DEF HasFoldLeft
  <2>3. \A d \in D \ {{}} : g[d] = Keep(g[d \ {Max(d)}], s[Max(d)])
    <3>. HIDE DEF X, D, Keep
    <3>. QED
      BY <1>1, <1>3, <2>2
  <2>. QED
    <3>. HIDE DEF X, Keep
    <3>. QED
      BY <2>2, <2>3
<1>5. P(iter)
  <2>. HIDE DEF P
  <2>. QED
    BY <1>4
<1>6. Others(s, p) = iter[DOMAIN s]
  BY DEF Others, FoldLeft, MapThenFoldSet
<1>7. /\ iter[{}] = <<>>
      /\ \A d \in D \ {{}} : iter[d] = Keep(iter[d \ {Max(d)}], s[Max(d)])
  <2>. HIDE DEF iter
  <2>. QED
    BY <1>5
<1>8. RunsTo(X, <<>>, F, s, iter[DOMAIN s])
  <2>1. \A d \in SUBSET DOMAIN s : d # {} /\ iter[d \ {Max(d)}] \in X =>
          iter[d] = F[<<iter[d \ {Max(d)}], s[Max(d)]>>]
    <3>. HIDE DEF X, iter, Keep
    <3>. QED
      BY <1>1, <1>3, <1>7
  <2>. HIDE DEF X, iter
  <2>. QED
    BY <1>2, <1>7, <2>1, FoldLeftRuns
<1>. HIDE DEF X, D, iter
<1>9. PICK h \in [0..Len(s) -> X] :
            /\ h[0] = <<>>
            /\ \A i \in 1..Len(s) : h[i] = F[<<h[i - 1], s[i]>>]
            /\ iter[DOMAIN s] = h[Len(s)]
  BY <1>8 DEF RunsTo
<1>10. \A i \in 1..Len(s) : h[i] = IF s[i].pid = p THEN h[i - 1] ELSE Append(h[i - 1], s[i])
  <2>1. \A i \in 1..Len(s) : i - 1 \in 0..Len(s) /\ s[i] \in S
    BY <1>2
  <2>. QED
    BY <1>1, <1>9, <2>1
<1>. DEFINE T == {n \in Nat : n <= Len(s) => KeptUpTo(S, s, n, p, h[n])}
<1>11. 0 \in T
  <2>. DEFINE m == [i \in 1..0 |-> i]
  <2>1. /\ <<>> \in Seq(S) /\ Len(<<>>) = 0
        /\ m \in [1..0 -> 1..0] /\ \A i \in 1..0 : FALSE
    OBVIOUS
  <2>. HIDE DEF m
  <2>2. KeptUpTo(S, s, 0, p, <<>>)
    BY <2>1 DEF KeptUpTo
  <2>. QED
    BY <1>9, <2>2
<1>12. ASSUME NEW n \in Nat, n \in T PROVE n + 1 \in T
  <2>1. SUFFICES ASSUME n + 1 <= Len(s) PROVE KeptUpTo(S, s, n + 1, p, h[n + 1])
    OBVIOUS
  <2>2. n < Len(s) /\ n + 1 \in 1..Len(s) /\ (n + 1) - 1 = n
    BY <1>2, <2>1
  <2>3. KeptUpTo(S, s, n, p, h[n])
    BY <1>2, <1>12, <2>2
  <2>4. h[n + 1] = IF s[n + 1].pid = p THEN h[n] ELSE Append(h[n], s[n + 1])
    BY <1>10, <2>2
  <2>. QED
    BY <2>2, <2>3, <2>4, KeepOne
<1>13. \A n \in Nat : n \in T
  <2>. HIDE DEF T
  <2>. QED
    BY <1>11, <1>12, SetInduction
<1>14. KeptUpTo(S, s, Len(s), p, h[Len(s)])
  BY <1>2, <1>13
<1>. QED
  BY <1>6, <1>9, <1>14 DEF Kept

-----------------------------------------------------------------------------
(* Which pids the elements of a sequence have.                             *)

\* A queue or a list with an item of p; without two items of one pid;
\* two lists without a common pid.
InSeq(s, p) == \E i \in 1..Len(s) : s[i].pid = p
DistinctSeq(s) == \A i, j \in 1..Len(s) : s[i].pid = s[j].pid => i = j
Separate(s, t) == \A p : ~(InSeq(s, p) /\ InSeq(t, p))

LEMMA EmptyFacts ==
  ASSUME NEW S
  PROVE  /\ <<>> \in Seq(S) /\ Len(<<>>) = 0
         /\ DistinctSeq(<<>>) /\ \A p : ~InSeq(<<>>, p)
<1>1. <<>> \in Seq(S) /\ Len(<<>>) = 0 /\ \A i \in 1..0 : FALSE
  OBVIOUS
<1>. QED
  BY <1>1 DEF DistinctSeq, InSeq

\* An item of another task at the end.
LEMMA AppendFacts ==
  ASSUME NEW S, NEW s \in Seq(S), NEW it \in S
  PROVE  /\ Append(s, it) \in Seq(S) /\ Len(Append(s, it)) = Len(s) + 1
         /\ \A i \in 1..Len(s) : Append(s, it)[i] = s[i]
         /\ Append(s, it)[Len(s) + 1] = it
         /\ \A p : InSeq(Append(s, it), p) <=> InSeq(s, p) \/ p = it.pid
         /\ DistinctSeq(s) /\ ~InSeq(s, it.pid) => DistinctSeq(Append(s, it))
<1>. DEFINE t == Append(s, it)
<1>1. /\ Len(s) \in Nat /\ t \in Seq(S) /\ Len(t) = Len(s) + 1
      /\ \A i \in 1..Len(s) : t[i] = s[i]
      /\ t[Len(s) + 1] = it
  OBVIOUS
<1>2. \A i \in 1..Len(t) : i \in 1..Len(s) \/ i = Len(s) + 1
  BY <1>1
<1>3. \A i \in 1..Len(s) : i \in 1..Len(t)
  BY <1>1
<1>4. Len(s) + 1 \in 1..Len(t)
  BY <1>1
<1>. HIDE DEF t
<1>5. \A p : InSeq(t, p) <=> InSeq(s, p) \/ p = it.pid
  BY <1>1, <1>2, <1>3, <1>4 DEF InSeq
<1>6. DistinctSeq(s) /\ ~InSeq(s, it.pid) => DistinctSeq(t)
  BY <1>1, <1>2 DEF InSeq, DistinctSeq
<1>. QED
  BY <1>1, <1>5, <1>6 DEF t

\* The first item is taken.
LEMMA TailFacts ==
  ASSUME NEW S, NEW s \in Seq(S), s # <<>>
  PROVE  /\ Head(s) \in S /\ Head(s) = s[1] /\ InSeq(s, Head(s).pid)
         /\ Tail(s) \in Seq(S) /\ Len(Tail(s)) = Len(s) - 1 /\ Len(s) >= 1
         /\ \A i \in 1..Len(Tail(s)) : Tail(s)[i] = s[i + 1]
         /\ \A p : InSeq(s, p) => InSeq(Tail(s), p) \/ p = Head(s).pid
         /\ \A p : InSeq(Tail(s), p) => InSeq(s, p)
         /\ DistinctSeq(s) => DistinctSeq(Tail(s)) /\ ~InSeq(Tail(s), Head(s).pid)
<1>. DEFINE t == Tail(s)
<1>1. /\ Len(s) \in Nat /\ Len(s) >= 1 /\ Head(s) = s[1] /\ Head(s) \in S
      /\ t \in Seq(S) /\ Len(t) = Len(s) - 1
      /\ \A i \in 1..Len(t) : t[i] = s[i + 1]
  BY HeadTailProperties, EmptySeq
<1>2. 1 \in 1..Len(s) /\ \A i \in 1..Len(t) : i + 1 \in 1..Len(s) /\ i + 1 # 1
  BY <1>1
<1>3. \A i \in 1..Len(s) : i = 1 \/ (i - 1 \in 1..Len(t) /\ (i - 1) + 1 = i)
  BY <1>1
<1>. HIDE DEF t
<1>5. InSeq(s, Head(s).pid) /\ \A p : InSeq(t, p) => InSeq(s, p)
  BY <1>1, <1>2 DEF InSeq
<1>6. \A p : InSeq(s, p) => InSeq(t, p) \/ p = Head(s).pid
  <2>1. ASSUME NEW p, NEW i \in 1..Len(s), s[i].pid = p, i # 1 PROVE InSeq(t, p)
    <3>1. i - 1 \in 1..Len(t) /\ t[i - 1] = s[(i - 1) + 1] /\ (i - 1) + 1 = i
      BY <1>1, <1>3, <2>1
    <3>. QED
      BY <2>1, <3>1 DEF InSeq
  <2>. QED
    BY <1>1, <2>1 DEF InSeq
<1>7. DistinctSeq(s) => DistinctSeq(t) /\ ~InSeq(t, Head(s).pid)
  <2>1. SUFFICES ASSUME DistinctSeq(s) PROVE DistinctSeq(t) /\ ~InSeq(t, Head(s).pid)
    OBVIOUS
  <2>2. ASSUME NEW i \in 1..Len(t), NEW j \in 1..Len(t), t[i].pid = t[j].pid PROVE i = j
    <3>1. i + 1 = j + 1
      BY <1>1, <1>2, <2>1, <2>2 DEF DistinctSeq
    <3>. QED
      BY <1>1, <3>1
  <2>3. ASSUME NEW i \in 1..Len(t), t[i].pid = Head(s).pid PROVE FALSE
    BY <1>1, <1>2, <2>1, <2>3 DEF DistinctSeq
  <2>. QED
    BY <2>2, <2>3 DEF DistinctSeq, InSeq
<1>. QED
  BY <1>1, <1>5, <1>6, <1>7 DEF t

\* The items of p are taken out; the others move up.
LEMMA OthersFacts ==
  ASSUME NEW S, NEW s \in Seq(S), NEW p
  PROVE  LET t == Others(s, p)
         IN /\ t \in Seq(S) /\ Len(t) <= Len(s)
            /\ \A i \in 1..Len(t) : \E j \in i..Len(s) : t[i] = s[j]
            /\ \A r : InSeq(t, r) <=> InSeq(s, r) /\ r # p
            /\ DistinctSeq(s) => DistinctSeq(t)
<1>. DEFINE t == Others(s, p)
<1>1. Kept(S, s, p, t)
  BY OthersKept
<1>. HIDE DEF t
<1>2. t \in Seq(S) /\ Len(t) \in Nat /\ Len(s) \in Nat
  BY <1>1 DEF Kept, KeptUpTo
<1>3. PICK m \in [1..Len(t) -> 1..Len(s)] :
            /\ \A i \in 1..Len(t) : t[i] = s[m[i]] /\ t[i].pid # p /\ i <= m[i]
            /\ \A i, j \in 1..Len(t) : i < j => m[i] < m[j]
            /\ \A j \in 1..Len(s) : s[j].pid # p => \E i \in 1..Len(t) : m[i] = j
  BY <1>1 DEF Kept, KeptUpTo
<1>4. Len(t) <= Len(s)
  <2>1. CASE Len(t) \in 1..Len(t)
    BY <1>2, <1>3, <2>1
  <2>2. CASE Len(t) = 0
    BY <1>2, <2>2
  <2>. QED
    BY <1>2, <2>1, <2>2
<1>5. \A i \in 1..Len(t) : m[i] \in i..Len(s) /\ t[i] = s[m[i]]
  BY <1>2, <1>3
<1>6. \A r : InSeq(t, r) => InSeq(s, r) /\ r # p
  BY <1>3 DEF InSeq
<1>7. \A r : InSeq(s, r) /\ r # p => InSeq(t, r)
  <2>1. ASSUME NEW j \in 1..Len(s), s[j].pid # p PROVE InSeq(t, s[j].pid)
    <3>1. PICK i \in 1..Len(t) : m[i] = j
      BY <1>3, <2>1
    <3>. QED
      BY <1>3, <3>1 DEF InSeq
  <2>. QED
    BY <2>1 DEF InSeq
<1>8. DistinctSeq(s) => DistinctSeq(t)
  <2>1. SUFFICES ASSUME DistinctSeq(s), NEW i \in 1..Len(t), NEW j \in 1..Len(t),
                        t[i].pid = t[j].pid
                 PROVE  i = j
    BY DEF DistinctSeq
  <2>2. m[i] = m[j]
    BY <1>3, <2>1 DEF DistinctSeq
  <2>. QED
    BY <1>2, <1>3, <2>2
<1>. QED
  BY <1>2, <1>4, <1>5, <1>6, <1>7, <1>8 DEF t

\* One list behind another.
LEMMA ConcatFacts ==
  ASSUME NEW S, NEW s \in Seq(S), NEW t \in Seq(S)
  PROVE  /\ s \o t \in Seq(S) /\ Len(s \o t) = Len(s) + Len(t)
         /\ \A i \in 1..Len(s) : (s \o t)[i] = s[i]
         /\ \A p : InSeq(s \o t, p) <=> InSeq(s, p) \/ InSeq(t, p)
         /\ DistinctSeq(s) /\ DistinctSeq(t) /\ Separate(s, t) => DistinctSeq(s \o t)
<1>. DEFINE u == s \o t
<1>1. /\ Len(s) \in Nat /\ Len(t) \in Nat /\ u \in Seq(S) /\ Len(u) = Len(s) + Len(t)
      /\ \A i \in 1..Len(u) : u[i] = IF i <= Len(s) THEN s[i] ELSE t[i - Len(s)]
  BY ConcatProperties
<1>. HIDE DEF u
<1>2. \A i \in 1..Len(s) : i \in 1..Len(u) /\ u[i] = s[i]
  BY <1>1
<1>3. \A j \in 1..Len(t) : j + Len(s) \in 1..Len(u) /\ u[j + Len(s)] = t[j]
  <2>1. ASSUME NEW j \in 1..Len(t) PROVE j + Len(s) \in 1..Len(u) /\ u[j + Len(s)] = t[j]
    <3>1. j + Len(s) \in 1..Len(u) /\ ~(j + Len(s) <= Len(s)) /\ (j + Len(s)) - Len(s) = j
      BY <1>1
    <3>. QED
      BY <1>1, <3>1
  <2>. QED
    BY <2>1
<1>4. \A i \in 1..Len(u) :
        \/ i \in 1..Len(s) /\ u[i] = s[i]
        \/ i - Len(s) \in 1..Len(t) /\ u[i] = t[i - Len(s)]
  BY <1>1
<1>5. \A p : InSeq(u, p) <=> InSeq(s, p) \/ InSeq(t, p)
  BY <1>2, <1>3, <1>4, ZenonT(40) DEF InSeq
<1>6. ASSUME DistinctSeq(s), DistinctSeq(t), Separate(s, t),
             NEW i \in 1..Len(u), NEW j \in 1..Len(u), u[i].pid = u[j].pid
      PROVE  i = j
  <2>2. CASE i \in 1..Len(s) /\ u[i] = s[i] /\ j \in 1..Len(s) /\ u[j] = s[j]
    BY <1>6, <2>2 DEF DistinctSeq
  <2>3. CASE i - Len(s) \in 1..Len(t) /\ u[i] = t[i - Len(s)] /\ j - Len(s) \in 1..Len(t)
             /\ u[j] = t[j - Len(s)]
    <3>1. i - Len(s) = j - Len(s)
      BY <1>6, <2>3 DEF DistinctSeq
    <3>. QED
      BY <1>1, <3>1
  <2>4. ASSUME NEW a \in 1..Len(s), NEW b \in 1..Len(t), s[a].pid = u[i].pid, t[b].pid = u[i].pid
        PROVE  FALSE
    BY <1>6, <2>4 DEF InSeq, Separate
  <2>. QED
    BY <1>4, <1>6, <2>2, <2>3, <2>4
<1>. QED
  BY <1>1, <1>2, <1>5, <1>6 DEF u, DistinctSeq

==============================================================================
