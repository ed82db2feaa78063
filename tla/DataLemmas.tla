----------------------------- MODULE DataLemmas -----------------------------
(***************************************************************************)
(* Facts about numbers, finite sets and recursive functions that proofs of *)
(* several components need.  The provers do not instantiate the induction  *)
(* theorems of the library, which take an operator, so induction is stated *)
(* about sets here: every nonempty set of numbers has a least element.     *)
(***************************************************************************)
EXTENDS Integers, Sequences, FiniteSets, FiniteSetsExt, SequencesExt, FiniteSetTheorems,
        WellFoundedInduction, TLAPS

\* Every nonempty set of natural numbers has a least element.
LEMMA LeastNat ==
    ASSUME NEW S \in SUBSET Nat, S # {}
    PROVE  \E x \in S : \A y \in S : x <= y
<1>1. IsWellFoundedOn(OpToRel(<, Nat), Nat)
  BY NatLessThanWellFounded
<1>2. PICK x \in S : \A y \in S : ~(<<y, x>> \in OpToRel(<, Nat))
  BY <1>1, WFMin
<1>3. \A y \in S : ~(y < x)
  BY <1>2 DEF OpToRel
<1> QED
  BY <1>3

\* Induction over the natural numbers, about a set.
LEMMA NatInd ==
    ASSUME NEW P \in SUBSET Nat, 0 \in P, \A k \in P : k + 1 \in P
    PROVE  P = Nat
<1> SUFFICES ASSUME Nat \ P # {} PROVE FALSE
  OBVIOUS
<1>1. PICK x \in Nat \ P : \A y \in Nat \ P : x <= y
  BY LeastNat
<1>2. x - 1 \in Nat /\ x - 1 \notin Nat \ P
  BY <1>1
<1> QED
  BY <1>1, <1>2

(***************************************************************************)
(* A function on D is defined by recursion: base on B, otherwise step of   *)
(* its value at pre[d], whose rank is less.  Such a function exists.       *)
(***************************************************************************)
IsRecursion(D, B, V, rank, pre, base, step) ==
    /\ rank \in [D -> Nat] /\ pre \in [D -> D] /\ base \in V /\ step \in [D \X V -> V]
    /\ \A d \in D \ B : rank[pre[d]] < rank[d]

\* A recursion over ranks has a solution.
LEMMA RecursiveFunction ==
    ASSUME NEW D, NEW B, NEW V, NEW rank, NEW pre, NEW base, NEW step,
           IsRecursion(D, B, V, rank, pre, base, step)
    PROVE  \E f \in [D -> V] : \A d \in D : f[d] = IF d \in B THEN base ELSE step[<<d, f[pre[d]]>>]
<1> USE DEF IsRecursion
<1> DEFINE Upto(m) == {d \in D : rank[d] <= m}
           Solves(f, m) == \A d \in Upto(m) : f[d] = IF d \in B THEN base ELSE step[<<d, f[pre[d]]>>]
           P == {m \in Nat : \E f \in [D -> V] : Solves(f, m)}
<1>1. 0 \in P
  <2>1. [d \in D |-> base] \in [D -> V] /\ Solves([d \in D |-> base], 0)
    OBVIOUS
  <2> QED
    BY <2>1
<1>2. ASSUME NEW m \in P PROVE m + 1 \in P
  <2>1. m \in Nat
    OBVIOUS
  <2>2. PICK f \in [D -> V] : Solves(f, m)
    OBVIOUS
  <2> DEFINE g == [d \in D |-> IF d \in B THEN base ELSE step[<<d, f[pre[d]]>>]]
  <2>3. g \in [D -> V]
    OBVIOUS
  <2>4. ASSUME NEW d \in Upto(m) PROVE g[d] = f[d]
    BY <2>2
  <2>5. ASSUME NEW d \in Upto(m + 1), d \notin B
        PROVE  g[pre[d]] = f[pre[d]]
    <3>1. pre[d] \in Upto(m)
      BY <2>1, <2>5
    <3> HIDE DEF Upto, g
    <3> QED
      BY <2>4, <3>1
  <2>6. Solves(g, m + 1)
    BY <2>5
  <2> HIDE DEF g, Solves
  <2> QED
    BY <2>1, <2>3, <2>6
<1>3. P = Nat
  <2> HIDE DEF P
  <2>1. P \in SUBSET Nat
    BY DEF P
  <2> QED
    BY <1>1, <1>2, <2>1, NatInd
\* Two solutions agree.
<1>4. ASSUME NEW f \in [D -> V], NEW g \in [D -> V], NEW m \in Nat, NEW k \in Nat, Solves(f, m), Solves(g, k)
      PROVE  \A d \in Upto(m) \cap Upto(k) : f[d] = g[d]
  <2> DEFINE Differ == {d \in Upto(m) \cap Upto(k) : f[d] # g[d]}
             Ranks == {rank[d] : d \in Differ}
  <2> SUFFICES ASSUME Differ # {} PROVE FALSE
    OBVIOUS
  <2>1. Ranks \in SUBSET Nat /\ Ranks # {}
    OBVIOUS
  <2> HIDE DEF Ranks
  <2>2. PICK r \in Ranks : \A s \in Ranks : r <= s
    BY <2>1, LeastNat
  <2>3. PICK d \in Differ : r = rank[d]
    BY <2>2 DEF Ranks
  <2>4. \A e \in Differ : rank[d] <= rank[e]
    BY <2>2, <2>3 DEF Ranks
  <2>5. d \in D \ B
    BY <1>4, <2>3
  <2>6. pre[d] \in D /\ rank[pre[d]] < rank[d] /\ rank[d] \in Nat /\ rank[pre[d]] \in Nat
    BY <2>5
  <2>7. pre[d] \in Upto(m) \cap Upto(k)
    BY <2>3, <2>6
  <2>8. pre[d] \notin Differ
    BY <2>4, <2>6
  <2>9. f[pre[d]] = g[pre[d]]
    BY <2>7, <2>8
  <2>10. f[d] = step[<<d, f[pre[d]]>>] /\ g[d] = step[<<d, g[pre[d]]>>]
    BY <1>4, <2>3, <2>5
  <2> QED
    BY <2>3, <2>9, <2>10
<1> DEFINE At(m) == CHOOSE f \in [D -> V] : Solves(f, m)
           F == [d \in D |-> At(rank[d])[d]]
<1>5. ASSUME NEW m \in Nat PROVE At(m) \in [D -> V] /\ Solves(At(m), m)
  <2>1. \E f \in [D -> V] : Solves(f, m)
    BY <1>3
  <2> HIDE DEF Solves
  <2> QED
    BY <2>1
<1> HIDE DEF At
<1>6. F \in [D -> V]
  BY <1>5
<1>7. ASSUME NEW d \in D PROVE F[d] = IF d \in B THEN base ELSE step[<<d, F[pre[d]]>>]
  <2>1. rank[d] \in Nat /\ d \in Upto(rank[d])
    OBVIOUS
  <2>2. At(rank[d])[d] = IF d \in B THEN base ELSE step[<<d, At(rank[d])[pre[d]]>>]
    BY <1>5, <2>1
  <2>3. ASSUME d \notin B PROVE At(rank[d])[pre[d]] = F[pre[d]]
    <3>1. pre[d] \in D /\ rank[pre[d]] \in Nat /\ rank[pre[d]] < rank[d]
      BY <2>3
    <3>2. pre[d] \in Upto(rank[d]) \cap Upto(rank[pre[d]])
      BY <2>1, <3>1
    <3>3. /\ At(rank[d]) \in [D -> V] /\ Solves(At(rank[d]), rank[d])
          /\ At(rank[pre[d]]) \in [D -> V] /\ Solves(At(rank[pre[d]]), rank[pre[d]])
      BY <1>5, <2>1, <3>1
    <3>4. At(rank[d])[pre[d]] = At(rank[pre[d]])[pre[d]]
      <4> HIDE DEF Solves, Upto
      <4> QED
        BY <1>4, <2>1, <3>1, <3>2, <3>3
    <3> QED
      BY <3>1, <3>4
  <2> QED
    BY <2>1, <2>2, <2>3
<1> HIDE DEF F
<1> QED
  BY <1>6, <1>7

-----------------------------------------------------------------------------
(* Least and greatest elements.                                            *)

\* Min of FiniteSetsExt is the least element of a set of natural numbers.
LEMMA MinIs ==
    ASSUME NEW S \in SUBSET Nat, S # {}
    PROVE  Min(S) \in S /\ \A y \in S : Min(S) <= y
BY LeastNat DEF Min

\* A finite set of natural numbers has a bound that it reaches.
LEMMA GreatestNat ==
    ASSUME NEW S \in SUBSET Nat, NEW b \in Nat, \A x \in S : x <= b, S # {}
    PROVE  \E x \in S : \A y \in S : y <= x
<1> DEFINE T == {b - x : x \in S}
<1>1. T \in SUBSET Nat /\ T # {}
  <2>1. ASSUME NEW x \in S PROVE b - x \in Nat
    OBVIOUS
  <2> QED
    BY <2>1
<1>2. PICK t \in T : \A u \in T : t <= u
  BY <1>1, LeastNat
<1>3. PICK x \in S : t = b - x
  BY <1>2
<1>4. \A y \in S : b - x <= b - y
  BY <1>2, <1>3
<1> QED
  BY <1>4

-----------------------------------------------------------------------------
(* Finite sets and their images.                                           *)

\* The image of a finite set under a function is finite and not larger.
LEMMA ImageFinite ==
    ASSUME NEW S, IsFiniteSet(S), NEW f
    PROVE  IsFiniteSet({f[x] : x \in S}) /\ Cardinality({f[x] : x \in S}) <= Cardinality(S)
<1> DEFINE T == {f[x] : x \in S}
           h == [x \in S |-> f[x]]
<1>1. h \in Surjection(S, T)
  BY DEF Surjection
<1> HIDE DEF h, T
<1>2. IsFiniteSet(T) /\ Cardinality(T) <= Cardinality(S)
  BY <1>1, FS_Surjection
<1> QED
  BY <1>2 DEF T

\* A function with as many values as arguments has no value twice.
LEMMA ImageInjective ==
    ASSUME NEW S, IsFiniteSet(S), NEW f, Cardinality({f[x] : x \in S}) = Cardinality(S)
    PROVE  \A x, y \in S : f[x] = f[y] => x = y
<1> DEFINE T == {f[x] : x \in S}
           h == [x \in S |-> f[x]]
<1>1. h \in Surjection(S, T)
  BY DEF Surjection
<1>2. \A x \in S : h[x] = f[x]
  OBVIOUS
<1>3. Cardinality(T) = Cardinality(S)
  OBVIOUS
<1> HIDE DEF h, T
<1>4. h \in Injection(S, T)
  BY <1>1, <1>3, FS_Surjection
<1> QED
  BY <1>2, <1>4 DEF Injection, IsInjective

\* The cardinality of a union of disjoint sets.
LEMMA DisjointUnion ==
    ASSUME NEW S, IsFiniteSet(S), NEW T, IsFiniteSet(T), S \cap T = {}
    PROVE  IsFiniteSet(S \cup T) /\ Cardinality(S \cup T) = Cardinality(S) + Cardinality(T)
BY FS_Union, FS_EmptySet, FS_CardinalityType

\* A proper part of a finite set is smaller.
LEMMA ProperSubset ==
    ASSUME NEW T, IsFiniteSet(T), NEW S \in SUBSET T, S # T
    PROVE  IsFiniteSet(S) /\ Cardinality(S) < Cardinality(T)
BY FS_Subset, FS_CardinalityType

-----------------------------------------------------------------------------
(* Ranks in a weak order.                                                  *)

\* R orders V, and elements without order are alike to all others.
WeakOrder(V, R) ==
    /\ \A x \in V : <<x, x>> \notin R
    /\ \A x, y, z \in V : <<x, y>> \in R /\ <<y, z>> \in R => <<x, z>> \in R
    /\ \A x, y, z \in V : <<x, z>> \in R => <<x, y>> \in R \/ <<y, z>> \in R

RankIn(V, R, x) == Cardinality({y \in V : <<y, x>> \in R})

\* The numbers of elements before them order the elements of a finite set as R does.
LEMMA RanksOrder ==
    ASSUME NEW V, IsFiniteSet(V), NEW R, WeakOrder(V, R), NEW x \in V, NEW y \in V
    PROVE  /\ RankIn(V, R, x) \in Nat
           /\ RankIn(V, R, x) < Cardinality(V)
           /\ RankIn(V, R, x) < RankIn(V, R, y) <=> <<x, y>> \in R
<1> DEFINE Before(z) == {u \in V : <<u, z>> \in R}
<1>1. ASSUME NEW z \in V
      PROVE  IsFiniteSet(Before(z)) /\ Cardinality(Before(z)) \in Nat /\ Cardinality(Before(z)) < Cardinality(V)
  <2>1. Before(z) \in SUBSET V /\ z \notin Before(z)
    BY DEF WeakOrder
  <2> QED
    BY <2>1, ProperSubset, FS_CardinalityType
<1>2. ASSUME NEW u \in V, NEW v \in V, <<u, v>> \in R
      PROVE  Cardinality(Before(u)) < Cardinality(Before(v))
  <2>1. Before(u) \in SUBSET Before(v)
    BY <1>2 DEF WeakOrder
  <2>2. u \in Before(v) /\ u \notin Before(u)
    BY <1>2 DEF WeakOrder
  <2> QED
    BY <1>1, <2>1, <2>2, ProperSubset
<1>3. ASSUME <<x, y>> \notin R
      PROVE  ~(Cardinality(Before(x)) < Cardinality(Before(y)))
  <2>1. Before(y) \in SUBSET Before(x)
    BY <1>3 DEF WeakOrder
  <2> HIDE DEF Before
  <2> QED
    BY <1>1, <2>1, FS_Subset
<1> QED
  BY <1>1, <1>2, <1>3 DEF RankIn

-----------------------------------------------------------------------------
(* Folds.                                                                  *)

\* it folds every part of S by step, as long as what it has so far is in V.
Folded(S, V, base, step, it) ==
    /\ it[{}] = base
    /\ \A s \in (SUBSET S) \ {{}} :
           LET x == CHOOSE x \in s : TRUE
           IN  it[s \ {x}] \in V => it[s] = step[<<x, it[s \ {x}]>>]

\* Such a fold exists.
LEMMA FoldExists ==
    ASSUME NEW S, IsFiniteSet(S), NEW V, NEW base \in V, NEW step \in [S \X V -> V]
    PROVE  \E it \in [SUBSET S -> V] : Folded(S, V, base, step, it)
<1> DEFINE ch(s) == CHOOSE x \in s : TRUE
           D == SUBSET S
           rank == [s \in D |-> Cardinality(s)]
           pre == [s \in D |-> s \ {ch(s)}]
           next == [e \in D \X V |-> IF e[1] = {} THEN base ELSE step[<<ch(e[1]), e[2]>>]]
<1>1. rank \in [D -> Nat]
  BY FS_Subset, FS_CardinalityType
<1>2. pre \in [D -> D]
  OBVIOUS
<1>3. next \in [D \X V -> V]
  <2>1. \A s \in D, v \in V : s # {} => <<ch(s), v>> \in S \X V
    OBVIOUS
  <2> HIDE DEF ch
  <2> QED
    BY <2>1
<1>4. ASSUME NEW s \in D \ {{}} PROVE rank[pre[s]] < rank[s]
  <2>1. ch(s) \in s /\ IsFiniteSet(s) /\ pre[s] \in D
    BY FS_Subset
  <2>2. Cardinality(s \ {ch(s)}) = Cardinality(s) - 1 /\ Cardinality(s) \in Nat
    BY <2>1, FS_RemoveElement, FS_CardinalityType
  <2> QED
    BY <2>1, <2>2
<1>5. \A s \in D : pre[s] = s \ {ch(s)}
  OBVIOUS
<1>6. \A s \in D, v \in V : s # {} => next[<<s, v>>] = step[<<ch(s), v>>]
  OBVIOUS
<1> HIDE DEF rank, pre, next
<1>7. PICK it \in [D -> V] : \A s \in D : it[s] = IF s \in {{}} THEN base ELSE next[<<s, it[pre[s]]>>]
  <2>1. IsRecursion(D, {{}}, V, rank, pre, base, next)
    BY <1>1, <1>2, <1>3, <1>4 DEF IsRecursion
  <2> HIDE DEF D
  <2> QED
    BY <2>1, RecursiveFunction
<1>8. it[{}] = base
  <2>1. {} \in D
    OBVIOUS
  <2> QED
    BY <1>7, <2>1
<1>9. ASSUME NEW s \in D \ {{}}
      PROVE  it[s] = step[<<ch(s), it[s \ {ch(s)}]>>]
  <2>1. it[s] = next[<<s, it[pre[s]]>>] /\ pre[s] \in D /\ it[pre[s]] \in V
    BY <1>2, <1>7
  <2>2. PICK v : v = it[pre[s]]
    OBVIOUS
  <2>3. next[<<s, v>>] = step[<<ch(s), v>>]
    BY <1>6, <2>1, <2>2
  <2> QED
    BY <1>5, <2>1, <2>2, <2>3
<1> QED
  BY <1>7, <1>8, <1>9 DEF Folded

\* And every one stays in V.
LEMMA FoldStays ==
    ASSUME NEW S, IsFiniteSet(S), NEW V, NEW base \in V, NEW step \in [S \X V -> V],
           NEW it, Folded(S, V, base, step, it)
    PROVE  \A s \in SUBSET S : it[s] \in V
<1> DEFINE ch(s) == CHOOSE x \in s : TRUE
           Bad == {s \in SUBSET S : it[s] \notin V}
           Ranks == {Cardinality(s) : s \in Bad}
<1> SUFFICES ASSUME Bad # {} PROVE FALSE
  OBVIOUS
<1>1. \A s \in SUBSET S : IsFiniteSet(s) /\ Cardinality(s) \in Nat
  BY FS_Subset, FS_CardinalityType
<1>2. Ranks \in SUBSET Nat /\ Ranks # {}
  BY <1>1
<1>3. PICK r \in Ranks : \A q \in Ranks : r <= q
  <2> HIDE DEF Ranks
  <2> QED
    BY <1>2, LeastNat
<1>4. PICK s \in Bad : r = Cardinality(s)
  BY <1>3
<1>5. s \in SUBSET S /\ it[s] \notin V /\ s # {}
  BY DEF Folded
<1>6. ch(s) \in s /\ s \ {ch(s)} \in SUBSET S /\ IsFiniteSet(s)
  BY <1>1, <1>5
<1>7. Cardinality(s \ {ch(s)}) = Cardinality(s) - 1 /\ Cardinality(s \ {ch(s)}) \in Nat /\ Cardinality(s) \in Nat
  BY <1>1, <1>6, FS_RemoveElement
<1>8. s \ {ch(s)} \notin Bad
  <2>1. \A q \in Bad : r <= Cardinality(q)
    BY <1>3
  <2> HIDE DEF Bad, ch
  <2> QED
    BY <1>4, <1>7, <2>1
<1>9. it[s \ {ch(s)}] \in V
  BY <1>6, <1>8
<1>10. it[s] = step[<<ch(s), it[s \ {ch(s)}]>>]
  BY <1>5, <1>9 DEF Folded
<1>11. <<ch(s), it[s \ {ch(s)}]>> \in S \X V
  BY <1>5, <1>6, <1>9
<1> HIDE DEF ch
<1> QED
  BY <1>5, <1>10, <1>11

-----------------------------------------------------------------------------
(* Sums.                                                                   *)

\* The sum over a set whose term for y is F[k[y]].
SumOver(F, k, S) == MapThenSumSet(LAMBDA y : F[k[y]], S)

\* A sum over a finite set is an integer if all of its terms are.
LEMMA SumType ==
    ASSUME NEW S, IsFiniteSet(S), NEW F, NEW k, \A y \in S : F[k[y]] \in Int
    PROVE  SumOver(F, k, S) \in Int
<1> DEFINE step == [e \in S \X Int |-> F[k[e[1]]] + e[2]]
           E(i) == i = [s \in SUBSET S |-> IF s = {} THEN 0
                                            ELSE F[k[CHOOSE x \in s : TRUE]] + i[s \ {CHOOSE x \in s : TRUE}]]
           sum == CHOOSE i : E(i)
<1>1. step \in [S \X Int -> Int] /\ \A x \in S, v \in Int : step[<<x, v>>] = F[k[x]] + v
  OBVIOUS
<1>2. \A s \in SUBSET S : s # {} => (CHOOSE x \in s : TRUE) \in S
  OBVIOUS
<1> HIDE DEF step
<1>3. PICK it \in [SUBSET S -> Int] : Folded(S, Int, 0, step, it)
  <2>1. PICK V, z : V = Int /\ z = 0
    OBVIOUS
  <2>2. z \in V /\ step \in [S \X V -> V]
    BY <1>1, <2>1
  <2>3. \E it \in [SUBSET S -> V] : Folded(S, V, z, step, it)
    BY <2>2, FoldExists
  <2> QED
    BY <2>1, <2>3
<1>4. ASSUME NEW s \in SUBSET S
      PROVE  it[s] = IF s = {} THEN 0 ELSE F[k[CHOOSE x \in s : TRUE]] + it[s \ {CHOOSE x \in s : TRUE}]
  <2>1. CASE s = {}
    BY <1>3, <2>1 DEF Folded
  <2>2. CASE s # {}
    <3>1. PICK x : x = CHOOSE y \in s : TRUE
      OBVIOUS
    <3>2. x \in S /\ it[s \ {x}] \in Int
      BY <1>2, <1>3, <2>2, <3>1
    <3>3. it[s] = step[<<x, it[s \ {x}]>>]
      BY <1>3, <2>2, <3>1, <3>2 DEF Folded
    <3> QED
      BY <1>1, <2>2, <3>1, <3>2, <3>3
  <2> QED
    BY <2>1, <2>2
<1>5. E(it)
  BY <1>3, <1>4
<1>6. E(sum)
  BY <1>5
<1>7. SumOver(F, k, S) = sum[S]
  BY DEF SumOver, MapThenSumSet, MapThenFoldSet
<1> HIDE DEF sum
<1>8. sum[{}] = 0
  <2>1. {} \in SUBSET S
    OBVIOUS
  <2> QED
    BY <1>6, <2>1
<1>9. ASSUME NEW s \in (SUBSET S) \ {{}}, NEW x, x = CHOOSE y \in s : TRUE, sum[s \ {x}] \in Int
      PROVE  sum[s] = step[<<x, sum[s \ {x}]>>]
  <2>1. sum[s] = F[k[x]] + sum[s \ {x}]
    BY <1>6, <1>9
  <2> QED
    BY <1>1, <1>2, <1>9, <2>1
<1>10. Folded(S, Int, 0, step, sum)
  BY <1>8, <1>9 DEF Folded
<1>11. sum[S] \in Int
  <2>1. PICK V, z : V = Int /\ z = 0
    OBVIOUS
  <2>2. z \in V /\ step \in [S \X V -> V] /\ Folded(S, V, z, step, sum)
    BY <1>1, <1>10, <2>1
  <2>3. \A s \in SUBSET S : sum[s] \in V
    BY <2>2, FoldStays
  <2> QED
    BY <2>1, <2>3
<1> QED
  BY <1>7, <1>11
=============================================================================
