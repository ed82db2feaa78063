--------------------------- MODULE PartitionProofs ---------------------------
(***************************************************************************)
(* What Index.partition and Index.computeBlocks make of every finite graph *)
(* and every diameter.                                                     *)
(***************************************************************************)
EXTENDS Partition, DataLemmas

-----------------------------------------------------------------------------
(* Orders.  R is a relation on T that orders its elements in a line.       *)

Linear(T, R) ==
    /\ \A x \in T : <<x, x>> \notin R
    /\ \A x, y, z \in T : <<x, y>> \in R /\ <<y, z>> \in R => <<x, z>> \in R
    /\ \A x, y \in T : x # y => <<x, y>> \in R \/ <<y, x>> \in R

\* What Sorted makes of a set that R orders.
InOrder(S, R) ==
    [i \in 1..Cardinality(S) |-> CHOOSE x \in S : Cardinality({y \in S : <<y, x>> \in R}) = i - 1]

\* An injective function from a finite set to one of the same size reaches all of it.
LEMMA OntoByCount ==
    ASSUME NEW S, IsFiniteSet(S), NEW n \in Nat, n = Cardinality(S),
           NEW f \in [S -> 0..(n - 1)], \A x, y \in S : f[x] = f[y] => x = y
    PROVE  \A i \in 0..(n - 1) : \E x \in S : f[x] = i
<1>1. IsFiniteSet(0..(n - 1)) /\ Cardinality(0..(n - 1)) = n
  <2>1. PICK m : m = n - 1
    OBVIOUS
  <2>2. m \in Int /\ m >= -1
    BY <2>1
  <2>3. \A a, b \in Int : IsFiniteSet(a..b) /\ Cardinality(a..b) = IF a > b THEN 0 ELSE b - a + 1
    BY FS_Interval
  <2> QED
    BY <2>1, <2>2, <2>3
<1>2. f \in Injection(S, 0..(n - 1))
  BY DEF Injection, IsInjective
<1>3. f \in Surjection(S, 0..(n - 1))
  BY <1>1, <1>2, FS_Injection
<1> QED
  BY <1>3 DEF Surjection

\* Sorting loses and repeats nothing, and what is less comes first.
LEMMA InOrderIs ==
    ASSUME NEW S, IsFiniteSet(S), NEW R, Linear(S, R)
    PROVE  /\ Cardinality(S) \in Nat
           /\ InOrder(S, R) \in [1..Cardinality(S) -> S]
           /\ \A x \in S : \E i \in 1..Cardinality(S) : InOrder(S, R)[i] = x
           /\ \A i, j \in 1..Cardinality(S) : i < j <=> <<InOrder(S, R)[i], InOrder(S, R)[j]>> \in R
           /\ \A i, j \in 1..Cardinality(S) : InOrder(S, R)[i] = InOrder(S, R)[j] => i = j
<1> DEFINE n == Cardinality(S)
           rank == [x \in S |-> RankIn(S, R, x)]
           s == InOrder(S, R)
<1>1. n \in Nat
  BY FS_CardinalityType
<1>2. WeakOrder(S, R)
  BY DEF WeakOrder, Linear
<1>3. \A x, y \in S : /\ RankIn(S, R, x) \in 0..(n - 1)
                      /\ RankIn(S, R, x) < RankIn(S, R, y) <=> <<x, y>> \in R
  <2>1. \A x, y \in S : /\ RankIn(S, R, x) \in Nat /\ RankIn(S, R, x) < n
                        /\ RankIn(S, R, x) < RankIn(S, R, y) <=> <<x, y>> \in R
    BY <1>2, RanksOrder
  <2>2. \A r \in Nat : r < n => r \in 0..(n - 1)
    BY <1>1
  <2> HIDE DEF n
  <2> QED
    BY <2>1, <2>2
<1>4. rank \in [S -> 0..(n - 1)] /\ \A x, y \in S : rank[x] < rank[y] <=> <<x, y>> \in R
  BY <1>3
<1>5. \A x, y \in S : rank[x] = rank[y] => x = y
  BY <1>1, <1>4 DEF Linear
<1> HIDE DEF rank
<1>6. \A i \in 0..(n - 1) : \E x \in S : rank[x] = i
  BY <1>1, <1>4, <1>5, OntoByCount
<1>7. s = [i \in 1..n |-> CHOOSE x \in S : rank[x] = i - 1]
  <2>1. \A x \in S : rank[x] = Cardinality({y \in S : <<y, x>> \in R})
    BY DEF rank, RankIn
  <2>2. \A i \in 1..n : (CHOOSE x \in S : rank[x] = i - 1)
                              = CHOOSE x \in S : Cardinality({y \in S : <<y, x>> \in R}) = i - 1
    BY <2>1
  <2> QED
    BY <2>2 DEF InOrder
<1>8. \A i \in 1..n : s[i] \in S /\ rank[s[i]] = i - 1
  <2> TAKE i \in 1..n
  <2>1. i - 1 \in 0..(n - 1)
    BY <1>1
  <2>2. \E x \in S : rank[x] = i - 1
    BY <1>6, <2>1
  <2> QED
    BY <1>7, <2>2
<1>9. s \in [1..n -> S]
  BY <1>7, <1>8
<1>10. \A x \in S : \E i \in 1..n : s[i] = x
  <2> TAKE x \in S
  <2>1. rank[x] \in 0..(n - 1) /\ rank[x] + 1 \in 1..n /\ rank[x] + 1 - 1 = rank[x]
    BY <1>1, <1>4
  <2>2. rank[s[rank[x] + 1]] = rank[x] /\ s[rank[x] + 1] \in S
    BY <1>8, <2>1
  <2> QED
    BY <1>5, <2>1, <2>2
<1>11. \A i, j \in 1..n : i < j <=> <<s[i], s[j]>> \in R
  <2> TAKE i, j \in 1..n
  <2>1. i < j <=> rank[s[i]] < rank[s[j]]
    BY <1>1, <1>8
  <2> QED
    BY <1>4, <1>8, <2>1
<1>12. \A i, j \in 1..n : s[i] = s[j] => i = j
  BY <1>1, <1>8
<1> QED
  BY <1>1, <1>9, <1>10, <1>11, <1>12

\* An order of keys orders what has different keys.
LEMMA PullBack ==
    ASSUME NEW T, NEW R, Linear(T, R), NEW S, NEW f \in [S -> T], \A x, y \in S : f[x] = f[y] => x = y
    PROVE  Linear(S, {e \in S \X S : <<f[e[1]], f[e[2]]>> \in R})
BY DEF Linear

\* Pairs by their first and then by their second parts.
Lex(T, R, U, Q) ==
    {e \in (T \X U) \X (T \X U) :
        <<e[1][1], e[2][1]>> \in R \/ (e[1][1] = e[2][1] /\ <<e[1][2], e[2][2]>> \in Q)}

\* The lexical order of pairs orders them in a line if both orders do.
LEMMA LexLinear ==
    ASSUME NEW T, NEW R, Linear(T, R), NEW U, NEW Q, Linear(U, Q)
    PROVE  Linear(T \X U, Lex(T, R, U, Q))
<1> DEFINE P == T \X U
           Less(x, y) == <<x[1], y[1]>> \in R \/ (x[1] = y[1] /\ <<x[2], y[2]>> \in Q)
<1>1. \A x, y \in P : <<x, y>> \in Lex(T, R, U, Q) <=> Less(x, y)
  BY DEF Lex
<1>2. \A x \in P : ~Less(x, x)
  BY DEF Linear
<1>3. \A x, y, z \in P : Less(x, y) /\ Less(y, z) => Less(x, z)
  <2> TAKE x, y, z \in P
  <2> HAVE Less(x, y) /\ Less(y, z)
  <2>1. x[1] \in T /\ y[1] \in T /\ z[1] \in T /\ x[2] \in U /\ y[2] \in U /\ z[2] \in U
    OBVIOUS
  <2>2. CASE <<x[1], y[1]>> \in R /\ <<y[1], z[1]>> \in R
    BY <2>1, <2>2 DEF Linear
  <2>3. CASE <<x[1], y[1]>> \in R /\ y[1] = z[1]
    BY <2>3
  <2>4. CASE x[1] = y[1] /\ <<y[1], z[1]>> \in R
    BY <2>4
  <2>5. CASE x[1] = y[1] /\ <<x[2], y[2]>> \in Q /\ y[1] = z[1] /\ <<y[2], z[2]>> \in Q
    BY <2>1, <2>5 DEF Linear
  <2> QED
    BY <2>2, <2>3, <2>4, <2>5
<1>4. \A x, y \in P : x # y => Less(x, y) \/ Less(y, x)
  <2> SUFFICES ASSUME NEW x \in P, NEW y \in P, x # y PROVE Less(x, y) \/ Less(y, x)
    OBVIOUS
  <2>1. x[1] \in T /\ y[1] \in T /\ x[2] \in U /\ y[2] \in U /\ (x[1] # y[1] \/ x[2] # y[2])
    OBVIOUS
  <2> QED
    BY <2>1 DEF Linear
<1> HIDE DEF Less
<1> QED
  BY <1>1, <1>2, <1>3, <1>4 DEF Linear

-----------------------------------------------------------------------------
(* compareTo of sequences of numbers and of sorted sets of them.           *)

\* The order of sequences of numbers.
SeqOrder == {e \in Seq(Int) \X Seq(Int) : SeqLess(e[1], e[2])}

\* Of two different sequences of one length there is a first place where they differ.
LEMMA FirstDifference ==
    ASSUME NEW s \in Seq(Int), NEW t \in Seq(Int), Len(s) = Len(t), s # t
    PROVE  \E i \in 1..Len(s) : s[i] # t[i] /\ \A j \in 1..(i - 1) : s[j] = t[j]
<1> DEFINE D == {i \in 1..Len(s) : s[i] # t[i]}
<1>1. D \in SUBSET Nat /\ D # {}
  <2>1. \E i \in 1..Len(s) : s[i] # t[i]
    BY SMTT(30)
  <2>2. D \in SUBSET Nat
    OBVIOUS
  <2> QED
    BY <2>1, <2>2
<1>2. PICK i \in D : \A j \in D : i <= j
  BY <1>1, LeastNat
<1>3. i \in 1..Len(s) /\ s[i] # t[i] /\ i \in Nat /\ Len(s) \in Nat
  BY <1>2
<1>4. \A j \in 1..(i - 1) : s[j] = t[j]
  BY <1>2, <1>3
<1> QED
  BY <1>3, <1>4

\* SeqLess, which LabelSequence.compareTo and the ids of parts rest on, orders sequences.
LEMMA SeqLinear == Linear(Seq(Int), SeqOrder)
<1>1. \A s \in Seq(Int) : ~SeqLess(s, s)
  BY DEF SeqLess
<1>2. ASSUME NEW s \in Seq(Int), NEW t \in Seq(Int), NEW u \in Seq(Int), SeqLess(s, t), SeqLess(t, u)
      PROVE  SeqLess(s, u)
  <2>1. Len(s) \in Nat /\ Len(t) \in Nat /\ Len(u) \in Nat /\ Len(s) <= Len(t) /\ Len(t) <= Len(u)
    BY <1>2 DEF SeqLess
  <2>2. CASE Len(s) < Len(u)
    BY <2>2 DEF SeqLess
  <2>3. CASE ~(Len(s) < Len(u))
    <3>1. Len(s) = Len(t) /\ Len(t) = Len(u)
      BY <2>1, <2>3
    <3>2. PICK i \in 1..Len(s) : s[i] < t[i] /\ \A k \in 1..(i - 1) : s[k] = t[k]
      BY <1>2, <3>1 DEF SeqLess
    <3>3. PICK j \in 1..Len(s) : t[j] < u[j] /\ \A k \in 1..(j - 1) : t[k] = u[k]
      BY <1>2, <3>1 DEF SeqLess
    <3>4. \A k \in 1..Len(s) : s[k] \in Int /\ t[k] \in Int /\ u[k] \in Int
      <4>1. (\A k \in 1..Len(s) : s[k] \in Int) /\ (\A k \in 1..Len(t) : t[k] \in Int)
            /\ \A k \in 1..Len(u) : u[k] \in Int
        OBVIOUS
      <4> QED
        BY <3>1, <4>1
    <3>5. PICK m \in 1..Len(s) : m = IF i < j THEN i ELSE j
      BY <3>2, <3>3
    <3>6. s[m] < u[m]
      <4>1. CASE i < j
        <5>1. m = i /\ i \in 1..(j - 1)
          BY <3>5, <4>1
        <5>2. t[i] = u[i]
          BY <3>3, <5>1
        <5> QED
          BY <3>2, <5>1, <5>2
      <4>2. CASE j < i
        <5>1. m = j /\ j \in 1..(i - 1)
          BY <3>5, <4>2
        <5>2. s[j] = t[j]
          BY <3>2, <5>1
        <5> QED
          BY <3>3, <5>1, <5>2
      <4>3. CASE i = j
        <5>1. m = i /\ s[i] < t[i] /\ t[i] < u[i]
          BY <3>2, <3>3, <3>5, <4>3
        <5>2. i \in 1..Len(s)
          BY <3>2
        <5>3. PICK a, b, c : a = s[i] /\ b = t[i] /\ c = u[i]
          OBVIOUS
        <5>4. a \in Int /\ b \in Int /\ c \in Int
          BY <3>4, <5>2, <5>3
        <5>5. a < b /\ b < c
          BY <5>1, <5>3
        <5>6. a < c
          BY <5>4, <5>5
        <5> QED
          BY <5>1, <5>3, <5>6
      <4> QED
        BY <3>2, <3>3, <4>1, <4>2, <4>3
    <3>7. \A k \in 1..(m - 1) : s[k] = u[k]
      BY <3>2, <3>3, <3>5
    <3> QED
      BY <3>1, <3>6, <3>7 DEF SeqLess
  <2> QED
    BY <2>2, <2>3
<1>3. ASSUME NEW s \in Seq(Int), NEW t \in Seq(Int), s # t
      PROVE  SeqLess(s, t) \/ SeqLess(t, s)
  <2>1. Len(s) \in Nat /\ Len(t) \in Nat
    OBVIOUS
  <2>2. CASE Len(s) # Len(t)
    BY <2>1, <2>2 DEF SeqLess
  <2>3. CASE Len(s) = Len(t)
    <3>1. PICK i \in 1..Len(s) : s[i] # t[i] /\ \A j \in 1..(i - 1) : s[j] = t[j]
      BY <1>3, <2>3, FirstDifference
    <3>2. s[i] \in Int /\ t[i] \in Int
      BY <2>3
    <3>3. s[i] < t[i] \/ t[i] < s[i]
      BY <3>1, <3>2
    <3> QED
      BY <2>3, <3>1, <3>3 DEF SeqLess
  <2> QED
    BY <2>2, <2>3
<1>4. \A s, t \in Seq(Int) : <<s, t>> \in SeqOrder <=> SeqLess(s, t)
  BY DEF SeqOrder
<1> QED
  BY <1>1, <1>2, <1>3, <1>4 DEF Linear

\* A finite set that is ordered in a line has a first element.
LEMMA FirstElement ==
    ASSUME NEW T, NEW R, Linear(T, R), NEW S \in SUBSET T, IsFiniteSet(S), S # {}
    PROVE  \E x \in S : \A y \in S : <<y, x>> \notin R
<1>1. Linear(S, R)
  BY DEF Linear
<1>2. /\ Cardinality(S) \in Nat
      /\ InOrder(S, R) \in [1..Cardinality(S) -> S]
      /\ \A x \in S : \E i \in 1..Cardinality(S) : InOrder(S, R)[i] = x
      /\ \A i, j \in 1..Cardinality(S) : i < j <=> <<InOrder(S, R)[i], InOrder(S, R)[j]>> \in R
  BY <1>1, InOrderIs
<1>3. PICK n, s : n = Cardinality(S) /\ s = InOrder(S, R)
  OBVIOUS
<1>4. /\ n \in Nat /\ s \in [1..n -> S]
      /\ \A x \in S : \E i \in 1..n : s[i] = x
      /\ \A i, j \in 1..n : i < j <=> <<s[i], s[j]>> \in R
  BY <1>2, <1>3
<1>5. 1 \in 1..n /\ s[1] \in S
  BY <1>4
<1>6. \A i \in 1..n : <<s[i], s[1]>> \notin R
  BY <1>4, <1>5
<1> QED
  BY <1>4, <1>5, <1>6

\* The finite sets of sequences of numbers, and their order.
LabelSets == {A \in SUBSET Seq(Int) : IsFiniteSet(A)}
SetOrder == {e \in LabelSets \X LabelSets : SetLess(e[1], e[2])}

\* Of two different sets of one size one has an element before all others that they do not share.
LEMMA SetLinear == Linear(LabelSets, SetOrder)
<1> DEFINE T == Seq(Int)
           Less(x, y) == SeqLess(x, y)
           Leads(A, B, x) == x \in A /\ x \notin B /\ \A y \in T : y \in SymDiff(A, B) => ~SeqLess(y, x)
<1>1. /\ \A x \in T : ~SeqLess(x, x)
      /\ \A x, y, z \in T : SeqLess(x, y) /\ SeqLess(y, z) => SeqLess(x, z)
      /\ \A x, y \in T : x # y => SeqLess(x, y) \/ SeqLess(y, x)
  BY SeqLinear DEF Linear, SeqOrder
<1>2. \A A, B \in LabelSets :
          /\ A \subseteq T /\ B \subseteq T /\ IsFiniteSet(A) /\ IsFiniteSet(B)
          /\ Cardinality(A) \in Nat /\ Cardinality(B) \in Nat
  BY FS_CardinalityType DEF LabelSets
<1>3. \A A, B \in LabelSets :
          SetLess(A, B) <=> \/ Cardinality(A) < Cardinality(B)
                            \/ Cardinality(A) = Cardinality(B) /\ \E x \in T : Leads(A, B, x)
  <2>1. ASSUME NEW A \in LabelSets, NEW B \in LabelSets
        PROVE  (\E x \in A \ B : \A y \in SymDiff(A, B) : ~SeqLess(y, x)) <=> \E x \in T : Leads(A, B, x)
    BY <1>2 DEF SymDiff
  <2> HIDE DEF Leads
  <2> QED
    BY <2>1 DEF SetLess
<1>4. ASSUME NEW A \in LabelSets, NEW B \in LabelSets, NEW C \in LabelSets,
             NEW x \in T, NEW z \in T, Leads(A, B, x), Leads(B, C, z)
      PROVE  \E y \in T : Leads(A, C, y)
  <2>1. x # z
    BY <1>4
  <2>2. CASE SeqLess(x, z)
    <3>1. x \notin C
      BY <1>4, <2>2 DEF SymDiff
    <3>2. \A y \in T : y \in SymDiff(A, C) => ~SeqLess(y, x)
      BY <1>1, <1>4, <2>2 DEF SymDiff
    <3> QED
      BY <1>4, <3>1, <3>2
  <2>3. CASE SeqLess(z, x)
    <3>1. z \in A
      BY <1>4, <2>3 DEF SymDiff
    <3>2. \A y \in T : y \in SymDiff(A, C) => ~SeqLess(y, z)
      BY <1>1, <1>4, <2>3 DEF SymDiff
    <3> QED
      BY <1>4, <3>1, <3>2
  <2> QED
    BY <1>1, <2>1, <2>2, <2>3
<1>5. ASSUME NEW A \in LabelSets, NEW B \in LabelSets, A # B
      PROVE  \E x \in T : Leads(A, B, x) \/ Leads(B, A, x)
  <2>1. SymDiff(A, B) \in SUBSET T /\ SymDiff(A, B) # {} /\ SymDiff(A, B) \in SUBSET (A \cup B)
    BY <1>2, <1>5 DEF SymDiff
  <2>2. IsFiniteSet(A \cup B)
    BY <1>2, FS_Union
  <2>3. IsFiniteSet(SymDiff(A, B))
    BY <2>1, <2>2, FS_Subset
  <2>4. PICK x \in SymDiff(A, B) : \A y \in SymDiff(A, B) : <<y, x>> \notin SeqOrder
    BY <2>1, <2>3, SeqLinear, FirstElement
  <2>5. x \in T /\ \A y \in T : y \in SymDiff(A, B) => ~SeqLess(y, x)
    BY <2>1, <2>4 DEF SeqOrder
  <2> QED
    BY <2>4, <2>5 DEF SymDiff
<1>6. \A A \in LabelSets : ~SetLess(A, A)
  BY <1>2, <1>3
<1> HIDE DEF Leads
<1>7. \A A, B, C \in LabelSets : SetLess(A, B) /\ SetLess(B, C) => SetLess(A, C)
  <2> SUFFICES ASSUME NEW A \in LabelSets, NEW B \in LabelSets, NEW C \in LabelSets,
                      SetLess(A, B), SetLess(B, C)
               PROVE  SetLess(A, C)
    OBVIOUS
  <2>1. Cardinality(A) \in Nat /\ Cardinality(B) \in Nat /\ Cardinality(C) \in Nat
    BY <1>2
  <2>2. Cardinality(A) <= Cardinality(B) /\ Cardinality(B) <= Cardinality(C)
    BY <1>3, <2>1
  <2>3. CASE Cardinality(A) < Cardinality(C)
    BY <1>3, <2>3
  <2>4. CASE Cardinality(A) = Cardinality(C)
    <3>1. Cardinality(A) = Cardinality(B) /\ Cardinality(B) = Cardinality(C)
      BY <2>1, <2>2, <2>4
    <3>2. (\E x \in T : Leads(A, B, x)) /\ (\E x \in T : Leads(B, C, x))
      BY <1>3, <2>1, <3>1
    <3>3. \E x \in T : Leads(A, C, x)
      BY <1>4, <3>2
    <3> QED
      BY <1>3, <2>4, <3>3
  <2> QED
    BY <2>1, <2>2, <2>3, <2>4
<1>8. \A A, B \in LabelSets : A # B => SetLess(A, B) \/ SetLess(B, A)
  <2> SUFFICES ASSUME NEW A \in LabelSets, NEW B \in LabelSets, A # B
               PROVE  SetLess(A, B) \/ SetLess(B, A)
    OBVIOUS
  <2>1. Cardinality(A) \in Nat /\ Cardinality(B) \in Nat
    BY <1>2
  <2>2. \E x \in T : Leads(A, B, x) \/ Leads(B, A, x)
    BY <1>5
  <2> QED
    BY <1>3, <2>1, <2>2
<1>9. \A A, B \in LabelSets : <<A, B>> \in SetOrder <=> SetLess(A, B)
  BY DEF SetOrder
<1> QED
  BY <1>6, <1>7, <1>8, <1>9 DEF Linear

-----------------------------------------------------------------------------
(* Sequences that grow by an element made of those before, as the reference *)
(* definitions do.                                                         *)

\* What a sequence can be grown from.
Begun(T, n) == {q \in Seq(T) : 1 <= Len(q) /\ Len(q) < n}

\* f grows by what step makes of it.
Grown(n, T, first, step, f) ==
    /\ f[1] = <<first>>
    /\ \A i \in 1..(n - 1) : f[i] \in Begun(T, n) => f[i + 1] = Append(f[i], step[f[i]])

\* There is such a function.
LEMMA GrownExists ==
    ASSUME NEW n \in Nat \ {0}, NEW T, NEW first \in T, NEW step \in [Begun(T, n) -> T]
    PROVE  \E f : DOMAIN f = 1..n /\ Grown(n, T, first, step, f)
<1> DEFINE D == 1..n
           V == {q \in Seq(T) : 1 <= Len(q)}
           rank == [d \in D |-> d]
           pre == [d \in D |-> IF d = 1 THEN 1 ELSE d - 1]
           next == [e \in D \X V |-> IF e[2] \in Begun(T, n) THEN Append(e[2], step[e[2]]) ELSE e[2]]
<1>1. rank \in [D -> Nat] /\ pre \in [D -> D] /\ <<first>> \in V /\ \A d \in D \ {1} : rank[pre[d]] < rank[d]
  OBVIOUS
<1>2. next \in [D \X V -> V]
  <2>1. \A q \in V : q \in Begun(T, n) => Append(q, step[q]) \in V
    <3> TAKE q \in V
    <3> HAVE q \in Begun(T, n)
    <3>1. step[q] \in T /\ q \in Seq(T) /\ Len(q) \in Nat /\ 1 <= Len(q)
      OBVIOUS
    <3> QED
      BY <3>1
  <2> QED
    BY <2>1
<1> HIDE DEF V, next, rank, pre
<1>3. IsRecursion(D, {1}, V, rank, pre, <<first>>, next)
  BY <1>1, <1>2 DEF IsRecursion
<1>4. PICK f \in [D -> V] : \A d \in D : f[d] = IF d \in {1} THEN <<first>> ELSE next[<<d, f[pre[d]]>>]
  BY <1>3, RecursiveFunction
<1>5. f[1] = <<first>>
  <2>1. 1 \in D
    OBVIOUS
  <2> QED
    BY <1>4, <2>1
<1>6. ASSUME NEW i \in 1..(n - 1), f[i] \in Begun(T, n)
      PROVE  f[i + 1] = Append(f[i], step[f[i]])
  <2>1. i \in D /\ i + 1 \in D /\ i + 1 \notin {1} /\ pre[i + 1] = i
    BY DEF pre
  <2>2. f[i + 1] = next[<<i + 1, f[i]>>] /\ f[i] \in V
    BY <1>4, <2>1
  <2>3. \A d \in D, v \in V : v \in Begun(T, n) => next[<<d, v>>] = Append(v, step[v])
    BY DEF next
  <2> QED
    BY <1>6, <2>1, <2>2, <2>3
<1> QED
  BY <1>4, <1>5, <1>6 DEF Grown

\* Its last value holds all that were made, each of those before it.
LEMMA GrownIs ==
    ASSUME NEW n \in Nat \ {0}, NEW T, NEW first \in T, NEW step \in [Begun(T, n) -> T],
           NEW f, Grown(n, T, first, step, f)
    PROVE  /\ \A i \in 1..n : f[i] \in Seq(T) /\ Len(f[i]) = i
           /\ f[n][1] = first
           /\ \A i \in 1..(n - 1) :
                  /\ f[i] \in Begun(T, n) /\ \A j \in 1..i : f[i][j] = f[n][j]
                  /\ f[n][i + 1] = step[f[i]]
<1> DEFINE Good(m) == /\ f[m] \in Seq(T) /\ Len(f[m]) = m
                      /\ \A i \in 1..m : \A j \in 1..i : f[m][j] = f[i][j]
           P == {m \in Nat : m + 1 <= n => Good(m + 1)}
<1>1. 0 \in P
  <2>1. f[1] = <<first>> /\ <<first>> \in Seq(T) /\ Len(<<first>>) = 1
    BY DEF Grown
  <2>2. Good(1)
    BY <2>1
  <2> HIDE DEF Good
  <2>3. 0 + 1 = 1
    OBVIOUS
  <2> QED
    BY <2>2, <2>3
<1>2. ASSUME NEW k \in P PROVE k + 1 \in P
  <2> SUFFICES ASSUME k + 1 + 1 <= n PROVE Good(k + 1 + 1)
    OBVIOUS
  <2>1. PICK m : m = k + 1
    OBVIOUS
  <2>2. m \in 1..(n - 1) /\ Good(m)
    BY <1>2, <2>1
  <2>3. f[m] \in Begun(T, n)
    BY <2>2 DEF Begun
  <2>4. f[m + 1] = Append(f[m], step[f[m]]) /\ step[f[m]] \in T
    BY <2>2, <2>3 DEF Grown
  <2>5. f[m + 1] \in Seq(T) /\ Len(f[m + 1]) = m + 1 /\ \A j \in 1..m : f[m + 1][j] = f[m][j]
    <3>1. PICK s, t : s = f[m] /\ t = step[f[m]]
      OBVIOUS
    <3>2. s \in Seq(T) /\ t \in T /\ Len(s) = m
      BY <2>2, <2>4, <3>1
    <3>3. Append(s, t) \in Seq(T) /\ Len(Append(s, t)) = m + 1 /\ \A j \in 1..m : Append(s, t)[j] = s[j]
      BY <3>2
    <3> QED
      BY <2>4, <3>1, <3>3
  <2>6. \A i \in 1..(m + 1) : \A j \in 1..i : f[m + 1][j] = f[i][j]
    <3> TAKE i \in 1..(m + 1)
    <3> TAKE j \in 1..i
    <3>1. CASE i = m + 1
      BY <3>1
    <3>2. CASE i # m + 1
      BY <2>2, <2>5, <3>2
    <3> QED
      BY <3>1, <3>2
  <2> QED
    BY <2>1, <2>5, <2>6
<1> HIDE DEF Good
<1>3. P = Nat
  <2>1. P \in SUBSET Nat
    OBVIOUS
  <2> HIDE DEF P
  <2> QED
    BY <1>1, <1>2, <2>1, NatInd
<1>4. \A m \in 1..n : Good(m)
  <2> TAKE m \in 1..n
  <2>1. PICK k : k = m - 1
    OBVIOUS
  <2>2. k \in Nat /\ k + 1 = m /\ m <= n
    BY <2>1
  <2>3. k \in P
    BY <1>3, <2>2
  <2> QED
    BY <2>2, <2>3
<1>5. \A i \in 1..n : f[i] \in Seq(T) /\ Len(f[i]) = i
  BY <1>4 DEF Good
<1>6. f[n][1] = first
  <2>1. 1 \in 1..n /\ n \in 1..n /\ 1 \in 1..1
    OBVIOUS
  <2>2. f[n][1] = f[1][1]
    BY <1>4, <2>1 DEF Good
  <2> QED
    BY <2>2 DEF Grown
<1>7. ASSUME NEW i \in 1..(n - 1)
      PROVE  /\ f[i] \in Begun(T, n) /\ \A j \in 1..i : f[i][j] = f[n][j]
             /\ f[n][i + 1] = step[f[i]]
  <2>1. i \in 1..n /\ i + 1 \in 1..n /\ n \in 1..n /\ i + 1 \in 1..(i + 1)
    OBVIOUS
  <2>2. f[i] \in Seq(T) /\ Len(f[i]) = i
    BY <1>5, <2>1
  <2>3. f[i] \in Begun(T, n)
    BY <2>2 DEF Begun
  <2>4. \A j \in 1..i : f[i][j] = f[n][j]
    BY <1>4, <2>1 DEF Good
  <2>5. f[n][i + 1] = f[i + 1][i + 1]
    BY <1>4, <2>1 DEF Good
  <2>6. f[i + 1] = Append(f[i], step[f[i]])
    BY <2>3 DEF Grown
  <2>7. PICK s, t : s = f[i] /\ t = step[f[i]]
    OBVIOUS
  <2>8. s \in Seq(T) /\ t \in T /\ Len(s) = i
    BY <2>2, <2>3, <2>7
  <2>9. Append(s, t)[i + 1] = t
    BY <2>8
  <2> QED
    BY <2>3, <2>4, <2>5, <2>6, <2>7, <2>9
<1> QED
  BY <1>5, <1>6, <1>7

-----------------------------------------------------------------------------
(* The pairs that paths of a length connect.                               *)

\* The pairs of vertices, those that walks of each length connect, and one step.
Pairs == Vertex \X Vertex
W(g) == Ref!Walks(g, K)
S1(g) == Ref!OneStep(g)

\* A pair of a composition goes through a vertex in the middle.
LEMMA ComposeIs ==
    ASSUME NEW r \in SUBSET Pairs, NEW s \in SUBSET Pairs
    PROVE  /\ Ref!Compose(r, s) \in SUBSET Pairs
           /\ \A u, v \in Vertex :
                  <<u, v>> \in Ref!Compose(r, s) <=> \E m \in Vertex : <<u, m>> \in r /\ <<m, v>> \in s
<1>1. Ref!Compose(r, s) \in SUBSET Pairs
  BY DEF Ref!Compose, Pairs
<1>2. ASSUME NEW u \in Vertex, NEW v \in Vertex, <<u, v>> \in Ref!Compose(r, s)
      PROVE  \E m \in Vertex : <<u, m>> \in r /\ <<m, v>> \in s
  BY <1>2 DEF Ref!Compose, Pairs
<1>3. ASSUME NEW u \in Vertex, NEW v \in Vertex, NEW m \in Vertex, <<u, m>> \in r, <<m, v>> \in s
      PROVE  <<u, v>> \in Ref!Compose(r, s)
  <2>1. <<<<u, m>>, <<m, v>>>> \in {y \in r \X s : y[1][2] = y[2][1]}
    BY <1>3
  <2>2. <<u, v>> = <<<<<<u, m>>, <<m, v>>>>[1][1], <<<<u, m>>, <<m, v>>>>[2][2]>>
    OBVIOUS
  <2> QED
    BY <2>1, <2>2 DEF Ref!Compose
<1> QED
  BY <1>1, <1>2, <1>3

\* Every edge and every edge backwards is a step, so that each step can be taken back.
LEMMA StepsAre ==
    ASSUME NEW g \in Graphs
    PROVE  /\ S1(g) \in SUBSET Pairs
           /\ \A u, v \in Vertex : <<u, v>> \in S1(g) => <<v, u>> \in S1(g)
           /\ g # {} => S1(g) # {}
           /\ g = {} => S1(g) = {}
<1>1. \A e \in g : e[1] \in Vertex /\ e[2] \in Nat /\ e[3] \in Vertex
  BY GraphAssumption
<1> DEFINE On(u, v) == \E e \in g : u = e[1] /\ v = e[3]
<1>2. \A u, v : <<u, v>> \in S1(g) <=> On(u, v) \/ On(v, u)
  <2>1. S1(g) = {<<s[1], s[3]>> : s \in Ref!Steps(g)}
    BY DEF S1, Ref!OneStep
  <2>2. \A s : s \in Ref!Steps(g) <=> s \in g \/ \E e \in g : s = <<e[3], Ref!Backward(e[2]), e[1]>>
    BY DEF Ref!Steps
  <2>3. ASSUME NEW u, NEW v, On(u, v)
        PROVE  <<u, v>> \in S1(g)
    BY <2>1, <2>2, <2>3
  <2>4. ASSUME NEW u, NEW v, On(v, u)
        PROVE  <<u, v>> \in S1(g)
    <3> PICK e \in g : u = e[3] /\ v = e[1]
      BY <2>4
    <3>1. PICK s : s = <<e[3], Ref!Backward(e[2]), e[1]>>
      OBVIOUS
    <3>2. s \in Ref!Steps(g) /\ s[1] = u /\ s[3] = v
      BY <2>2, <2>4, <3>1
    <3> QED
      BY <2>1, <3>2
  <2>5. ASSUME NEW u, NEW v, <<u, v>> \in S1(g)
        PROVE  On(u, v) \/ On(v, u)
    <3>1. PICK s \in Ref!Steps(g) : u = s[1] /\ v = s[3]
      BY <2>1, <2>5
    <3>2. CASE s \in g
      BY <3>1, <3>2
    <3>3. CASE s \notin g
      <4>1. PICK e \in g : s = <<e[3], Ref!Backward(e[2]), e[1]>>
        BY <2>2, <3>1, <3>3
      <4>2. s[1] = e[3] /\ s[3] = e[1]
        BY <4>1
      <4> QED
        BY <3>1, <4>2
    <3> QED
      BY <3>2, <3>3
  <2> HIDE DEF On
  <2> QED
    BY <2>3, <2>4, <2>5
<1>3. S1(g) \in SUBSET Pairs
  BY <1>1 DEF S1, Ref!OneStep, Ref!Steps, Pairs
<1>4. g # {} => S1(g) # {}
  BY <1>2
<1>5. g = {} => S1(g) = {}
  BY <1>2, <1>3 DEF Pairs
<1> HIDE DEF On
<1> QED
  BY <1>2, <1>3, <1>4, <1>5

\* Each length is one step more than the length before.
LEMMA WalksGrow ==
    ASSUME NEW g \in Graphs
    PROVE  /\ W(g) \in Seq(SUBSET Pairs) /\ Len(W(g)) = K
           /\ W(g)[1] = S1(g)
           /\ \A i \in 1..(K - 1) : W(g)[i + 1] = Ref!Compose(W(g)[i], S1(g))
<1> DEFINE T == SUBSET Pairs
           D == Begun(T, K)
           step == [q \in D |-> Ref!Compose(q[Len(q)], S1(g))]
           Solves(f) == f = [i \in 1..K |-> IF i = 1 THEN <<S1(g)>>
                                            ELSE Append(f[i - 1], Ref!Compose(f[i - 1][Len(f[i - 1])], S1(g)))]
           h == CHOOSE f : Solves(f)
<1>1. K \in Nat \ {0} /\ S1(g) \in T
  BY DiameterAssumption, StepsAre
<1>2. step \in [D -> T]
  <2>1. ASSUME NEW q \in D PROVE Ref!Compose(q[Len(q)], S1(g)) \in T
    <3>1. Len(q) \in 1..Len(q) /\ q \in Seq(T)
      BY DEF Begun
    <3>2. q[Len(q)] \in T
      BY <3>1
    <3> QED
      BY <1>1, <3>2, ComposeIs
  <2> QED
    BY <2>1
<1>3. \A q \in D : step[q] = Ref!Compose(q[Len(q)], S1(g))
  OBVIOUS
<1> HIDE DEF step
<1>4. PICK e : DOMAIN e = 1..K /\ Grown(K, T, S1(g), step, e)
  BY <1>1, <1>2, GrownExists
<1>5. \A i \in 1..(K - 1) : e[i] \in D
  BY <1>1, <1>2, <1>4, GrownIs
<1>6. PICK f : f = [i \in 1..K |-> e[i]]
  OBVIOUS
<1>7. Solves(f)
  <2>1. f[1] = <<S1(g)>>
    BY <1>1, <1>4, <1>6 DEF Grown
  <2>2. ASSUME NEW i \in 1..K, i # 1
        PROVE  f[i] = Append(f[i - 1], Ref!Compose(f[i - 1][Len(f[i - 1])], S1(g)))
    <3>1. PICK j : j = i - 1
      OBVIOUS
    <3>2. j \in 1..(K - 1) /\ j + 1 = i /\ j \in 1..K
      BY <1>1, <2>2, <3>1
    <3>3. f[j] = e[j] /\ f[i] = e[i]
      BY <1>6, <3>2
    <3>4. e[j + 1] = Append(e[j], step[e[j]]) /\ e[j] \in D
      BY <1>4, <1>5, <3>2 DEF Grown
    <3>5. step[e[j]] = Ref!Compose(e[j][Len(e[j])], S1(g))
      BY <1>3, <3>4
    <3> QED
      BY <3>1, <3>2, <3>3, <3>4, <3>5
  <2> QED
    BY <1>6, <2>1, <2>2
<1>8. Solves(h)
  BY <1>7
<1>9. W(g) = h[K]
  BY DEF W, S1, Ref!Walks, Ref!Grow
<1> HIDE DEF h, T
<1>10. Grown(K, T, S1(g), step, h)
  <2>1. h[1] = <<S1(g)>>
    BY <1>1, <1>8
  <2>2. ASSUME NEW i \in 1..(K - 1), h[i] \in D
        PROVE  h[i + 1] = Append(h[i], step[h[i]])
    <3>1. PICK j : j = i + 1
      OBVIOUS
    <3>2. j \in 1..K /\ j # 1 /\ j - 1 = i
      BY <1>1, <3>1
    <3>3. h[j] = Append(h[i], Ref!Compose(h[i][Len(h[i])], S1(g)))
      BY <1>8, <3>2
    <3> QED
      BY <1>3, <2>2, <3>1, <3>3
  <2> QED
    BY <2>1, <2>2 DEF Grown
<1>11. /\ \A i \in 1..K : h[i] \in Seq(T) /\ Len(h[i]) = i
       /\ h[K][1] = S1(g)
       /\ \A i \in 1..(K - 1) :
              /\ h[i] \in D /\ \A j \in 1..i : h[i][j] = h[K][j]
              /\ h[K][i + 1] = step[h[i]]
  BY <1>1, <1>2, <1>10, GrownIs
<1>12. ASSUME NEW i \in 1..(K - 1) PROVE W(g)[i + 1] = Ref!Compose(W(g)[i], S1(g))
  <2>1. h[i] \in D /\ h[K][i + 1] = step[h[i]] /\ Len(h[i]) = i /\ i \in 1..i /\ h[i][i] = h[K][i]
    <3>1. i \in 1..K /\ i \in 1..i
      BY <1>1
    <3> QED
      BY <1>11, <3>1
  <2> QED
    BY <1>3, <1>9, <2>1
<1>13. h[K] \in Seq(T) /\ Len(h[K]) = K
  <2>1. K \in 1..K
    BY <1>1
  <2> QED
    BY <1>11, <2>1
<1> QED
  BY <1>9, <1>11, <1>12, <1>13 DEF T

\* Walks are pairs of vertices.
LEMMA WalkTypes ==
    ASSUME NEW g \in Graphs, NEW i \in 1..K
    PROVE  W(g)[i] \in SUBSET Pairs
BY WalksGrow

\* A path of one more edge is a path and an edge.
LEMMA WalksStep ==
    ASSUME NEW g \in Graphs, NEW i \in 1..(K - 1), NEW u \in Vertex, NEW v \in Vertex
    PROVE  <<u, v>> \in W(g)[i + 1] <=> \E m \in Vertex : <<u, m>> \in W(g)[i] /\ <<m, v>> \in S1(g)
<1>1. i \in 1..K
  BY DiameterAssumption
<1>2. W(g)[i] \in SUBSET Pairs /\ S1(g) \in SUBSET Pairs
  BY <1>1, WalkTypes, StepsAre
<1>3. W(g)[i + 1] = Ref!Compose(W(g)[i], S1(g))
  BY WalksGrow
<1>4. PICK r, s : r = W(g)[i] /\ s = S1(g)
  OBVIOUS
<1>5. <<u, v>> \in Ref!Compose(r, s) <=> \E m \in Vertex : <<u, m>> \in r /\ <<m, v>> \in s
  BY <1>2, <1>4, ComposeIs
<1> QED
  BY <1>3, <1>4, <1>5

\* A path is a shorter path followed by the rest, wherever it is split.
LEMMA WalksConcat ==
    ASSUME NEW g \in Graphs, NEW i \in 1..K, NEW j \in 1..K, i + j <= K,
           NEW u \in Vertex, NEW v \in Vertex
    PROVE  <<u, v>> \in W(g)[i + j] <=> \E m \in Vertex : <<u, m>> \in W(g)[i] /\ <<m, v>> \in W(g)[j]
<1> DEFINE Splits(k) == \A x, y \in Vertex :
               <<x, y>> \in W(g)[i + k] <=> \E m \in Vertex : <<x, m>> \in W(g)[i] /\ <<m, y>> \in W(g)[k]
           P == {k \in Nat : i + k + 1 <= K => Splits(k + 1)}
<1>1. K \in Nat /\ i \in Nat /\ j \in Nat /\ W(g)[1] = S1(g)
  BY DiameterAssumption, WalksGrow
<1>2. 0 \in P
  <2>1. ASSUME i + 1 <= K PROVE Splits(1)
    <3>1. i \in 1..(K - 1)
      BY <1>1, <2>1
    <3> TAKE x, y \in Vertex
    <3>2. <<x, y>> \in W(g)[i + 1] <=> \E m \in Vertex : <<x, m>> \in W(g)[i] /\ <<m, y>> \in S1(g)
      BY <3>1, WalksStep
    <3> QED
      BY <1>1, <3>2
  <2> HIDE DEF Splits
  <2>2. 0 + 1 = 1 /\ i + 0 + 1 = i + 1
    BY <1>1
  <2> QED
    BY <2>1, <2>2
<1>3. ASSUME NEW k \in P PROVE k + 1 \in P
  <2> SUFFICES ASSUME i + (k + 1) + 1 <= K PROVE Splits(k + 1 + 1)
    OBVIOUS
  <2>1. PICK l, d : l = k + 1 /\ d = i + l
    OBVIOUS
  <2>2. l \in 1..(K - 1) /\ d \in 1..(K - 1) /\ i + (l + 1) = d + 1
    BY <1>1, <2>1
  <2>3. Splits(l)
    <3>1. i + k + 1 <= K /\ k \in Nat
      BY <1>1, <1>3
    <3> HIDE DEF Splits
    <3> QED
      BY <1>3, <2>1, <3>1
  <2>4. \A x, y \in Vertex : <<x, y>> \in W(g)[d + 1] <=> \E m \in Vertex : <<x, m>> \in W(g)[d] /\ <<m, y>> \in S1(g)
    BY <2>2, WalksStep
  <2>5. \A x, y \in Vertex : <<x, y>> \in W(g)[l + 1] <=> \E m \in Vertex : <<x, m>> \in W(g)[l] /\ <<m, y>> \in S1(g)
    BY <2>2, WalksStep
  <2>6. \A x, y \in Vertex :
            <<x, y>> \in W(g)[d + 1] <=> \E m \in Vertex : <<x, m>> \in W(g)[i] /\ <<m, y>> \in W(g)[l + 1]
    <3> TAKE x, y \in Vertex
    <3>1. ASSUME NEW m \in Vertex, <<x, m>> \in W(g)[d], <<m, y>> \in S1(g)
          PROVE  \E a \in Vertex : <<x, a>> \in W(g)[i] /\ <<a, y>> \in W(g)[l + 1]
      BY <2>1, <2>3, <2>5, <3>1
    <3>2. ASSUME NEW a \in Vertex, <<x, a>> \in W(g)[i], <<a, y>> \in W(g)[l + 1]
          PROVE  \E m \in Vertex : <<x, m>> \in W(g)[d] /\ <<m, y>> \in S1(g)
      BY <2>1, <2>3, <2>5, <3>2
    <3> QED
      BY <2>4, <3>1, <3>2
  <2> QED
    BY <2>1, <2>2, <2>6
<1> HIDE DEF Splits
<1>4. P \in SUBSET Nat
  OBVIOUS
<1> HIDE DEF P
<1>5. P = Nat
  BY <1>2, <1>3, <1>4, NatInd
<1>6. PICK k : k = j - 1
  OBVIOUS
<1>7. k \in Nat /\ k + 1 = j /\ i + k + 1 <= K
  BY <1>1, <1>6
<1>8. Splits(j)
  BY <1>5, <1>7 DEF P
<1> QED
  BY <1>8 DEF Splits

\* A path ends with a step, which can be taken back.
LEMMA LastStep ==
    ASSUME NEW g \in Graphs, NEW i \in 1..K, NEW u \in Vertex, NEW v \in Vertex, <<u, v>> \in W(g)[i]
    PROVE  \E m \in Vertex : <<m, v>> \in S1(g) /\ <<v, m>> \in S1(g)
<1>1. \E m \in Vertex : <<m, v>> \in S1(g)
  <2>1. CASE i = 1
    BY <2>1, WalksGrow
  <2>2. CASE i # 1
    <3>1. PICK j : j = i - 1
      OBVIOUS
    <3>2. j \in 1..(K - 1) /\ j + 1 = i
      BY <2>2, <3>1, DiameterAssumption
    <3> QED
      BY <3>2, WalksStep
  <2> QED
    BY <2>1, <2>2
<1> QED
  BY <1>1, StepsAre

\* What is connected by a path is connected by one of two more edges.
LEMMA WalksBack ==
    ASSUME NEW g \in Graphs, NEW i \in 1..K, i + 2 <= K, NEW p \in W(g)[i]
    PROVE  p \in W(g)[i + 2]
<1>1. p \in Pairs
  BY WalkTypes
<1>2. PICK u \in Vertex, v \in Vertex : p = <<u, v>>
  BY <1>1 DEF Pairs
<1>3. PICK m \in Vertex : <<m, v>> \in S1(g) /\ <<v, m>> \in S1(g)
  BY <1>2, LastStep
<1>4. PICK j : j = i + 1
  OBVIOUS
<1>5. i \in 1..(K - 1) /\ j \in 1..(K - 1) /\ j + 1 = i + 2
  BY <1>4, DiameterAssumption
<1>6. <<u, m>> \in W(g)[j]
  BY <1>2, <1>3, <1>4, <1>5, WalksStep
<1>7. <<u, v>> \in W(g)[j + 1]
  BY <1>3, <1>5, <1>6, WalksStep
<1> QED
  BY <1>2, <1>5, <1>7

\* A graph with an edge has paths of every length, and one without has none.
LEMMA WalksExist ==
    ASSUME NEW g \in Graphs
    PROVE  /\ g # {} => \A i \in 1..K : W(g)[i] # {}
           /\ g = {} => W(g)[1] = {}
<1>1. g = {} => W(g)[1] = {}
  BY WalksGrow, StepsAre
<1>2. ASSUME g # {} PROVE \A i \in 1..K : W(g)[i] # {}
  <2> DEFINE P == {k \in Nat : k + 1 <= K => W(g)[k + 1] # {}}
  <2>1. 0 \in P
    BY <1>2, WalksGrow, StepsAre
  <2>2. ASSUME NEW k \in P PROVE k + 1 \in P
    <3> SUFFICES ASSUME k + 1 + 1 <= K PROVE W(g)[k + 1 + 1] # {}
      OBVIOUS
    <3>1. PICK l : l = k + 1
      OBVIOUS
    <3>2. l \in 1..(K - 1) /\ l \in 1..K /\ W(g)[l] # {}
      BY <2>2, <3>1, DiameterAssumption
    <3>3. PICK p : p \in W(g)[l]
      BY <3>2
    <3>4. p \in Pairs
      BY <3>2, <3>3, WalkTypes
    <3>5. PICK u \in Vertex, v \in Vertex : p = <<u, v>>
      BY <3>4 DEF Pairs
    <3>6. PICK m \in Vertex : <<v, m>> \in S1(g)
      BY <3>2, <3>3, <3>5, LastStep
    <3>7. <<u, m>> \in W(g)[l + 1]
      BY <3>2, <3>3, <3>5, <3>6, WalksStep
    <3> QED
      BY <3>1, <3>7
  <2>3. P \in SUBSET Nat
    OBVIOUS
  <2> HIDE DEF P
  <2>4. P = Nat
    BY <2>1, <2>2, <2>3, NatInd
  <2> TAKE i \in 1..K
  <2>5. PICK k : k = i - 1
    OBVIOUS
  <2>6. k \in Nat /\ k + 1 = i /\ i <= K
    BY <2>5, DiameterAssumption
  <2> QED
    BY <2>4, <2>6 DEF P
<1> QED
  BY <1>1, <1>2

-----------------------------------------------------------------------------
(* The order of the paths of a layer.                                      *)

\* The hash code of finitely many segments is a number.
LEMMA HashType ==
    ASSUME NEW S, IsFiniteSet(S), S \in SUBSET (Int \X Int)
    PROVE  SegmentHash(S) \in Int
<1> DEFINE step == [e \in S \X Int |-> (31 * e[1][1] + e[1][2]) + e[2]]
           E(i) == i = [s \in SUBSET S |->
                           IF s = {} THEN 0
                           ELSE (31 * (CHOOSE x \in s : TRUE)[1] + (CHOOSE x \in s : TRUE)[2])
                                    + i[s \ {CHOOSE x \in s : TRUE}]]
           sum == CHOOSE i : E(i)
<1>1. \A x \in S, v \in Int : step[<<x, v>>] = (31 * x[1] + x[2]) + v
  OBVIOUS
<1>2. step \in [S \X Int -> Int]
  <2>1. \A x \in S, v \in Int : (31 * x[1] + x[2]) + v \in Int
    OBVIOUS
  <2> QED
    BY <2>1
<1>3. \A s \in SUBSET S : s # {} => (CHOOSE x \in s : TRUE) \in S
  OBVIOUS
<1> HIDE DEF step
<1>4. PICK V, z : V = Int /\ z = 0
  OBVIOUS
<1>5. z \in V /\ step \in [S \X V -> V]
  BY <1>2, <1>4
<1>6. PICK it \in [SUBSET S -> V] : Folded(S, V, z, step, it)
  BY <1>5, FoldExists
<1>7. ASSUME NEW s \in SUBSET S
      PROVE  it[s] = IF s = {} THEN 0
                     ELSE (31 * (CHOOSE x \in s : TRUE)[1] + (CHOOSE x \in s : TRUE)[2])
                              + it[s \ {CHOOSE x \in s : TRUE}]
  <2>1. CASE s = {}
    BY <1>4, <1>6, <2>1 DEF Folded
  <2>2. CASE s # {}
    <3>1. PICK x : x = CHOOSE y \in s : TRUE
      OBVIOUS
    <3>2. x \in S /\ it[s \ {x}] \in V
      BY <1>3, <1>6, <2>2, <3>1
    <3>3. it[s] = step[<<x, it[s \ {x}]>>]
      BY <1>6, <2>2, <3>1, <3>2 DEF Folded
    <3> QED
      BY <1>1, <1>4, <2>2, <3>1, <3>2, <3>3
  <2> QED
    BY <2>1, <2>2
<1>8. E(it)
  BY <1>6, <1>7
<1> HIDE DEF E
<1>9. E(sum)
  BY <1>8
<1> USE DEF E
<1>10. SegmentHash(S) = sum[S]
  BY DEF SegmentHash, MapThenSumSet, MapThenFoldSet
<1> HIDE DEF sum
<1>11. sum[{}] = z
  <2>1. {} \in SUBSET S
    OBVIOUS
  <2> QED
    BY <1>4, <1>9, <2>1
<1>12. ASSUME NEW s \in (SUBSET S) \ {{}}, NEW x, x = CHOOSE y \in s : TRUE, sum[s \ {x}] \in V
       PROVE  sum[s] = step[<<x, sum[s \ {x}]>>]
  <2>1. sum[s] = (31 * x[1] + x[2]) + sum[s \ {x}]
    BY <1>9, <1>12
  <2>2. x \in S
    BY <1>3, <1>12
  <2>3. PICK v : v = sum[s \ {x}]
    OBVIOUS
  <2>4. v \in Int
    BY <1>4, <1>12, <2>3
  <2>5. step[<<x, v>>] = (31 * x[1] + x[2]) + v
    BY <1>1, <2>2, <2>4
  <2> QED
    BY <2>1, <2>3, <2>5
<1>13. Folded(S, V, z, step, sum)
  BY <1>11, <1>12 DEF Folded
<1>14. \A s \in SUBSET S : sum[s] \in V
  BY <1>5, <1>13, FoldStays
<1> QED
  BY <1>4, <1>10, <1>14

\* Pairs of ids are sequences of numbers.
LEMMA NumberPairs ==
    ASSUME NEW A \in SUBSET (Nat \X Nat)
    PROVE  A \in SUBSET (Int \X Int) /\ A \in SUBSET Seq(Int)
<1>1. ASSUME NEW x \in A PROVE x \in Int \X Int /\ x \in Seq(Int)
  <2>1. PICK a \in Nat, b \in Nat : x = <<a, b>>
    OBVIOUS
  <2>2. <<a, b>> \in Int \X Int /\ <<a, b>> \in Seq(Int)
    OBVIOUS
  <2> QED
    BY <2>1, <2>2
<1> QED
  BY <1>1

\* What sorting looks at is of its type.
Comparable(l) ==
    \A r \in PathsOf(l) :
        /\ r[2] \in Pairs
        /\ l = 1 => path[r].labels \in LabelSets
        /\ l # 1 => /\ path[r].segs \in SUBSET (Nat \X Nat) /\ IsFiniteSet(path[r].segs)
                    /\ path[r].anc # None => path[path[r].anc].id \in Nat

\* Paths compare by a key, their pair's flag for loops, and the pair; a new id starts where
\* the key or the flag changes.
LayerKeys(l, T, R, key) ==
    /\ Linear(T, R)
    /\ key \in [PathsOf(l) -> T]
    /\ \A a, b \in PathsOf(l) :
           /\ SortPaths(l, a, b) <=>
                  <<key[a], key[b]>> \in R \/ (key[a] = key[b] /\ SeqLess(PairKey(a), PairKey(b)))
           /\ StartsId(l, a, b) <=> key[a] # key[b] \/ IsLoop(a) # IsLoop(b)

\* The paths of the first layer are told apart by their labels.
LEMMA EdgeKeys ==
    ASSUME Comparable(1)
    PROVE  LayerKeys(1, LabelSets, SetOrder, [r \in PathsOf(1) |-> path[r].labels])
<1> DEFINE key == [r \in PathsOf(1) |-> path[r].labels]
<1>1. key \in [PathsOf(1) -> LabelSets]
  BY DEF Comparable
<1>2. \A A, B \in LabelSets : <<A, B>> \in SetOrder <=> SetLess(A, B)
  BY DEF SetOrder
<1>3. ASSUME NEW a \in PathsOf(1), NEW b \in PathsOf(1)
      PROVE  /\ SortPaths(1, a, b) <=>
                    <<key[a], key[b]>> \in SetOrder \/ (key[a] = key[b] /\ SeqLess(PairKey(a), PairKey(b)))
             /\ StartsId(1, a, b) <=> key[a] # key[b] \/ IsLoop(a) # IsLoop(b)
  <2>1. key[a] = path[a].labels /\ key[b] = path[b].labels /\ key[a] \in LabelSets /\ key[b] \in LabelSets
    BY <1>1
  <2>2. LabelsLess(a, b) <=> <<key[a], key[b]>> \in SetOrder
    BY <1>2, <2>1 DEF LabelsLess
  <2>3. SameLabels(a, b) <=> key[a] = key[b]
    BY <2>1 DEF SameLabels
  <2> HIDE DEF key
  <2> QED
    BY <2>2, <2>3 DEF SortPaths, StartsId
<1> QED
  BY <1>1, <1>3, SetLinear DEF LayerKeys

\* Those of the others by the hash code, the ancestor's id and the segments.
LEMMA PathKeys ==
    ASSUME NEW l, l # 1, Comparable(l)
    PROVE  LayerKeys(l, Seq(Int) \X LabelSets, Lex(Seq(Int), SeqOrder, LabelSets, SetOrder),
                     [r \in PathsOf(l) |-> <<SegmentKey(r), path[r].segs>>])
<1> DEFINE key == [r \in PathsOf(l) |-> <<SegmentKey(r), path[r].segs>>]
           T == Seq(Int) \X LabelSets
           R == Lex(Seq(Int), SeqOrder, LabelSets, SetOrder)
<1>1. Linear(T, R)
  BY SeqLinear, SetLinear, LexLinear
<1>2. ASSUME NEW r \in PathsOf(l) PROVE SegmentKey(r) \in Seq(Int) /\ path[r].segs \in LabelSets
  <2>1. /\ path[r].segs \in SUBSET (Nat \X Nat) /\ IsFiniteSet(path[r].segs)
        /\ path[r].anc # None => path[path[r].anc].id \in Nat
    BY <1>2 DEF Comparable
  <2>2. path[r].segs \in SUBSET (Int \X Int) /\ path[r].segs \in SUBSET Seq(Int)
    BY <2>1, NumberPairs
  <2>3. PICK h : h = SegmentHash(path[r].segs)
    OBVIOUS
  <2>4. h \in Int
    BY <2>1, <2>2, <2>3, HashType
  <2>5. SegmentKey(r) = <<h>> \o (IF path[r].anc = None THEN <<1, 0>> ELSE <<0, path[path[r].anc].id>>)
    BY <2>3 DEF SegmentKey
  <2>6. SegmentKey(r) \in Seq(Int)
    BY <2>1, <2>4, <2>5
  <2> QED
    BY <2>1, <2>2, <2>6 DEF LabelSets
<1>3. key \in [PathsOf(l) -> T]
  BY <1>2
<1>4. \A s, t \in Seq(Int) : <<s, t>> \in SeqOrder <=> SeqLess(s, t)
  BY DEF SeqOrder
<1>5. \A A, B \in LabelSets : <<A, B>> \in SetOrder <=> SetLess(A, B)
  BY DEF SetOrder
<1>6. ASSUME NEW a \in PathsOf(l), NEW b \in PathsOf(l)
      PROVE  /\ SortPaths(l, a, b) <=>
                    <<key[a], key[b]>> \in R \/ (key[a] = key[b] /\ SeqLess(PairKey(a), PairKey(b)))
             /\ StartsId(l, a, b) <=> key[a] # key[b] \/ IsLoop(a) # IsLoop(b)
  <2>1. PICK s, t, A, B : s = SegmentKey(a) /\ t = SegmentKey(b) /\ A = path[a].segs /\ B = path[b].segs
    OBVIOUS
  <2>2. s \in Seq(Int) /\ t \in Seq(Int) /\ A \in LabelSets /\ B \in LabelSets
    BY <1>2, <2>1
  <2>3. key[a] = <<s, A>> /\ key[b] = <<t, B>>
    BY <2>1
  <2>4. <<<<s, A>>, <<t, B>>>> \in R <=> SeqLess(s, t) \/ (s = t /\ SetLess(A, B))
    BY <1>4, <1>5, <2>2 DEF Lex
  <2>5. SegmentsLess(a, b) <=> <<key[a], key[b]>> \in R
    BY <2>1, <2>3, <2>4 DEF SegmentsLess
  <2>6. SameSegments(a, b) <=> key[a] = key[b]
    BY <2>1, <2>3 DEF SameSegments
  <2> HIDE DEF key, R
  <2> QED
    BY <2>5, <2>6 DEF SortPaths, StartsId
<1> QED
  BY <1>1, <1>3, <1>6 DEF LayerKeys
LayerOrder(l) == {e \in PathsOf(l) \X PathsOf(l) : SortPaths(l, e[1], e[2])}

\* The pair orders the paths that have one key, those of loops last.
LEMMA PairKeys ==
    ASSUME NEW p \in Pairs, NEW q \in Pairs, NEW l
    PROVE  /\ PairKey(<<l, p>>) \in Seq(Int)
           /\ PairKey(<<l, p>>) = PairKey(<<l, q>>) => p = q
           /\ SeqLess(PairKey(<<l, p>>), PairKey(<<l, q>>)) /\ IsLoop(<<l, p>>) => IsLoop(<<l, q>>)
<1>1. PICK a \in Vertex, b \in Vertex, c \in Vertex, d \in Vertex : p = <<a, b>> /\ q = <<c, d>>
  BY DEF Pairs
<1>2. a \in Int /\ b \in Int /\ c \in Int /\ d \in Int
  BY GraphAssumption
<1>3. PICK x, y : x = (IF a = b THEN 1 ELSE 0) /\ y = (IF c = d THEN 1 ELSE 0)
  OBVIOUS
<1>4. x \in Int /\ y \in Int
  BY <1>3
<1>5. /\ PairKey(<<l, p>>) = <<x, a, b>> /\ PairKey(<<l, q>>) = <<y, c, d>>
      /\ (IsLoop(<<l, p>>) <=> x = 1) /\ (IsLoop(<<l, q>>) <=> y = 1)
  BY <1>1, <1>3 DEF PairKey, IsLoop
<1>6. <<x, a, b>> \in Seq(Int)
  BY <1>2, <1>4
<1>7. <<x, a, b>> = <<y, c, d>> => p = q
  BY <1>1
<1>8. ASSUME SeqLess(<<x, a, b>>, <<y, c, d>>) PROVE x = 1 => y = 1
  <2>1. PICK i \in 1..3 : /\ <<x, a, b>>[i] < <<y, c, d>>[i]
                          /\ \A j \in 1..(i - 1) : <<x, a, b>>[j] = <<y, c, d>>[j]
    BY <1>8 DEF SeqLess
  <2>2. CASE i = 1
    BY <1>3, <2>1, <2>2
  <2>3. CASE i # 1
    <3>1. 1 \in 1..(i - 1)
      BY <2>3
    <3>2. <<x, a, b>>[1] = <<y, c, d>>[1]
      BY <2>1, <3>1
    <3> QED
      BY <3>2
  <2> QED
    BY <2>2, <2>3
<1> QED
  BY <1>5, <1>6, <1>7, <1>8

\* The paths of a layer are ordered in a line, because no two have one pair.
LEMMA LayerLinear ==
    ASSUME NEW l, NEW T, NEW R, NEW key, LayerKeys(l, T, R, key), PathsOf(l) \in SUBSET ({l} \X Pairs)
    PROVE  Linear(PathsOf(l), LayerOrder(l))
<1> DEFINE S == PathsOf(l)
           full == [r \in S |-> <<key[r], PairKey(r)>>]
           U == T \X Seq(Int)
           Q == Lex(T, R, Seq(Int), SeqOrder)
<1>1. \A r \in S : \E p \in Pairs : r = <<l, p>>
  OBVIOUS
<1>2. Linear(T, R) /\ key \in [S -> T]
  BY DEF LayerKeys
<1>3. \A r \in S : PairKey(r) \in Seq(Int)
  BY <1>1, PairKeys
<1>4. full \in [S -> U]
  BY <1>2, <1>3
<1>5. \A a, b \in S : full[a] = full[b] => a = b
  <2> SUFFICES ASSUME NEW a \in S, NEW b \in S, PairKey(a) = PairKey(b) PROVE a = b
    OBVIOUS
  <2>1. PICK p \in Pairs, q \in Pairs : a = <<l, p>> /\ b = <<l, q>>
    BY <1>1
  <2> QED
    BY <2>1, PairKeys
<1>6. Linear(U, Q)
  BY <1>2, SeqLinear, LexLinear
<1>7. ASSUME NEW a \in S, NEW b \in S
      PROVE  SortPaths(l, a, b) <=> <<full[a], full[b]>> \in Q
  <2>1. PICK x, y, s, t : x = key[a] /\ y = key[b] /\ s = PairKey(a) /\ t = PairKey(b)
    OBVIOUS
  <2>2. x \in T /\ y \in T /\ s \in Seq(Int) /\ t \in Seq(Int)
    BY <1>2, <1>3, <2>1
  <2>3. <<<<x, s>>, <<y, t>>>> \in Q <=> <<x, y>> \in R \/ (x = y /\ SeqLess(s, t))
    BY <2>2 DEF Lex, SeqOrder
  <2>4. SortPaths(l, a, b) <=> <<x, y>> \in R \/ (x = y /\ SeqLess(s, t))
    BY <2>1 DEF LayerKeys
  <2>5. full[a] = <<x, s>> /\ full[b] = <<y, t>>
    BY <2>1
  <2> QED
    BY <2>3, <2>4, <2>5
<1> HIDE DEF full, U, Q
<1>8. Linear(S, {e \in S \X S : <<full[e[1]], full[e[2]]>> \in Q})
  BY <1>4, <1>5, <1>6, PullBack
<1>9. LayerOrder(l) = {e \in S \X S : <<full[e[1]], full[e[2]]>> \in Q}
  BY <1>7 DEF LayerOrder
<1> QED
  BY <1>8, <1>9

\* What is sorted between two paths of one key and flag has them as well.
LEMMA Between ==
    ASSUME NEW l, NEW T, NEW R, NEW key, LayerKeys(l, T, R, key), PathsOf(l) \in SUBSET ({l} \X Pairs),
           NEW a \in PathsOf(l), NEW c \in PathsOf(l), NEW b \in PathsOf(l),
           a = c \/ SortPaths(l, a, c), c = b \/ SortPaths(l, c, b),
           key[a] = key[b], IsLoop(a) = IsLoop(b)
    PROVE  key[c] = key[a] /\ IsLoop(c) = IsLoop(a)
<1>1. \A r \in PathsOf(l) : \E p \in Pairs : r = <<l, p>>
  OBVIOUS
<1>2. /\ Linear(T, R) /\ key[a] \in T /\ key[b] \in T /\ key[c] \in T
      /\ a = c \/ <<key[a], key[c]>> \in R \/ (key[a] = key[c] /\ SeqLess(PairKey(a), PairKey(c)))
      /\ c = b \/ <<key[c], key[b]>> \in R \/ (key[c] = key[b] /\ SeqLess(PairKey(c), PairKey(b)))
  BY DEF LayerKeys
<1>3. PICK x, y, z : x = key[a] /\ y = key[c] /\ z = key[b]
  OBVIOUS
<1>4. y = x
  <2>1. x \in T /\ y \in T /\ x = z /\ (x = y \/ <<x, y>> \in R) /\ (y = x \/ <<y, x>> \in R)
    BY <1>2, <1>3
  <2> QED
    BY <1>2, <2>1 DEF Linear
<1>5. <<key[a], key[c]>> \notin R /\ <<key[c], key[b]>> \notin R
  BY <1>2, <1>3, <1>4 DEF Linear
<1>6. IsLoop(a) => IsLoop(c)
  BY <1>1, <1>2, <1>5, PairKeys
<1>7. IsLoop(c) => IsLoop(b)
  BY <1>1, <1>2, <1>5, PairKeys
<1>8. IsLoop(a) \in BOOLEAN /\ IsLoop(c) \in BOOLEAN
  BY DEF IsLoop
<1> QED
  BY <1>3, <1>4, <1>6, <1>7, <1>8

\* How many starts there are up to a place grows with the places that are starts.
LEMMA Counting ==
    ASSUME NEW B, NEW i \in Nat, NEW j \in Nat, i <= j
    PROVE  /\ Cardinality({m \in 2..i : m \in B}) \in Nat
           /\ Cardinality({m \in 2..i : m \in B}) <= Cardinality({m \in 2..j : m \in B})
           /\ Cardinality({m \in 2..i : m \in B}) = Cardinality({m \in 2..j : m \in B})
                  <=> \A m \in (i + 1)..j : 2 <= m => m \notin B
<1> DEFINE S == {m \in 2..i : m \in B}
           U == {m \in 2..j : m \in B}
<1>1. IsFiniteSet(2..j)
  <2>1. \A a, b \in Int : IsFiniteSet(a..b)
    BY FS_Interval
  <2>2. PICK t : t = 2
    OBVIOUS
  <2> QED
    BY <2>1, <2>2
<1>2. U \in SUBSET (2..j) /\ S \in SUBSET U
  OBVIOUS
<1>3. IsFiniteSet(U) /\ IsFiniteSet(S)
  BY <1>1, <1>2, FS_Subset
<1>4. S = U <=> \A m \in (i + 1)..j : 2 <= m => m \notin B
  <2>1. \A m \in Int : m \in 2..j /\ m \notin 2..i <=> m \in (i + 1)..j /\ 2 <= m
    OBVIOUS
  <2>2. (2..j) \in SUBSET Int /\ ((i + 1)..j) \in SUBSET Int
    OBVIOUS
  <2> QED
    BY <2>1, <2>2
<1> HIDE DEF S, U
<1>5. S # U => Cardinality(S) < Cardinality(U)
  BY <1>2, <1>3, ProperSubset
<1>6. Cardinality(S) \in Nat /\ Cardinality(U) \in Nat
  BY <1>3, FS_CardinalityType
<1>7. Cardinality(S) <= Cardinality(U) /\ (Cardinality(S) = Cardinality(U) <=> S = U)
  BY <1>5, <1>6
<1> QED
  BY <1>4, <1>6, <1>7 DEF S, U

\* The paths of a layer in order, and the id that the i-th of them gets.
Order(l) == InOrder(PathsOf(l), LayerOrder(l))
Starts(l) == {j \in Nat : StartsId(l, Order(l)[j], Order(l)[j - 1])}
NewId(l, first, i) == first + Cardinality({j \in 2..i : j \in Starts(l)})

\* Sorting and numbering neighbours gives two paths one id exactly if they have one key, and
\* both or neither are loops; ids do not fall along the order.
LEMMA Numbering ==
    ASSUME NEW l, NEW T, NEW R, NEW key, LayerKeys(l, T, R, key),
           PathsOf(l) \in SUBSET ({l} \X Pairs), IsFiniteSet(PathsOf(l)), NEW first \in Nat,
           NEW i \in 1..Cardinality(PathsOf(l)), NEW j \in 1..Cardinality(PathsOf(l)), i <= j
    PROVE  /\ NewId(l, first, i) \in Nat
           /\ first <= NewId(l, first, i) /\ NewId(l, first, i) <= NewId(l, first, j)
           /\ NewId(l, first, i) = NewId(l, first, j) <=>
                  key[Order(l)[i]] = key[Order(l)[j]] /\ IsLoop(Order(l)[i]) = IsLoop(Order(l)[j])
<1> DEFINE S == PathsOf(l)
           n == Cardinality(S)
           s == Order(l)
           C(k) == Cardinality({m \in 2..k : m \in Starts(l)})
           Like(a, b) == key[a] = key[b] /\ IsLoop(a) = IsLoop(b)
<1>1. Linear(S, LayerOrder(l))
  BY LayerLinear
<1>2. /\ n \in Nat /\ s \in [1..n -> S]
      /\ \A x, y \in 1..n : x < y <=> <<s[x], s[y]>> \in LayerOrder(l)
  BY <1>1, InOrderIs DEF Order
<1>3. /\ C(i) \in Nat /\ C(j) \in Nat /\ C(i) <= C(j)
      /\ C(i) = C(j) <=> \A m \in (i + 1)..j : 2 <= m => m \notin Starts(l)
  <2>1. i \in Nat /\ j \in Nat /\ j <= j
    BY <1>2
  <2>2. C(i) \in Nat /\ C(i) <= C(j)
    BY <2>1, Counting
  <2>3. C(j) \in Nat
    BY <2>1, Counting
  <2>4. C(i) = C(j) <=> \A m \in (i + 1)..j : 2 <= m => m \notin Starts(l)
    BY <2>1, Counting
  <2> QED
    BY <2>2, <2>3, <2>4
<1>4. \A x, y \in S : StartsId(l, x, y) <=> ~Like(x, y)
  BY DEF LayerKeys
<1>5. \A x, y, z \in 1..n : x <= y /\ y <= z /\ Like(s[x], s[z]) => Like(s[y], s[x])
  <2> TAKE x, y, z \in 1..n
  <2> HAVE x <= y /\ y <= z /\ Like(s[x], s[z])
  <2>1. s[x] \in S /\ s[y] \in S /\ s[z] \in S
    BY <1>2
  <2>2. \A v, w \in 1..n : v <= w => s[v] = s[w] \/ SortPaths(l, s[v], s[w])
    <3> TAKE v, w \in 1..n
    <3>1. v < w => <<s[v], s[w]>> \in LayerOrder(l)
      BY <1>2
    <3> QED
      BY <1>2, <3>1 DEF LayerOrder
  <2>3. PICK a, b, c : a = s[x] /\ c = s[y] /\ b = s[z]
    OBVIOUS
  <2>4. (a = c \/ SortPaths(l, a, c)) /\ (c = b \/ SortPaths(l, c, b))
    BY <2>2, <2>3
  <2> QED
    BY <2>1, <2>3, <2>4, Between
<1>6. \A m \in (i + 1)..j : m \in Nat /\ 2 <= m /\ m \in 1..n /\ m - 1 \in 1..n /\ i <= m - 1 /\ m - 1 <= m /\ m <= j
  BY <1>2
<1>7. \A m \in (i + 1)..j : m \in Starts(l) <=> ~Like(s[m], s[m - 1])
  <2> TAKE m \in (i + 1)..j
  <2>1. m \in Starts(l) <=> StartsId(l, s[m], s[m - 1])
    BY <1>6 DEF Starts
  <2>2. s[m] \in S /\ s[m - 1] \in S
    BY <1>2, <1>6
  <2> QED
    BY <1>4, <2>1, <2>2
<1> HIDE DEF s, n, S
<1>8. ASSUME Like(s[i], s[j]) PROVE \A m \in (i + 1)..j : m \notin Starts(l)
  <2> TAKE m \in (i + 1)..j
  <2>1. Like(s[m], s[i])
    BY <1>5, <1>6, <1>8 DEF n, S
  <2>2. PICK k : k = m - 1
    OBVIOUS
  <2>3. k \in 1..n /\ i <= k /\ k <= j
    BY <1>6, <2>2 DEF n, S
  <2>4. Like(s[k], s[i])
    BY <1>5, <1>8, <2>3 DEF n, S
  <2> QED
    BY <1>7, <2>1, <2>2, <2>4
<1>9. ASSUME \A m \in (i + 1)..j : m \notin Starts(l) PROVE Like(s[i], s[j])
  <2> DEFINE D == {m \in (i + 1)..j : ~Like(s[m], s[i])}
  <2>1. ASSUME D # {} PROVE FALSE
    <3>1. D \in SUBSET Nat
      BY <1>6
    <3>2. PICK m \in D : \A k \in D : m <= k
      BY <2>1, <3>1, LeastNat
    <3>3. m \in (i + 1)..j /\ ~Like(s[m], s[i])
      BY <3>2
    <3>4. PICK k : k = m - 1
      OBVIOUS
    <3>5. k \in i..j /\ k < m
      BY <3>3, <3>4, <1>2 DEF n, S
    <3>6. Like(s[k], s[i])
      <4>1. k = i \/ k \in (i + 1)..j
        BY <3>5, <1>2
      <4>2. k \notin D
        BY <3>2, <3>3, <3>5
      <4> QED
        BY <4>1, <4>2
    <3>7. Like(s[m], s[k])
      BY <1>7, <1>9, <3>3, <3>4
    <3> QED
      BY <3>3, <3>6, <3>7
  <2>2. i = j \/ j \in (i + 1)..j
    BY <1>2
  <2>3. CASE i = j
    BY <2>3
  <2>4. CASE j \in (i + 1)..j
    BY <2>1, <2>4
  <2> QED
    BY <2>2, <2>3, <2>4
<1>10. C(i) = C(j) <=> Like(s[i], s[j])
  BY <1>3, <1>6, <1>8, <1>9
<1>11. NewId(l, first, i) = first + C(i) /\ NewId(l, first, j) = first + C(j)
  BY DEF NewId
<1>12. PICK x, y : x = C(i) /\ y = C(j)
  OBVIOUS
<1>13. first + x \in Nat /\ first <= first + x /\ first + x <= first + y /\ (first + x = first + y <=> x = y)
  BY <1>3, <1>12
<1> QED
  BY <1>10, <1>11, <1>12, <1>13 DEF s

\* What Sorted makes of a layer, with its definition expanded.
SortedLayer(l) ==
    [i \in 1..Cardinality(PathsOf(l)) |->
        CHOOSE x \in PathsOf(l) : Cardinality({y \in PathsOf(l) : SortPaths(l, y, x)}) = i - 1]

\* Where r is in s.
PlaceOf(s, r) == CHOOSE i \in DOMAIN s : s[i] = r

\* What Number does, without its local definitions.
LEMMA NumberLayerIs ==
    ASSUME NEW l, NEW first, NumberLayer(l, first)
    PROVE  /\ segments' = [segments EXCEPT ![l] = Order(l)]
           /\ path' = [r \in DOMAIN path |->
                  IF r[1] = l THEN [path[r] EXCEPT !.id = NewId(l, first, PlaceOf(Order(l), r))] ELSE path[r]]
           /\ lastId' = IF Order(l) = <<>> THEN first ELSE NewId(l, first, Len(Order(l)))
<1> DEFINE Id(s, i) == first + Cardinality({j \in 2..i : StartsId(l, s[j], s[j - 1])})
<1>1. /\ segments' = [segments EXCEPT ![l] = SortedLayer(l)]
      /\ path' = [r \in DOMAIN path |->
             IF r[1] = l THEN [path[r] EXCEPT !.id = Id(SortedLayer(l), PlaceOf(SortedLayer(l), r))] ELSE path[r]]
      /\ lastId' = IF SortedLayer(l) = <<>> THEN first ELSE Id(SortedLayer(l), Len(SortedLayer(l)))
  BY Zenon DEF NumberLayer, Sorted, SortedLayer, PlaceOf
<1>2. SortedLayer(l) = Order(l)
  <2>1. \A x \in PathsOf(l) : {y \in PathsOf(l) : SortPaths(l, y, x)} = {y \in PathsOf(l) : <<y, x>> \in LayerOrder(l)}
    BY DEF LayerOrder
  <2> DEFINE One(i) == CHOOSE x \in PathsOf(l) : Cardinality({y \in PathsOf(l) : SortPaths(l, y, x)}) = i - 1
             Two(i) == CHOOSE x \in PathsOf(l) : Cardinality({y \in PathsOf(l) : <<y, x>> \in LayerOrder(l)}) = i - 1
  <2>2. \A i : One(i) = Two(i)
    BY <2>1
  <2>3. SortedLayer(l) = [i \in 1..Cardinality(PathsOf(l)) |-> One(i)]
    BY Zenon DEF SortedLayer
  <2>4. Order(l) = [i \in 1..Cardinality(PathsOf(l)) |-> Two(i)]
    BY Zenon DEF Order, InOrder
  <2> HIDE DEF One, Two
  <2> QED
    BY <2>2, <2>3, <2>4
<1>3. \A i : Id(Order(l), i) = NewId(l, first, i)
  <2>1. \A i : {j \in 2..i : StartsId(l, Order(l)[j], Order(l)[j - 1])} = {j \in 2..i : j \in Starts(l)}
    <3>1. \A i : \A j \in 2..i : j \in Nat
      OBVIOUS
    <3> QED
      BY <3>1 DEF Starts
  <2> QED
    BY <2>1 DEF NewId
<1> HIDE DEF Id
<1> QED
  BY <1>1, <1>2, <1>3

-----------------------------------------------------------------------------
(* The label sequences of paths.                                           *)

\* The marked pairs of each length: a pair and the labels of one of its paths.
LW(g) == Ref!LabelWalks(g, K)
Marked == Pairs \X Seq(Int)
OneLabelled(g) == {<<<<s[1], s[3]>>, <<s[2]>>>> : s \in Ref!Steps(g)}
Longer(A, B) ==
    {<<<<x[1][1][1], x[2][1][2]>>, x[1][2] \o x[2][2]>> : x \in {y \in A \X B : y[1][1][2] = y[2][1][1]}}

\* t labels a step from u to v, or a path in A followed by one in B.
StepLabel(g, u, v, t) == \E s \in Ref!Steps(g) : s[1] = u /\ s[3] = v /\ t = <<s[2]>>
PathLabel(A, B, u, v, t) ==
    \E m \in Vertex, x, y \in Seq(Int) : <<<<u, m>>, x>> \in A /\ <<<<m, v>>, y>> \in B /\ t = x \o y

\* A finite graph has finitely many steps.
LEMMA StepTypes ==
    ASSUME NEW g \in Graphs
    PROVE  /\ \A s \in Ref!Steps(g) : s[1] \in Vertex /\ s[2] \in Int /\ s[3] \in Vertex
           /\ IsFiniteSet(Ref!Steps(g))
<1>1. IsFiniteSet(g) /\ \A e \in g : e[1] \in Vertex /\ e[2] \in Nat /\ e[3] \in Vertex
  BY GraphAssumption
<1>2. \A s \in Ref!Steps(g) : s[1] \in Vertex /\ s[2] \in Int /\ s[3] \in Vertex
  <2> TAKE s \in Ref!Steps(g)
  <2>1. CASE s \in g
    BY <1>1, <2>1
  <2>2. CASE s \notin g
    <3>1. PICK e \in g : s = <<e[3], Ref!Backward(e[2]), e[1]>>
      BY <2>2 DEF Ref!Steps
    <3>2. Ref!Backward(e[2]) \in Int
      BY <1>1 DEF Ref!Backward
    <3> QED
      BY <1>1, <3>1, <3>2
  <2> QED
    BY <2>1, <2>2
<1>3. PICK f : f = [e \in g |-> <<e[3], Ref!Backward(e[2]), e[1]>>]
  OBVIOUS
<1>4. IsFiniteSet({f[e] : e \in g})
  BY <1>1, ImageFinite
<1>5. Ref!Steps(g) = g \cup {f[e] : e \in g}
  BY <1>3 DEF Ref!Steps
<1> QED
  BY <1>1, <1>2, <1>4, <1>5, FS_Union

\* The label sequences of one edge.
LEMMA OneLabelledIs ==
    ASSUME NEW g \in Graphs
    PROVE  /\ OneLabelled(g) \in SUBSET Marked
           /\ \A u, v, t : <<<<u, v>>, t>> \in OneLabelled(g) <=> StepLabel(g, u, v, t)
<1>1. ASSUME NEW x \in OneLabelled(g) PROVE x \in Marked
  <2>1. PICK s \in Ref!Steps(g) : x = <<<<s[1], s[3]>>, <<s[2]>>>>
    BY DEF OneLabelled
  <2>2. <<s[2]>> \in Seq(Int) /\ <<s[1], s[3]>> \in Pairs
    BY StepTypes DEF Pairs
  <2> QED
    BY <2>1, <2>2 DEF Marked
<1>2. \A u, v, t : <<<<u, v>>, t>> \in OneLabelled(g) <=> StepLabel(g, u, v, t)
  BY DEF OneLabelled, StepLabel
<1> QED
  BY <1>1, <1>2

\* The label sequences of a path and one more edge.
LEMMA LongerIs ==
    ASSUME NEW A \in SUBSET Marked, NEW B \in SUBSET Marked
    PROVE  /\ Longer(A, B) \in SUBSET Marked
           /\ \A u, v \in Vertex : \A t :
                  <<<<u, v>>, t>> \in Longer(A, B) <=> PathLabel(A, B, u, v, t)
<1>1. ASSUME NEW z \in Longer(A, B)
      PROVE  \E u, m, v \in Vertex, x, y \in Seq(Int) :
                 z = <<<<u, v>>, x \o y>> /\ <<<<u, m>>, x>> \in A /\ <<<<m, v>>, y>> \in B
  <2>1. PICK a \in A, b \in B : a[1][2] = b[1][1] /\ z = <<<<a[1][1], b[1][2]>>, a[2] \o b[2]>>
    BY DEF Longer
  <2>2. PICK p \in Pairs, x \in Seq(Int), q \in Pairs, y \in Seq(Int) : a = <<p, x>> /\ b = <<q, y>>
    BY DEF Marked
  <2>3. PICK u \in Vertex, m \in Vertex, n \in Vertex, v \in Vertex : p = <<u, m>> /\ q = <<n, v>>
    BY DEF Pairs
  <2>4. n = m /\ z = <<<<u, v>>, x \o y>>
    BY <2>1, <2>2, <2>3
  <2> QED
    BY <2>2, <2>3, <2>4
<1>2. ASSUME NEW u \in Vertex, NEW m \in Vertex, NEW v \in Vertex, NEW x \in Seq(Int), NEW y \in Seq(Int),
             <<<<u, m>>, x>> \in A, <<<<m, v>>, y>> \in B
      PROVE  <<<<u, v>>, x \o y>> \in Longer(A, B)
  <2>1. PICK a, b : a = <<<<u, m>>, x>> /\ b = <<<<m, v>>, y>>
    OBVIOUS
  <2>2. <<a, b>> \in {c \in A \X B : c[1][1][2] = c[2][1][1]}
    BY <1>2, <2>1
  <2>3. PICK c : c = <<a, b>>
    OBVIOUS
  <2>4. <<<<u, v>>, x \o y>> = <<<<c[1][1][1], c[2][1][2]>>, c[1][2] \o c[2][2]>>
    BY <2>1, <2>3
  <2> QED
    BY <2>2, <2>3, <2>4 DEF Longer
<1>3. Longer(A, B) \in SUBSET Marked
  <2>1. ASSUME NEW z \in Longer(A, B) PROVE z \in Marked
    <3>1. PICK u \in Vertex, m \in Vertex, v \in Vertex, x \in Seq(Int), y \in Seq(Int) :
              z = <<<<u, v>>, x \o y>> /\ <<<<u, m>>, x>> \in A /\ <<<<m, v>>, y>> \in B
      BY <1>1
    <3>2. x \o y \in Seq(Int) /\ <<u, v>> \in Pairs
      BY DEF Pairs
    <3> QED
      BY <3>1, <3>2 DEF Marked
  <2> QED
    BY <2>1
<1>4. ASSUME NEW u \in Vertex, NEW v \in Vertex, NEW t, <<<<u, v>>, t>> \in Longer(A, B)
      PROVE  \E m \in Vertex, x, y \in Seq(Int) :
                 <<<<u, m>>, x>> \in A /\ <<<<m, v>>, y>> \in B /\ t = x \o y
  <2>1. PICK a \in Vertex, m \in Vertex, b \in Vertex, x \in Seq(Int), y \in Seq(Int) :
            /\ <<<<u, v>>, t>> = <<<<a, b>>, x \o y>>
            /\ <<<<a, m>>, x>> \in A /\ <<<<m, b>>, y>> \in B
    BY <1>1, <1>4
  <2>2. u = a /\ v = b /\ t = x \o y
    BY <2>1
  <2> QED
    BY <2>1, <2>2
<1>5. ASSUME NEW u \in Vertex, NEW v \in Vertex, NEW t,
             \E m \in Vertex, x, y \in Seq(Int) :
                 <<<<u, m>>, x>> \in A /\ <<<<m, v>>, y>> \in B /\ t = x \o y
      PROVE  <<<<u, v>>, t>> \in Longer(A, B)
  <2>1. PICK m \in Vertex, x \in Seq(Int), y \in Seq(Int) :
            <<<<u, m>>, x>> \in A /\ <<<<m, v>>, y>> \in B /\ t = x \o y
    BY <1>5
  <2> QED
    BY <1>2, <2>1
<1> DEFINE In(u, v, t) == <<<<u, v>>, t>> \in Longer(A, B)
<1>6. \A u, v \in Vertex : \A t : In(u, v, t) => PathLabel(A, B, u, v, t)
  BY <1>4 DEF PathLabel
<1>7. \A u, v \in Vertex : \A t : PathLabel(A, B, u, v, t) => In(u, v, t)
  BY <1>5 DEF PathLabel
<1>8. \A u, v \in Vertex : \A t : In(u, v, t) <=> PathLabel(A, B, u, v, t)
  <2> HIDE DEF In
  <2> QED
    BY <1>6, <1>7
<1> QED
  BY Zenon, <1>3, <1>8

\* The label sequences of each length are made of those of the length before.
LEMMA LabelsGrow ==
    ASSUME NEW g \in Graphs
    PROVE  /\ LW(g) \in Seq(SUBSET Marked) /\ Len(LW(g)) = K
           /\ LW(g)[1] = OneLabelled(g)
           /\ \A i \in 1..(K - 1) : LW(g)[i + 1] = Longer(LW(g)[i], OneLabelled(g))
<1> DEFINE T == SUBSET Marked
           D == Begun(T, K)
           step == [q \in D |-> Longer(q[Len(q)], OneLabelled(g))]
           Solves(f) == f = [i \in 1..K |-> IF i = 1 THEN <<OneLabelled(g)>>
                                ELSE Append(f[i - 1], Longer(f[i - 1][Len(f[i - 1])], OneLabelled(g)))]
           h == CHOOSE f : Solves(f)
<1>1. K \in Nat \ {0} /\ OneLabelled(g) \in T
  BY DiameterAssumption, OneLabelledIs
<1>2. step \in [D -> T]
  <2>1. ASSUME NEW q \in D PROVE Longer(q[Len(q)], OneLabelled(g)) \in T
    <3>1. Len(q) \in 1..Len(q) /\ q \in Seq(T)
      BY DEF Begun
    <3>2. q[Len(q)] \in T
      BY <3>1
    <3> QED
      BY <1>1, <3>2, LongerIs
  <2> QED
    BY <2>1
<1>3. \A q \in D : step[q] = Longer(q[Len(q)], OneLabelled(g))
  OBVIOUS
<1> HIDE DEF step
<1>4. PICK e : DOMAIN e = 1..K /\ Grown(K, T, OneLabelled(g), step, e)
  BY <1>1, <1>2, GrownExists
<1>5. \A i \in 1..(K - 1) : e[i] \in D
  BY <1>1, <1>2, <1>4, GrownIs
<1>6. PICK f : f = [i \in 1..K |-> e[i]]
  OBVIOUS
<1>7. Solves(f)
  <2>1. f[1] = <<OneLabelled(g)>>
    BY <1>1, <1>4, <1>6 DEF Grown
  <2>2. ASSUME NEW i \in 1..K, i # 1
        PROVE  f[i] = Append(f[i - 1], Longer(f[i - 1][Len(f[i - 1])], OneLabelled(g)))
    <3>1. PICK j : j = i - 1
      OBVIOUS
    <3>2. j \in 1..(K - 1) /\ j + 1 = i /\ j \in 1..K
      BY <1>1, <2>2, <3>1
    <3>3. f[j] = e[j] /\ f[i] = e[i]
      BY <1>6, <3>2
    <3>4. e[j + 1] = Append(e[j], step[e[j]]) /\ e[j] \in D
      BY <1>4, <1>5, <3>2 DEF Grown
    <3>5. step[e[j]] = Longer(e[j][Len(e[j])], OneLabelled(g))
      BY <1>3, <3>4
    <3> QED
      BY <3>1, <3>2, <3>3, <3>4, <3>5
  <2> QED
    BY <1>6, <2>1, <2>2
<1>8. Solves(h)
  BY <1>7
<1>9. LW(g) = h[K]
  BY DEF LW, OneLabelled, Longer, Ref!LabelWalks, Ref!Grow
<1> HIDE DEF h, T
<1>10. Grown(K, T, OneLabelled(g), step, h)
  <2>1. h[1] = <<OneLabelled(g)>>
    BY <1>1, <1>8
  <2>2. ASSUME NEW i \in 1..(K - 1), h[i] \in D
        PROVE  h[i + 1] = Append(h[i], step[h[i]])
    <3>1. PICK j : j = i + 1
      OBVIOUS
    <3>2. j \in 1..K /\ j # 1 /\ j - 1 = i
      BY <1>1, <3>1
    <3>3. h[j] = Append(h[i], Longer(h[i][Len(h[i])], OneLabelled(g)))
      BY <1>8, <3>2
    <3> QED
      BY <1>3, <2>2, <3>1, <3>3
  <2> QED
    BY <2>1, <2>2 DEF Grown
<1>11. /\ \A i \in 1..K : h[i] \in Seq(T) /\ Len(h[i]) = i
       /\ h[K][1] = OneLabelled(g)
       /\ \A i \in 1..(K - 1) :
              /\ h[i] \in D /\ \A j \in 1..i : h[i][j] = h[K][j]
              /\ h[K][i + 1] = step[h[i]]
  BY <1>1, <1>2, <1>10, GrownIs
<1>12. ASSUME NEW i \in 1..(K - 1) PROVE LW(g)[i + 1] = Longer(LW(g)[i], OneLabelled(g))
  <2>1. h[i] \in D /\ h[K][i + 1] = step[h[i]] /\ Len(h[i]) = i /\ i \in 1..i /\ h[i][i] = h[K][i]
    <3>1. i \in 1..K /\ i \in 1..i
      BY <1>1
    <3> QED
      BY <1>11, <3>1
  <2> QED
    BY <1>3, <1>9, <2>1
<1>13. h[K] \in Seq(T) /\ Len(h[K]) = K
  <2>1. K \in 1..K
    BY <1>1
  <2> QED
    BY <1>11, <2>1
<1> QED
  BY <1>9, <1>11, <1>12, <1>13 DEF T

\* Marked pairs are pairs of vertices with a sequence of numbers.
LEMMA LabelTypes ==
    ASSUME NEW g \in Graphs, NEW i \in 1..K
    PROVE  LW(g)[i] \in SUBSET Marked
BY LabelsGrow

\* A step has its label.
LEMMA LabelsFirst ==
    ASSUME NEW g \in Graphs, NEW u, NEW v, NEW t
    PROVE  <<<<u, v>>, t>> \in LW(g)[1] <=> StepLabel(g, u, v, t)
<1>1. LW(g)[1] = OneLabelled(g)
  BY LabelsGrow
<1> QED
  BY Zenon, <1>1, OneLabelledIs

\* A longer path has the labels of a shorter one and of its last edge.
LEMMA LabelsStep ==
    ASSUME NEW g \in Graphs, NEW i \in 1..(K - 1), NEW u \in Vertex, NEW v \in Vertex, NEW t
    PROVE  <<<<u, v>>, t>> \in LW(g)[i + 1] <=> PathLabel(LW(g)[i], LW(g)[1], u, v, t)
<1>1. LW(g)[1] = OneLabelled(g) /\ LW(g)[i + 1] = Longer(LW(g)[i], OneLabelled(g))
  BY LabelsGrow
<1>2. i \in 1..K /\ 1 \in 1..K
  BY DiameterAssumption
<1>3. PICK A, B : A = LW(g)[i] /\ B = LW(g)[1]
  OBVIOUS
<1>4. A \in SUBSET Marked /\ B \in SUBSET Marked
  BY <1>2, <1>3, LabelTypes
<1>5. <<<<u, v>>, t>> \in Longer(A, B) <=> PathLabel(A, B, u, v, t)
  BY Zenon, <1>4, LongerIs
<1> QED
  BY Zenon, <1>1, <1>3, <1>5

\* The pairs that have a label sequence of a length are those connected by a path of it.
LEMMA WalksLabelled ==
    ASSUME NEW g \in Graphs, NEW i \in 1..K, NEW u \in Vertex, NEW v \in Vertex
    PROVE  <<u, v>> \in W(g)[i] <=> \E t \in Seq(Int) : <<<<u, v>>, t>> \in LW(g)[i]
<1> DEFINE Good(k) == \A x, y \in Vertex : <<x, y>> \in W(g)[k] <=> \E t \in Seq(Int) : <<<<x, y>>, t>> \in LW(g)[k]
           P == {k \in Nat : k + 1 <= K => Good(k + 1)}
<1>1. K \in Nat \ {0} /\ 1 \in 1..K
  BY DiameterAssumption
<1>2. Good(1)
  <2> TAKE x, y \in Vertex
  <2>1. \A t : <<<<x, y>>, t>> \in LW(g)[1] <=> StepLabel(g, x, y, t)
    BY Zenon, LabelsFirst
  <2>2. <<x, y>> \in W(g)[1] <=> \E s \in Ref!Steps(g) : s[1] = x /\ s[3] = y
    BY WalksGrow DEF S1, Ref!OneStep
  <2>3. \A s \in Ref!Steps(g) : <<s[2]>> \in Seq(Int)
    BY StepTypes
  <2> QED
    BY <2>1, <2>2, <2>3 DEF StepLabel
<1> HIDE DEF Good
<1>3. 0 \in P
  <2>1. 0 + 1 = 1
    OBVIOUS
  <2> QED
    BY <1>2, <2>1
<1>4. ASSUME NEW k \in P PROVE k + 1 \in P
  <2> SUFFICES ASSUME k + 1 + 1 <= K PROVE Good(k + 1 + 1)
    OBVIOUS
  <2>1. PICK l : l = k + 1
    OBVIOUS
  <2>2. l \in 1..K /\ l < K /\ l \in 1..(K - 1) /\ Good(l)
    BY <1>1, <1>4, <2>1
  <2>3. Good(l + 1)
    <3> SUFFICES ASSUME NEW x \in Vertex, NEW y \in Vertex
                 PROVE  <<x, y>> \in W(g)[l + 1] <=> \E t \in Seq(Int) : <<<<x, y>>, t>> \in LW(g)[l + 1]
      BY DEF Good
    <3>1. <<x, y>> \in W(g)[l + 1] <=> \E m \in Vertex : <<x, m>> \in W(g)[l] /\ <<m, y>> \in S1(g)
      BY <2>2, WalksStep
    <3>2. S1(g) = W(g)[1]
      BY WalksGrow
    <3>3. \A t : <<<<x, y>>, t>> \in LW(g)[l + 1] <=> PathLabel(LW(g)[l], LW(g)[1], x, y, t)
      BY Zenon, <2>2, LabelsStep
    <3>4. ASSUME NEW m \in Vertex, <<x, m>> \in W(g)[l], <<m, y>> \in W(g)[1]
          PROVE  \E t \in Seq(Int) : <<<<x, y>>, t>> \in LW(g)[l + 1]
      <4>1. PICK a \in Seq(Int) : <<<<x, m>>, a>> \in LW(g)[l]
        BY <2>2, <3>4 DEF Good
      <4>2. PICK b \in Seq(Int) : <<<<m, y>>, b>> \in LW(g)[1]
        BY <1>2, <3>4 DEF Good
      <4>3. PICK t : t = a \o b
        OBVIOUS
      <4>4. t \in Seq(Int)
        BY <4>3
      <4> QED
        BY <3>3, <4>1, <4>2, <4>3, <4>4 DEF PathLabel
    <3>5. ASSUME NEW t \in Seq(Int), <<<<x, y>>, t>> \in LW(g)[l + 1]
          PROVE  \E m \in Vertex : <<x, m>> \in W(g)[l] /\ <<m, y>> \in W(g)[1]
      BY <1>2, <2>2, <3>3, <3>5 DEF Good, PathLabel
    <3> QED
      BY <3>1, <3>2, <3>4, <3>5
  <2> QED
    BY <2>1, <2>3
<1>5. P \in SUBSET Nat
  OBVIOUS
<1> HIDE DEF P
<1>6. P = Nat
  BY <1>3, <1>4, <1>5, NatInd
<1>7. PICK k : k = i - 1
  OBVIOUS
<1>8. k \in Nat /\ k + 1 = i /\ i <= K
  BY <1>1, <1>7
<1>9. Good(i)
  BY <1>6, <1>8 DEF P
<1> QED
  BY <1>9 DEF Good

-----------------------------------------------------------------------------
(* What is known of the paths while layers are made and numbered.          *)

\* The layers whose paths are there, and those that are sorted and numbered.
Made ==
    IF pc = "edges" THEN 0
    ELSE IF pc = "join" /\ split = layer - 1 THEN layer - 1
    ELSE IF pc = "join" \/ pc = "number" THEN layer ELSE K
Numbered ==
    IF pc = "edges" THEN 0 ELSE IF pc = "join" \/ pc = "number" THEN layer - 1 ELSE K

\* The lengths of the first parts that the paths of layer l have been joined from.
Joined(l) == IF pc = "join" /\ l = layer THEN (split + 1)..(l - 1) ELSE 1..(l - 1)

\* a names the last path of p made before layer l, if there is one.
IsLast(l, p, a) ==
    \/ a = None /\ \A j \in 1..(l - 1) : p \notin W(graph)[j]
    \/ \E m \in 1..(l - 1) :
           a = <<m, p>> /\ p \in W(graph)[m] /\ \A j \in (m + 1)..(l - 1) : p \notin W(graph)[j]

\* s are the ids of two parts that p was joined from, the first of them of length j.
PartSegment(l, p, j, s) ==
    \E m \in Vertex :
        /\ <<p[1], m>> \in W(graph)[j] /\ <<m, p[2]>> \in W(graph)[l - j]
        /\ s = <<path[<<j, <<p[1], m>>>>].id, path[<<l - j, <<m, p[2]>>>>].id>>
HasSegment(l, p, s) == \E j \in Joined(l) : PartSegment(l, p, j, s)

\* The label sequences of the paths of length l of p.
LabelsOf(l, p) == {w[2] : w \in {w \in LW(graph)[l] : w[1] = p}}

\* What a labelled path is.
PathRecord ==
    [anc : ((1..K) \X Pairs) \cup {None}, segs : SUBSET (Nat \X Nat), labels : SUBSET Seq(Int), id : Int]

\* The two have one ancestor id, or neither has an ancestor.
SameAncestor(a, b) ==
    /\ path[a].anc = None <=> path[b].anc = None
    /\ path[a].anc # None => path[path[a].anc].id = path[path[b].anc].id

\* What the numbering of a layer looks at does not tell a and b apart.
Alike(a, b) ==
    /\ IsLoop(a) = IsLoop(b)
    /\ IF a[1] = 1 THEN path[a].labels = path[b].labels
       ELSE path[a].segs = path[b].segs /\ SameAncestor(a, b)

\* s holds all of S, each once, by their ids in f.
InLine(s, S, f) ==
    /\ s \in [1..Cardinality(S) -> S]
    /\ \A r \in S : \E i \in 1..Cardinality(S) : s[i] = r
    /\ \A i, j \in 1..Cardinality(S) : s[i] = s[j] => i = j
    /\ \A i, j \in 1..Cardinality(S) : i <= j => f[s[i]].id <= f[s[j]].id

\* Where the construction is.
Control ==
    /\ graph \in Graphs
    /\ pc \in {"edges", "number", "join", "blocks", "remaining", "built", "failed"}
    /\ layer \in 1..K /\ split \in 0..(K - 1) /\ lastId \in Nat
    /\ pc = "edges" => layer = 1
    /\ pc = "join" => split \in 1..(layer - 1)
    /\ pc \in {"remaining", "built"} => layer = K

\* What is known of the paths, of the ids, and of the sorted layers.
PathsThere == DOMAIN path = {r \in (1..Made) \X Pairs : r[2] \in W(graph)[r[1]]}
PathsTyped == \A r \in DOMAIN path : path[r] \in PathRecord
AncestorsRight == \A r \in DOMAIN path : IsLast(r[1], r[2], path[r].anc)
HistoryRight ==
    /\ \A l \in 1..Made : W(graph)[l] \subseteq DOMAIN history
    /\ \A p \in DOMAIN history : history[p] # None /\ IsLast(Made + 1, p, history[p])
SegmentsRight == \A r \in DOMAIN path : \A s : s \in path[r].segs <=> HasSegment(r[1], r[2], s)
LabelsRight ==
    \A r \in DOMAIN path :
        path[r].labels = IF r[1] = 1 \/ ComputeLabels THEN LabelsOf(r[1], r[2]) ELSE {}
IdsGiven == \A r \in DOMAIN path : IF r[1] <= Numbered THEN path[r].id \in 1..lastId ELSE path[r].id = -1
IdsRise ==
    \A a, b \in DOMAIN path : a[1] < b[1] /\ b[1] <= Numbered => path[a].id < path[b].id
IdsAlike ==
    \A a, b \in DOMAIN path :
        a[1] = b[1] /\ a[1] <= Numbered => (path[a].id = path[b].id <=> Alike(a, b))
SequencesRight ==
    /\ DOMAIN segments = 1..K
    /\ \A l \in 1..Numbered : InLine(segments[l], PathsOf(l), path)
    /\ \A l \in (Numbered + 1)..K : segments[l] = <<>>

\* The inductive invariant of partition.
PathInv ==
    /\ Control /\ PathsThere /\ PathsTyped
    /\ AncestorsRight /\ HistoryRight /\ SegmentsRight /\ LabelsRight
    /\ IdsGiven /\ IdsRise /\ IdsAlike /\ SequencesRight

-----------------------------------------------------------------------------
(* The initial state and the steps that leave the paths alone.             *)

\* There are finitely many pairs.
LEMMA PairsFinite == IsFiniteSet(Pairs)
BY GraphAssumption, FS_Product DEF Pairs

\* The paths of a layer, which no other path mentions.
LEMMA LayerPaths ==
    ASSUME PathsThere, Control, NEW l
    PROVE  /\ Made \in 0..K
           /\ \A r : r \in PathsOf(l) <=> l \in 1..Made /\ \E p \in W(graph)[l] : r = <<l, p>>
           /\ PathsOf(l) \in SUBSET ({l} \X Pairs) /\ IsFiniteSet(PathsOf(l))
<1>1. Made \in 0..K /\ K \in Nat
  BY DiameterAssumption DEF Made, Control
<1>2. ASSUME NEW r \in PathsOf(l) PROVE l \in 1..Made /\ r \in {l} \X Pairs /\ r[2] \in W(graph)[l] /\ r = <<l, r[2]>>
  <2>1. r \in (1..Made) \X Pairs /\ r[2] \in W(graph)[r[1]] /\ r[1] = l
    BY <1>2 DEF PathsOf, PathsThere
  <2> QED
    BY <2>1
<1>3. ASSUME l \in 1..Made, NEW p \in W(graph)[l] PROVE <<l, p>> \in PathsOf(l)
  <2>1. l \in 1..K /\ graph \in Graphs
    BY <1>1, <1>3 DEF Control
  <2>2. p \in Pairs
    BY <1>3, <2>1, WalkTypes
  <2> QED
    BY <1>3, <2>2 DEF PathsOf, PathsThere
<1>4. PathsOf(l) \in SUBSET ({l} \X Pairs)
  BY <1>2
<1>5. IsFiniteSet({l} \X Pairs)
  BY PairsFinite, FS_Singleton, FS_Product
<1> QED
  BY <1>1, <1>2, <1>3, <1>4, <1>5, FS_Subset

\* Nothing is there at first.
LEMMA PathStart == Init => PathInv
<1> SUFFICES ASSUME Init PROVE PathInv
  OBVIOUS
<1>1. /\ graph \in Graphs /\ pc = "edges" /\ layer = 1 /\ split = 0 /\ path = <<>> /\ history = <<>>
      /\ lastId = 0 /\ segments = [l \in 1..K |-> <<>>]
  BY DEF Init
<1>2. Made = 0 /\ Numbered = 0
  BY <1>1 DEF Made, Numbered
<1>3. DOMAIN path = {} /\ DOMAIN history = {}
  BY <1>1
<1>4. Control
  BY <1>1, DiameterAssumption DEF Control
<1>5. PathsThere
  BY <1>2, <1>3 DEF PathsThere
<1>6. SequencesRight
  BY <1>1, <1>2 DEF SequencesRight
<1>7. HistoryRight
  BY <1>2, <1>3 DEF HistoryRight
<1> QED
  BY <1>3, <1>4, <1>5, <1>6, <1>7
     DEF PathInv, PathsTyped, AncestorsRight, SegmentsRight, LabelsRight, IdsGiven, IdsRise, IdsAlike

\* Nothing but the place in the computation changes.
LEMMA PathKept ==
    ASSUME PathInv, Control', UNCHANGED partitionVars, Made' = Made, Numbered' = Numbered,
           \A l \in 1..Made : Joined(l)' = Joined(l)
    PROVE  PathInv'
<1>1. graph' = graph /\ path' = path /\ segments' = segments /\ history' = history /\ lastId' = lastId
  BY DEF partitionVars
<1>2. PathsThere' /\ PathsTyped' /\ AncestorsRight' /\ HistoryRight' /\ LabelsRight'
  BY <1>1 DEF PathInv, PathsThere, PathsTyped, AncestorsRight, HistoryRight, LabelsRight, IsLast, LabelsOf
<1>3. IdsGiven' /\ IdsRise' /\ IdsAlike' /\ SequencesRight'
  <2>1. IdsGiven' /\ IdsRise'
    BY <1>1 DEF PathInv, IdsGiven, IdsRise
  <2>2. \A a, b : Alike(a, b)' <=> Alike(a, b)
    BY <1>1 DEF Alike, SameAncestor
  <2>3. IdsAlike'
    BY <1>1, <2>2 DEF PathInv, IdsAlike
  <2>4. \A l : PathsOf(l)' = PathsOf(l) /\ InLine(segments[l], PathsOf(l), path)' = InLine(segments[l], PathsOf(l), path)
    BY <1>1 DEF PathsOf, InLine
  <2>5. SequencesRight'
    BY <1>1, <2>4 DEF PathInv, SequencesRight
  <2> QED
    BY <2>1, <2>3, <2>5
<1>4. SegmentsRight'
  <2>1. \A r \in DOMAIN path : r[1] \in 1..Made
    BY DEF PathInv, PathsThere
  <2>2. \A r \in DOMAIN path : \A s : HasSegment(r[1], r[2], s)' <=> HasSegment(r[1], r[2], s)
    BY <1>1, <2>1 DEF HasSegment, PartSegment
  <2> QED
    BY <1>1, <2>2 DEF PathInv, SegmentsRight
<1> QED
  BY <1>2, <1>3, <1>4 DEF PathInv

-----------------------------------------------------------------------------
(* The edges.                                                              *)

\* What CollectEdges does, in the words of the reference definitions.
LEMMA CollectIs ==
    ASSUME Control, CollectEdges
    PROVE  /\ pc = "edges" /\ pc' = "number" /\ layer = 1
           /\ path' = [r \in {1} \X S1(graph) |->
                  [anc |-> None, segs |-> {}, labels |-> LabelsOf(1, r[2]), id |-> -1]]
           /\ history' = [p \in S1(graph) |-> <<1, p>>]
           /\ UNCHANGED <<graph, layer, split, segments, lastId>>
<1>1. EdgeSteps = Ref!Steps(graph)
  BY DEF EdgeSteps, Ref!Steps, Backward, Ref!Backward
<1>2. {<<s[1], s[3]>> : s \in EdgeSteps} = S1(graph)
  BY <1>1 DEF S1, Ref!OneStep
<1> DEFINE Labels(p) == {<<s[2]>> : s \in {t \in EdgeSteps : <<t[1], t[3]>> = p}}
<1>3. \A p \in S1(graph) : Labels(p) = LabelsOf(1, p)
  <2> TAKE p \in S1(graph)
  <2>1. graph \in Graphs /\ p \in Pairs
    BY StepsAre DEF Control
  <2>2. PICK u \in Vertex, v \in Vertex : p = <<u, v>>
    BY <2>1 DEF Pairs
  <2>3. \A t : <<<<u, v>>, t>> \in LW(graph)[1] <=> StepLabel(graph, u, v, t)
    BY Zenon, <2>1, LabelsFirst
  <2>4. \A t : t \in Labels(p) <=> StepLabel(graph, u, v, t)
    BY <1>1, <2>2 DEF StepLabel
  <2>5. LW(graph)[1] \in SUBSET Marked
    <3>1. 1 \in 1..K
      BY DiameterAssumption
    <3> QED
      BY <2>1, <3>1, LabelTypes
  <2>6. \A t : t \in LabelsOf(1, p) <=> <<<<u, v>>, t>> \in LW(graph)[1]
    <3>1. \A t : <<<<u, v>>, t>>[1] = p /\ <<<<u, v>>, t>>[2] = t
      BY <2>2
    <3>2. ASSUME NEW w \in LW(graph)[1], w[1] = p PROVE w = <<<<u, v>>, w[2]>>
      BY <2>2, <2>5, <3>2 DEF Marked
    <3> QED
      BY <3>1, <3>2 DEF LabelsOf
  <2> HIDE DEF Labels
  <2> QED
    BY <2>3, <2>4, <2>6
<1>4. /\ pc = "edges" /\ pc' = "number"
      /\ path' = [r \in {1} \X {<<s[1], s[3]>> : s \in EdgeSteps} |-> [NewPath(None) EXCEPT !.labels = Labels(r[2])]]
      /\ history' = [p \in {<<s[1], s[3]>> : s \in EdgeSteps} |-> <<1, p>>]
      /\ UNCHANGED <<graph, layer, split, segments, lastId>>
  BY Zenon DEF CollectEdges
<1>5. layer = 1
  BY <1>4 DEF Control
<1> HIDE DEF Labels
<1>6. \A r \in {1} \X S1(graph) :
          [NewPath(None) EXCEPT !.labels = Labels(r[2])]
              = [anc |-> None, segs |-> {}, labels |-> LabelsOf(1, r[2]), id |-> -1]
  BY <1>3 DEF NewPath
<1> QED
  BY <1>2, <1>4, <1>5, <1>6

\* The paths of the first layer are right.
LEMMA CollectKeeps ==
    ASSUME PathInv, CollectEdges
    PROVE  PathInv'
<1>1. /\ pc = "edges" /\ pc' = "number" /\ layer = 1
      /\ path' = [r \in {1} \X S1(graph) |->
             [anc |-> None, segs |-> {}, labels |-> LabelsOf(1, r[2]), id |-> -1]]
      /\ history' = [p \in S1(graph) |-> <<1, p>>]
      /\ UNCHANGED <<graph, layer, split, segments, lastId>>
  BY CollectIs DEF PathInv
<1>2. Made' = 1 /\ Numbered' = 0 /\ Numbered = 0 /\ Made = 0
  BY <1>1 DEF Made, Numbered
<1>3. K \in Nat \ {0} /\ graph \in Graphs /\ W(graph)[1] = S1(graph) /\ S1(graph) \in SUBSET Pairs
  BY DiameterAssumption, WalksGrow, StepsAre DEF PathInv, Control
<1>4. Control'
  BY <1>1 DEF PathInv, Control
<1>5. DOMAIN path' = {1} \X S1(graph) /\ DOMAIN history' = S1(graph) /\ graph' = graph
  BY <1>1
<1>6. \A r \in DOMAIN path' :
          /\ r[1] = 1 /\ r[2] \in S1(graph)
          /\ path'[r].anc = None /\ path'[r].segs = {} /\ path'[r].id = -1
          /\ path'[r].labels = LabelsOf(1, r[2])
          /\ path'[r] = [anc |-> None, segs |-> {}, labels |-> LabelsOf(1, r[2]), id |-> -1]
  BY <1>1
<1>7. PathsThere'
  BY <1>2, <1>3, <1>5 DEF PathsThere
<1>8. PathsTyped'
  <2>1. \A p \in S1(graph) : LabelsOf(1, p) \in SUBSET Seq(Int)
    <3>1. 1 \in 1..K
      BY <1>3
    <3>2. LW(graph)[1] \in SUBSET Marked
      BY <1>3, <3>1, LabelTypes
    <3> QED
      BY <3>2 DEF LabelsOf, Marked
  <2>2. \A p \in S1(graph) : [anc |-> None, segs |-> {}, labels |-> LabelsOf(1, p), id |-> -1] \in PathRecord
    BY <2>1 DEF PathRecord
  <2> QED
    BY <1>6, <2>2 DEF PathsTyped
<1>9. AncestorsRight'
  BY <1>6 DEF AncestorsRight, IsLast
<1>10. HistoryRight'
  <2>1. \A p \in S1(graph) : <<1, p>> # None /\ IsLast(2, p, <<1, p>>)'
    <3> TAKE p \in S1(graph)
    <3>1. <<1, p>> # None
      BY <1>3, NoneAssumption DEF Pairs
    <3>2. 1 \in 1..(2 - 1) /\ (1 + 1)..(2 - 1) = {}
      OBVIOUS
    <3> QED
      BY <1>3, <1>5, <3>1, <3>2 DEF IsLast
  <2>2. Made' + 1 = 2
    BY <1>2
  <2>3. \A l \in 1..Made' : W(graph)[l] = S1(graph)
    BY <1>2, <1>3
  <2>4. \A p \in S1(graph) : history'[p] = <<1, p>>
    BY <1>1
  <2> QED
    BY <1>5, <2>1, <2>2, <2>3, <2>4 DEF HistoryRight
<1>11. SegmentsRight'
  <2>1. \A p, s : ~HasSegment(1, p, s)'
    BY <1>1 DEF HasSegment, PartSegment, Joined
  <2> QED
    BY <1>6, <2>1 DEF SegmentsRight
<1>12. LabelsRight'
  BY <1>5, <1>6 DEF LabelsRight, LabelsOf
<1>13. IdsGiven' /\ IdsRise' /\ IdsAlike'
  BY <1>2, <1>6 DEF IdsGiven, IdsRise, IdsAlike
<1>14. SequencesRight'
  BY <1>1, <1>2 DEF PathInv, SequencesRight
<1> QED
  BY <1>4, <1>7, <1>8, <1>9, <1>10, <1>11, <1>12, <1>13, <1>14 DEF PathInv

-----------------------------------------------------------------------------
(* Numbering a layer.                                                      *)

\* The paths that a path was made of are in numbered layers.
LEMMA PartsThere ==
    ASSUME PathInv, NEW r \in DOMAIN path
    PROVE  /\ r[1] \in 1..Made /\ Made <= Numbered + 1 /\ Made \in 0..K /\ Numbered \in 0..K
           /\ \A s \in path[r].segs : s \in (1..lastId) \X (1..lastId)
           /\ IsFiniteSet(path[r].segs)
           /\ path[r].anc # None =>
                  path[r].anc \in DOMAIN path /\ path[r].anc[1] < r[1] /\ path[path[r].anc].id \in 1..lastId
<1>1. Control /\ PathsThere /\ AncestorsRight /\ SegmentsRight /\ IdsGiven /\ K \in Nat \ {0} /\ graph \in Graphs
  BY DiameterAssumption DEF PathInv, Control
<1>2. Made <= Numbered + 1 /\ Made \in 0..K /\ Numbered \in 0..K
  BY <1>1 DEF Control, Made, Numbered
<1>3. r[1] \in 1..Made /\ r[2] \in Pairs /\ r[2] \in W(graph)[r[1]]
  BY <1>1 DEF PathsThere
<1>4. \A j \in 1..(r[1] - 1) : \A p \in W(graph)[j] :
          <<j, p>> \in DOMAIN path /\ <<j, p>>[1] < r[1] /\ path[<<j, p>>].id \in 1..lastId
  <2> SUFFICES ASSUME NEW j \in 1..(r[1] - 1), NEW p \in W(graph)[j]
               PROVE  <<j, p>> \in DOMAIN path /\ <<j, p>>[1] < r[1] /\ path[<<j, p>>].id \in 1..lastId
    OBVIOUS
  <2>1. j \in 1..Made /\ j <= Numbered /\ j \in 1..K /\ j < r[1]
    BY <1>1, <1>2, <1>3
  <2>2. p \in Pairs
    BY <1>1, <2>1, WalkTypes
  <2>3. <<j, p>> \in DOMAIN path
    BY <1>1, <2>1, <2>2 DEF PathsThere
  <2> QED
    BY <1>1, <2>1, <2>3 DEF IdsGiven
<1>5. \A s \in path[r].segs : s \in (1..lastId) \X (1..lastId)
  <2> TAKE s \in path[r].segs
  <2>0. HasSegment(r[1], r[2], s)
    BY <1>1 DEF SegmentsRight
  <2>1. PICK j \in Joined(r[1]), m \in Vertex :
            /\ <<r[2][1], m>> \in W(graph)[j] /\ <<m, r[2][2]>> \in W(graph)[r[1] - j]
            /\ s = <<path[<<j, <<r[2][1], m>>>>].id, path[<<r[1] - j, <<m, r[2][2]>>>>].id>>
    BY <2>0 DEF HasSegment, PartSegment
  <2>2. r[1] \in 1..Made /\ j \in 1..(r[1] - 1) /\ r[1] - j \in 1..(r[1] - 1)
    BY <1>1, <1>2, <1>3, <2>1 DEF Joined, Control
  <2> QED
    BY <1>4, <2>1, <2>2
<1>6. IsFiniteSet(path[r].segs)
  <2>1. PICK n : n = lastId
    OBVIOUS
  <2>2. n \in Nat
    BY <1>1, <2>1 DEF Control
  <2>3. IsFiniteSet(1..n)
    <3>1. \A a, b \in Int : IsFiniteSet(a..b)
      BY FS_Interval
    <3>2. PICK o : o = 1
      OBVIOUS
    <3> QED
      BY <2>2, <3>1, <3>2
  <2>4. IsFiniteSet((1..n) \X (1..n))
    BY <2>3, FS_Product
  <2>5. path[r].segs \subseteq (1..n) \X (1..n)
    BY <1>5, <2>1
  <2> QED
    BY <2>4, <2>5, FS_Subset
<1>7. ASSUME path[r].anc # None
      PROVE  path[r].anc \in DOMAIN path /\ path[r].anc[1] < r[1] /\ path[path[r].anc].id \in 1..lastId
  <2>1. PICK m \in 1..(r[1] - 1) : path[r].anc = <<m, r[2]>> /\ r[2] \in W(graph)[m]
    BY <1>1, <1>7 DEF AncestorsRight, IsLast
  <2> QED
    BY <1>4, <2>1
<1> QED
  BY <1>2, <1>3, <1>5, <1>6, <1>7

\* The labels of an edge are finitely many.
LEMMA EdgeLabelsFinite ==
    ASSUME graph \in Graphs, NEW p
    PROVE  IsFiniteSet(LabelsOf(1, p)) /\ LabelsOf(1, p) \in SUBSET Seq(Int)
<1>1. 1 \in 1..K
  BY DiameterAssumption
<1>2. LW(graph)[1] \in SUBSET Marked
  BY <1>1, LabelTypes
<1>3. PICK f : f = [s \in Ref!Steps(graph) |-> <<s[2]>>]
  OBVIOUS
<1>4. IsFiniteSet({f[s] : s \in Ref!Steps(graph)})
  BY StepTypes, ImageFinite
<1>5. LabelsOf(1, p) \subseteq {f[s] : s \in Ref!Steps(graph)}
  <2>1. ASSUME NEW t \in LabelsOf(1, p) PROVE t \in {f[s] : s \in Ref!Steps(graph)}
    <3>1. PICK w \in LW(graph)[1] : t = w[2]
      BY DEF LabelsOf
    <3>2. PICK u \in Vertex, v \in Vertex : w = <<<<u, v>>, t>>
      BY <1>2, <3>1 DEF Marked, Pairs
    <3>3. <<<<u, v>>, t>> \in LW(graph)[1]
      BY <3>1, <3>2
    <3>4. StepLabel(graph, u, v, t)
      BY Zenon, <3>3, LabelsFirst
    <3> QED
      BY <1>3, <3>4 DEF StepLabel
  <2> QED
    BY <2>1
<1>6. LabelsOf(1, p) \in SUBSET Seq(Int)
  BY <1>2 DEF LabelsOf, Marked
<1> QED
  BY <1>4, <1>5, <1>6, FS_Subset

\* A layer whose paths are all joined can be sorted, and two of its paths get one id exactly if
\* nothing but their pairs tells them apart.
LEMMA KeysThere ==
    ASSUME PathInv, NEW l \in 1..Made
    PROVE  \E T, R, key : /\ LayerKeys(l, T, R, key)
                          /\ \A a, b \in PathsOf(l) : key[a] = key[b] /\ IsLoop(a) = IsLoop(b) <=> Alike(a, b)
<1>1. Control /\ PathsThere /\ PathsTyped /\ LabelsRight /\ graph \in Graphs
  BY DEF PathInv, Control
<1>2. PathsOf(l) \in SUBSET ({l} \X Pairs)
  BY <1>1, LayerPaths
<1>3. \A r \in PathsOf(l) : r \in DOMAIN path /\ r[1] = l /\ r[2] \in Pairs
  BY <1>2 DEF PathsOf
<1>4. Comparable(l)
  <2> SUFFICES ASSUME NEW r \in PathsOf(l)
               PROVE  /\ r[2] \in Pairs
                      /\ l = 1 => path[r].labels \in LabelSets
                      /\ l # 1 => /\ path[r].segs \in SUBSET (Nat \X Nat) /\ IsFiniteSet(path[r].segs)
                                  /\ path[r].anc # None => path[path[r].anc].id \in Nat
    BY DEF Comparable
  <2>1. path[r] \in PathRecord
    BY <1>1, <1>3 DEF PathsTyped
  <2>2. l = 1 => path[r].labels \in LabelSets
    BY <1>1, <1>3, EdgeLabelsFinite DEF LabelsRight, LabelSets
  <2>3. path[r].segs \in SUBSET (Nat \X Nat)
    BY <2>1 DEF PathRecord
  <2>4. IsFiniteSet(path[r].segs) /\ (path[r].anc # None => path[path[r].anc].id \in 1..lastId)
    BY <1>3, PartsThere
  <2>5. lastId \in Nat
    BY <1>1 DEF Control
  <2> QED
    BY <1>3, <2>2, <2>3, <2>4, <2>5
<1>5. CASE l = 1
  <2>1. PICK key : key = [r \in PathsOf(1) |-> path[r].labels]
    OBVIOUS
  <2>2. LayerKeys(1, LabelSets, SetOrder, key)
    BY <1>4, <1>5, <2>1, EdgeKeys
  <2>3. \A a, b \in PathsOf(1) : key[a] = key[b] /\ IsLoop(a) = IsLoop(b) <=> Alike(a, b)
    BY <1>3, <1>5, <2>1 DEF Alike
  <2> QED
    BY <1>5, <2>2, <2>3
<1>6. CASE l # 1
  <2>1. PICK key : key = [r \in PathsOf(l) |-> <<SegmentKey(r), path[r].segs>>]
    OBVIOUS
  <2>2. LayerKeys(l, Seq(Int) \X LabelSets, Lex(Seq(Int), SeqOrder, LabelSets, SetOrder), key)
    BY <1>4, <1>6, <2>1, PathKeys
  <2>3. ASSUME NEW a \in PathsOf(l), NEW b \in PathsOf(l)
        PROVE  key[a] = key[b] <=> path[a].segs = path[b].segs /\ SameAncestor(a, b)
    <3>1. key[a] = key[b] <=> SegmentKey(a) = SegmentKey(b) /\ path[a].segs = path[b].segs
      BY <2>1
    <3>2. ASSUME path[a].segs = path[b].segs PROVE SegmentKey(a) = SegmentKey(b) <=> SameAncestor(a, b)
      <4>1. PICK h : h = SegmentHash(path[a].segs)
        OBVIOUS
      <4>2. PICK x, y : x = path[path[a].anc].id /\ y = path[path[b].anc].id
        OBVIOUS
      <4>3. SegmentKey(a) = IF path[a].anc = None THEN <<h, 1, 0>> ELSE <<h, 0, x>>
        BY <4>1, <4>2 DEF SegmentKey
      <4>4. SegmentKey(b) = IF path[b].anc = None THEN <<h, 1, 0>> ELSE <<h, 0, y>>
        BY <3>2, <4>1, <4>2 DEF SegmentKey
      <4>5. SameAncestor(a, b) <=> (path[a].anc = None <=> path[b].anc = None) /\ (path[a].anc # None => x = y)
        BY <4>2 DEF SameAncestor
      <4>6. <<h, 1, 0>> # <<h, 0, y>> /\ <<h, 0, x>> # <<h, 1, 0>> /\ (<<h, 0, x>> = <<h, 0, y>> <=> x = y)
        OBVIOUS
      <4> QED
        BY <4>3, <4>4, <4>5, <4>6
    <3> QED
      BY <3>1, <3>2
  <2>4. \A a, b \in PathsOf(l) : key[a] = key[b] /\ IsLoop(a) = IsLoop(b) <=> Alike(a, b)
    BY <1>3, <1>6, <2>3 DEF Alike
  <2> QED
    BY <2>2, <2>4
<1> QED
  BY <1>5, <1>6

\* What numbering does to the paths.
LEMMA NumberIs ==
    ASSUME PathInv, Number
    PROVE  /\ pc = "number" /\ DOMAIN path' = DOMAIN path
           /\ \A r \in DOMAIN path :
                  /\ path'[r].anc = path[r].anc /\ path'[r].segs = path[r].segs
                  /\ path'[r].labels = path[r].labels /\ path'[r] \in PathRecord
                  /\ r[1] # layer => path'[r] = path[r]
           /\ \A r \in PathsOf(layer) : path'[r].id \in (lastId + 1)..lastId'
           /\ lastId' \in Nat /\ lastId < lastId'
           /\ \A a, b \in PathsOf(layer) : path'[a].id = path'[b].id <=> Alike(a, b)
           /\ segments' = [segments EXCEPT ![layer] = Order(layer)]
           /\ InLine(Order(layer), PathsOf(layer), path')
<1> DEFINE S == PathsOf(layer)
           n == Cardinality(S)
           s == Order(layer)
           first == lastId + 1
           Id(i) == NewId(layer, first, i)
<1>1. Control /\ PathsThere /\ PathsTyped /\ K \in Nat \ {0}
  BY DiameterAssumption DEF PathInv
<1>2. pc = "number" /\ NumberLayer(layer, first)
  BY DEF Number
<1>3. layer \in 1..Made /\ lastId \in Nat /\ first \in Nat
  BY <1>1, <1>2 DEF Made, Control
<1>4. S \in SUBSET ({layer} \X Pairs) /\ IsFiniteSet(S)
  BY <1>1, LayerPaths
<1>5. PICK T, R, key :
          /\ LayerKeys(layer, T, R, key)
          /\ \A a, b \in S : key[a] = key[b] /\ IsLoop(a) = IsLoop(b) <=> Alike(a, b)
  BY <1>3, KeysThere
<1>6. Linear(S, LayerOrder(layer))
  BY <1>4, <1>5, LayerLinear
<1>7. /\ n \in Nat /\ s \in [1..n -> S]
      /\ \A x \in S : \E i \in 1..n : s[i] = x
      /\ \A i, j \in 1..n : s[i] = s[j] => i = j
  BY <1>4, <1>6, InOrderIs DEF Order
<1>8. \A i, j \in 1..n : i <= j =>
          /\ Id(i) \in Nat /\ first <= Id(i) /\ Id(i) <= Id(j)
          /\ Id(i) = Id(j) <=> Alike(s[i], s[j])
  <2> SUFFICES ASSUME NEW i \in 1..n, NEW j \in 1..n, i <= j
               PROVE  /\ Id(i) \in Nat /\ first <= Id(i) /\ Id(i) <= Id(j)
                      /\ Id(i) = Id(j) <=> Alike(s[i], s[j])
    OBVIOUS
  <2>1. Id(i) \in Nat /\ first <= Id(i) /\ Id(i) <= Id(j)
    BY <1>3, <1>4, <1>5, Numbering
  <2>2. Id(i) = Id(j) <=> key[s[i]] = key[s[j]] /\ IsLoop(s[i]) = IsLoop(s[j])
    BY <1>3, <1>4, <1>5, Numbering
  <2> QED
    BY <1>5, <1>7, <2>1, <2>2
<1>9. /\ segments' = [segments EXCEPT ![layer] = s]
      /\ path' = [r \in DOMAIN path |-> IF r[1] = layer THEN [path[r] EXCEPT !.id = Id(PlaceOf(s, r))] ELSE path[r]]
      /\ lastId' = IF s = <<>> THEN first ELSE Id(Len(s))
  BY <1>2, NumberLayerIs
<1> HIDE DEF s, n, Id, first
<1>10. \A r \in S : r \in DOMAIN path /\ r[1] = layer
  BY DEF PathsOf
<1>11. \A r \in S : PlaceOf(s, r) \in 1..n /\ s[PlaceOf(s, r)] = r
  BY <1>7 DEF PlaceOf
<1>12. \A r \in DOMAIN path :
           /\ path'[r].anc = path[r].anc /\ path'[r].segs = path[r].segs
           /\ path'[r].labels = path[r].labels /\ path'[r] \in PathRecord
           /\ r[1] # layer => path'[r] = path[r]
           /\ r[1] = layer => path'[r].id = Id(PlaceOf(s, r))
  <2> TAKE r \in DOMAIN path
  <2>1. path[r] \in PathRecord
    BY <1>1 DEF PathsTyped
  <2>2. path'[r] = IF r[1] = layer THEN [path[r] EXCEPT !.id = Id(PlaceOf(s, r))] ELSE path[r]
    BY <1>9
  <2>3. r[1] = layer => Id(PlaceOf(s, r)) \in Int
    <3>1. r[1] = layer => PlaceOf(s, r) \in 1..n
      BY <1>11 DEF PathsOf
    <3>2. \A i \in 1..n : i <= i
      BY <1>7
    <3> QED
      BY <1>8, <3>1, <3>2
  <2>4. PICK v : v = Id(PlaceOf(s, r))
    OBVIOUS
  <2> QED
    BY <2>1, <2>2, <2>3, <2>4 DEF PathRecord
<1>13. \A i, j \in 1..n : Id(i) = Id(j) <=> Alike(s[i], s[j])
  <2> TAKE i, j \in 1..n
  <2>1. i <= j \/ j <= i
    BY <1>7
  <2>2. Alike(s[i], s[j]) <=> Alike(s[j], s[i])
    <3>1. s[i] \in S /\ s[j] \in S
      BY <1>7
    <3> QED
      BY <1>5, <3>1
  <2> QED
    BY <1>8, <2>1, <2>2
<1>14. \A a, b \in S : path'[a].id = path'[b].id <=> Alike(a, b)
  BY <1>10, <1>11, <1>12, <1>13
<1>15. lastId' \in Nat /\ lastId < lastId' /\ \A i \in 1..n : Id(i) \in (lastId + 1)..lastId'
  <2>1. Len(s) = n /\ (s = <<>> <=> n = 0)
    BY <1>7
  <2>2. CASE n = 0
    <3>1. lastId' = lastId + 1
      BY <1>9, <2>1, <2>2 DEF first
    <3> QED
      BY <1>3, <2>2, <3>1
  <2>3. CASE n # 0
    <3>1. n \in 1..n /\ \A i \in 1..n : i <= n
      BY <1>7, <2>3
    <3>2. lastId' = Id(n)
      BY <1>9, <2>1, <2>3
    <3>3. \A i \in 1..n : Id(i) \in Nat /\ first <= Id(i) /\ Id(i) <= Id(n)
      BY <1>8, <3>1
    <3> QED
      BY <1>3, <3>1, <3>2, <3>3 DEF first
  <2> QED
    BY <2>2, <2>3
<1>16. \A r \in S : path'[r].id \in (lastId + 1)..lastId'
  BY <1>10, <1>11, <1>12, <1>15
<1>17. InLine(s, S, path')
  <2>1. \A i, j \in 1..n : i <= j => path'[s[i]].id <= path'[s[j]].id
    <3> SUFFICES ASSUME NEW i \in 1..n, NEW j \in 1..n, i <= j PROVE path'[s[i]].id <= path'[s[j]].id
      OBVIOUS
    <3>1. s[i] \in S /\ s[j] \in S
      BY <1>7
    <3>2. PlaceOf(s, s[i]) = i /\ PlaceOf(s, s[j]) = j
      BY <1>7, <1>11, <3>1
    <3>3. path'[s[i]].id = Id(i) /\ path'[s[j]].id = Id(j)
      BY <1>10, <1>12, <3>1, <3>2
    <3> QED
      BY <1>8, <3>3
  <2> QED
    BY <1>7, <2>1 DEF InLine, n
<1> QED
  BY <1>2, <1>9, <1>12, <1>14, <1>15, <1>16, <1>17 DEF s

\* A layer is numbered.
LEMMA NumberKeeps ==
    ASSUME PathInv, Number
    PROVE  PathInv'
<1>1. /\ pc = "number" /\ DOMAIN path' = DOMAIN path
      /\ \A r \in DOMAIN path :
             /\ path'[r].anc = path[r].anc /\ path'[r].segs = path[r].segs
             /\ path'[r].labels = path[r].labels /\ path'[r] \in PathRecord
             /\ r[1] # layer => path'[r] = path[r]
      /\ \A r \in PathsOf(layer) : path'[r].id \in (lastId + 1)..lastId'
      /\ lastId' \in Nat /\ lastId < lastId'
      /\ \A a, b \in PathsOf(layer) : path'[a].id = path'[b].id <=> Alike(a, b)
      /\ segments' = [segments EXCEPT ![layer] = Order(layer)]
      /\ InLine(Order(layer), PathsOf(layer), path')
  BY NumberIs
<1>2. /\ graph' = graph /\ history' = history
      /\ IF layer < K THEN pc' = "join" /\ layer' = layer + 1 /\ split' = layer
         ELSE pc' = "blocks" /\ layer' = 1 /\ split' = 0
  BY DEF Number, NextLayer
<1>3. /\ Control /\ PathsThere /\ K \in Nat \ {0} /\ layer \in 1..K /\ graph \in Graphs /\ lastId \in Nat
  BY DiameterAssumption DEF PathInv, Control
<1>4. Made = layer /\ Numbered = layer - 1 /\ Made' = layer /\ Numbered' = layer
  BY <1>1, <1>2, <1>3 DEF Made, Numbered
<1>5. Control'
  BY <1>1, <1>2, <1>3 DEF Control
<1>6. PathsThere'
  BY <1>1, <1>2, <1>3, <1>4 DEF PathsThere
<1>7. \A r \in DOMAIN path : r[1] \in 1..layer /\ (r \in PathsOf(layer) <=> r[1] = layer)
  BY <1>3, <1>4 DEF PathsThere, PathsOf
<1>8. PathsTyped'
  BY <1>1 DEF PathsTyped
<1>9. AncestorsRight' /\ HistoryRight' /\ LabelsRight'
  <2>1. AncestorsRight'
    BY <1>1, <1>2 DEF PathInv, AncestorsRight, IsLast
  <2>2. HistoryRight'
    BY <1>2, <1>4 DEF PathInv, HistoryRight, IsLast
  <2>3. LabelsRight'
    BY <1>1, <1>2 DEF PathInv, LabelsRight, LabelsOf
  <2> QED
    BY <2>1, <2>2, <2>3
<1>10. SegmentsRight'
  <2>1. ASSUME NEW r \in DOMAIN path, NEW s
        PROVE  HasSegment(r[1], r[2], s)' <=> HasSegment(r[1], r[2], s)
    <3>1. r[1] \in 1..layer /\ r[1] \in Int /\ layer \in Int /\ r[2] \in Pairs
      BY <1>3, <1>7 DEF PathsThere
    <3>2. Joined(r[1]) = 1..(r[1] - 1) /\ Joined(r[1])' = 1..(r[1] - 1)
      BY <1>1, <1>2, <3>1 DEF Joined
    <3>3. \A j \in 1..(r[1] - 1) : \A p \in W(graph)[j] : path'[<<j, p>>].id = path[<<j, p>>].id
      <4> TAKE j \in 1..(r[1] - 1)
      <4> TAKE p \in W(graph)[j]
      <4>1. j \in 1..K /\ j \in 1..Made /\ j # layer
        BY <1>3, <1>4, <3>1
      <4>2. p \in Pairs
        BY <1>3, <4>1, WalkTypes
      <4>3. <<j, p>> \in DOMAIN path
        BY <1>3, <4>1, <4>2 DEF PathsThere
      <4> QED
        BY <1>1, <4>1, <4>3
    <3>4. \A j \in 1..(r[1] - 1) : r[1] - j \in 1..(r[1] - 1)
      BY <3>1
    <3>5. ASSUME NEW j \in 1..(r[1] - 1), NEW m \in Vertex,
                 <<r[2][1], m>> \in W(graph)[j], <<m, r[2][2]>> \in W(graph)[r[1] - j]
          PROVE  <<path'[<<j, <<r[2][1], m>>>>].id, path'[<<r[1] - j, <<m, r[2][2]>>>>].id>>
                     = <<path[<<j, <<r[2][1], m>>>>].id, path[<<r[1] - j, <<m, r[2][2]>>>>].id>>
      BY <3>3, <3>4, <3>5
    <3>6. \A j \in 1..(r[1] - 1) : PartSegment(r[1], r[2], j, s)' <=> PartSegment(r[1], r[2], j, s)
      BY <1>2, <3>5 DEF PartSegment
    <3> QED
      BY <3>2, <3>6 DEF HasSegment
  <2>2. SegmentsRight
    BY DEF PathInv
  <2> QED
    BY <1>1, <2>1, <2>2 DEF SegmentsRight
<1>11. IdsGiven'
  <2>1. ASSUME NEW r \in DOMAIN path PROVE r[1] <= layer /\ path'[r].id \in 1..lastId'
    <3>1. CASE r[1] = layer
      BY <1>1, <1>3, <1>7, <3>1
    <3>2. CASE r[1] # layer
      <4>1. r[1] <= layer - 1 /\ r[1] <= layer
        BY <1>3, <1>7, <3>2
      <4>2. path[r].id \in 1..lastId
        BY <1>4, <4>1 DEF PathInv, IdsGiven
      <4> QED
        BY <1>1, <1>3, <3>2, <4>1, <4>2
    <3> QED
      BY <1>3, <3>1, <3>2
  <2> QED
    BY <1>1, <1>4, <2>1 DEF IdsGiven
<1>12. IdsRise'
  <2> SUFFICES ASSUME NEW a \in DOMAIN path, NEW b \in DOMAIN path, a[1] < b[1] PROVE path'[a].id < path'[b].id
    BY <1>1 DEF IdsRise
  <2>1. a[1] \in 1..layer /\ b[1] \in 1..layer /\ a[1] <= layer - 1
    BY <1>3, <1>7
  <2>2. path'[a] = path[a] /\ path[a].id \in 1..lastId
    BY <1>1, <1>3, <1>4, <2>1 DEF PathInv, IdsGiven
  <2>3. CASE b[1] = layer
    BY <1>1, <1>3, <1>7, <2>2, <2>3
  <2>4. CASE b[1] # layer
    BY <1>1, <1>3, <1>4, <2>1, <2>2, <2>4 DEF PathInv, IdsRise
  <2> QED
    BY <2>3, <2>4
<1>13. IdsAlike'
  <2> SUFFICES ASSUME NEW a \in DOMAIN path, NEW b \in DOMAIN path, a[1] = b[1]
               PROVE  path'[a].id = path'[b].id <=> Alike(a, b)'
    BY <1>1 DEF IdsAlike
  <2>1. \A r \in DOMAIN path : path[r].anc # None => path'[path[r].anc] = path[path[r].anc]
    <3> TAKE r \in DOMAIN path
    <3> HAVE path[r].anc # None
    <3>1. path[r].anc \in DOMAIN path /\ path[r].anc[1] < r[1]
      BY PartsThere
    <3>2. path[r].anc[1] # layer
      BY <1>3, <1>7, <3>1
    <3> QED
      BY <1>1, <3>1, <3>2
  <2>2. Alike(a, b)' <=> Alike(a, b)
    BY <1>1, <2>1 DEF Alike, SameAncestor
  <2>3. CASE a[1] = layer
    BY <1>1, <1>7, <2>2, <2>3
  <2>4. CASE a[1] # layer
    <3>1. path'[a] = path[a] /\ path'[b] = path[b] /\ a[1] <= layer - 1
      BY <1>1, <1>3, <1>7, <2>4
    <3> QED
      BY <1>4, <2>2, <3>1 DEF PathInv, IdsAlike
  <2> QED
    BY <2>3, <2>4
<1>14. SequencesRight'
  <2>1. /\ DOMAIN segments = 1..K
        /\ \A l \in 1..(layer - 1) : InLine(segments[l], PathsOf(l), path)
        /\ \A l \in layer..K : segments[l] = <<>>
    BY <1>3, <1>4 DEF PathInv, SequencesRight
  <2>2. \A l : PathsOf(l)' = PathsOf(l)
    BY <1>1 DEF PathsOf
  <2>3. ASSUME NEW l \in (layer + 1)..K PROVE segments'[l] = <<>>
    BY <1>1, <1>3, <2>1
  <2>4. ASSUME NEW l \in 1..layer PROVE InLine(segments'[l], PathsOf(l), path')
    <3>1. CASE l = layer
      BY <1>1, <1>3, <2>1, <3>1
    <3>2. CASE l # layer
      <4>1. segments'[l] = segments[l] /\ InLine(segments[l], PathsOf(l), path)
        BY <1>1, <1>3, <2>1, <3>2
      <4>2. \A r \in PathsOf(l) : path'[r] = path[r]
        BY <1>1, <3>2 DEF PathsOf
      <4>3. PICK s, S : s = segments[l] /\ S = PathsOf(l)
        OBVIOUS
      <4>4. \A i \in 1..Cardinality(S) : path'[s[i]] = path[s[i]]
        BY <4>1, <4>2, <4>3 DEF InLine
      <4>5. InLine(s, S, path')
        BY <4>1, <4>3, <4>4 DEF InLine
      <4> QED
        BY <4>1, <4>3, <4>5
    <3> QED
      BY <3>1, <3>2
  <2>5. DOMAIN segments' = 1..K
    BY <1>1, <2>1
  <2> QED
    BY <1>4, <2>2, <2>3, <2>4, <2>5 DEF SequencesRight
<1> QED
  BY <1>5, <1>6, <1>8, <1>9, <1>10, <1>11, <1>12, <1>13, <1>14 DEF PathInv

-----------------------------------------------------------------------------
(* Joining paths.                                                          *)

\* The local definitions of Join.
Joins == {j \in PathsOf(split) \X PathsOf(layer - split) : j[1][2][2] = j[2][2][1]}
JoinKey(j) == <<j[1][2][1], j[2][2][2]>>
JoinsOf(r) == {j \in Joins : JoinKey(j) = r[2]}
JoinLabels(j) ==
    IF layer - split = 1 /\ ComputeLabels
    THEN {x[1] \o x[2] : x \in path[j[1]].labels \X path[j[2]].labels} ELSE {}
OldPath(r) ==
    IF r \in DOMAIN path THEN path[r]
    ELSE NewPath(IF r[2] \in DOMAIN history THEN history[r[2]] ELSE None)
JoinMade == {<<layer, JoinKey(j)>> : j \in Joins}
JoinSegments(r) == {<<path[j[1]].id, path[j[2]].id>> : j \in JoinsOf(r)}
AllLabels(r) == UNION {JoinLabels(j) : j \in JoinsOf(r)}

\* The path that a split makes of the old one.
Joint(r) ==
    [anc |-> OldPath(r).anc, segs |-> OldPath(r).segs \cup JoinSegments(r),
     labels |-> OldPath(r).labels \cup AllLabels(r), id |-> OldPath(r).id]

\* What Join does, without its local definitions.
LEMMA JoinExpanded ==
    ASSUME Join
    PROVE  /\ pc = "join"
           /\ path' = Put([r \in JoinMade |-> Joint(r)], path)
           /\ history' = Put([p \in {r[2] : r \in JoinMade} |-> <<layer, p>>], history)
           /\ split' = split - 1
           /\ pc' = IF split = 1 THEN "number" ELSE "join"
           /\ UNCHANGED <<graph, layer, segments, lastId, blockVars>>
BY Zenon DEF Join, Joins, JoinKey, JoinsOf, JoinLabels, OldPath, JoinMade, JoinSegments, AllLabels, Joint

\* What Join goes through for the pair of u and v.
LEMMA JoinsAre ==
    ASSUME PathInv, pc = "join", NEW u \in Vertex, NEW v \in Vertex, NEW j
    PROVE  j \in JoinsOf(<<layer, <<u, v>>>>) <=>
               \E m \in Vertex :
                   /\ <<u, m>> \in W(graph)[split] /\ <<m, v>> \in W(graph)[layer - split]
                   /\ j = <<<<split, <<u, m>>>>, <<layer - split, <<m, v>>>>>>
<1>1. Control /\ PathsThere /\ K \in Nat \ {0} /\ graph \in Graphs
  BY DiameterAssumption DEF PathInv, Control
<1>2. PICK a, b : a = split /\ b = layer - split
  OBVIOUS
<1>3. a \in 1..Made /\ b \in 1..Made /\ a \in 1..K /\ b \in 1..K
  BY <1>1, <1>2 DEF Control, Made
<1>4. W(graph)[a] \in SUBSET Pairs /\ W(graph)[b] \in SUBSET Pairs
  BY <1>1, <1>3, WalkTypes
<1>5. \A r : (r \in PathsOf(a) <=> \E p \in W(graph)[a] : r = <<a, p>>)
             /\ (r \in PathsOf(b) <=> \E p \in W(graph)[b] : r = <<b, p>>)
  BY <1>1, <1>3, LayerPaths
<1>6. ASSUME j \in JoinsOf(<<layer, <<u, v>>>>)
      PROVE  \E m \in Vertex :
                   /\ <<u, m>> \in W(graph)[a] /\ <<m, v>> \in W(graph)[b]
                   /\ j = <<<<a, <<u, m>>>>, <<b, <<m, v>>>>>>
  <2>1. PICK x \in PathsOf(a), y \in PathsOf(b) : j = <<x, y>> /\ x[2][2] = y[2][1] /\ <<x[2][1], y[2][2]>> = <<u, v>>
    BY <1>2, <1>6 DEF JoinsOf, Joins, JoinKey
  <2>2. PICK p \in W(graph)[a], q \in W(graph)[b] : x = <<a, p>> /\ y = <<b, q>>
    BY <1>5
  <2>3. PICK m \in Vertex : p = <<u, m>>
    BY <1>4, <2>1, <2>2 DEF Pairs
  <2>4. q = <<m, v>>
    BY <1>4, <2>1, <2>2, <2>3 DEF Pairs
  <2> QED
    BY <2>1, <2>2, <2>3, <2>4
<1>7. ASSUME NEW m \in Vertex, <<u, m>> \in W(graph)[a], <<m, v>> \in W(graph)[b],
             j = <<<<a, <<u, m>>>>, <<b, <<m, v>>>>>>
      PROVE  j \in JoinsOf(<<layer, <<u, v>>>>)
  <2>1. PICK x, y : x = <<a, <<u, m>>>> /\ y = <<b, <<m, v>>>>
    OBVIOUS
  <2>2. x \in PathsOf(a) /\ y \in PathsOf(b)
    BY <1>5, <1>7, <2>1
  <2>3. <<x, y>> \in Joins
    BY <1>2, <2>1, <2>2 DEF Joins
  <2>4. JoinKey(<<x, y>>) = <<u, v>>
    BY <2>1 DEF JoinKey
  <2> QED
    BY <1>7, <2>1, <2>3, <2>4 DEF JoinsOf
<1> QED
  BY <1>2, <1>6, <1>7

\* Every pair of the layer is met in each split.
LEMMA JoinsMake ==
    ASSUME PathInv, pc = "join"
    PROVE  JoinMade = {layer} \X W(graph)[layer]
<1>1. Control /\ PathsThere /\ K \in Nat \ {0} /\ graph \in Graphs
  BY DiameterAssumption DEF PathInv, Control
<1>2. PICK a, b : a = split /\ b = layer - split
  OBVIOUS
<1>3. a \in 1..K /\ b \in 1..K /\ a + b = layer /\ a + b <= K /\ layer \in 1..K
  BY <1>1, <1>2 DEF Control
<1>4. \A u, v \in Vertex :
          <<u, v>> \in W(graph)[layer] <=> \E m \in Vertex : <<u, m>> \in W(graph)[a] /\ <<m, v>> \in W(graph)[b]
  BY <1>1, <1>3, WalksConcat
<1>5. W(graph)[layer] \in SUBSET Pairs
  BY <1>1, <1>3, WalkTypes
<1>6. ASSUME NEW p \in W(graph)[layer] PROVE <<layer, p>> \in JoinMade
  <2>1. PICK u \in Vertex, v \in Vertex : p = <<u, v>>
    BY <1>5 DEF Pairs
  <2>2. PICK m \in Vertex : <<u, m>> \in W(graph)[a] /\ <<m, v>> \in W(graph)[b]
    BY <1>4, <2>1
  <2>3. PICK j : j = <<<<a, <<u, m>>>>, <<b, <<m, v>>>>>>
    OBVIOUS
  <2>4. j \in JoinsOf(<<layer, <<u, v>>>>)
    BY <1>2, <2>2, <2>3, JoinsAre
  <2> QED
    BY <2>1, <2>4 DEF JoinsOf, JoinMade
<1>7. ASSUME NEW r \in JoinMade PROVE r \in {layer} \X W(graph)[layer]
  <2>1. PICK j \in Joins : r = <<layer, JoinKey(j)>>
    BY DEF JoinMade
  <2>2. PICK x \in PathsOf(a), y \in PathsOf(b) : j = <<x, y>>
    BY <1>2 DEF Joins
  <2>3. x[2] \in Pairs /\ y[2] \in Pairs
    BY <1>1, LayerPaths
  <2>4. PICK u \in Vertex, v \in Vertex : JoinKey(j) = <<u, v>>
    BY <2>2, <2>3 DEF JoinKey, Pairs
  <2>5. j \in JoinsOf(<<layer, <<u, v>>>>)
    BY <2>4 DEF JoinsOf
  <2>6. \E m \in Vertex : <<u, m>> \in W(graph)[a] /\ <<m, v>> \in W(graph)[b]
    BY <1>2, <2>5, JoinsAre
  <2>7. <<u, v>> \in W(graph)[layer]
    BY <1>4, <2>6
  <2> QED
    BY <2>1, <2>4, <2>7
<1> QED
  BY <1>6, <1>7

\* The segments that one split adds, and the labels that the first split does.
LEMMA JoinSegmentsAre ==
    ASSUME PathInv, pc = "join", NEW u \in Vertex, NEW v \in Vertex, NEW s
    PROVE  s \in JoinSegments(<<layer, <<u, v>>>>) <=> PartSegment(layer, <<u, v>>, split, s)
<1> DEFINE x(m) == <<split, <<u, m>>>>
           y(m) == <<layer - split, <<m, v>>>>
           Via(m) == <<u, m>> \in W(graph)[split] /\ <<m, v>> \in W(graph)[layer - split]
<1>1. \A j : j \in JoinsOf(<<layer, <<u, v>>>>) <=> \E m \in Vertex : Via(m) /\ j = <<x(m), y(m)>>
  BY Zenon, JoinsAre
<1>2. s \in JoinSegments(<<layer, <<u, v>>>>) <=>
          \E j \in JoinsOf(<<layer, <<u, v>>>>) : s = <<path[j[1]].id, path[j[2]].id>>
  BY DEF JoinSegments
<1>3. \A m : <<x(m), y(m)>>[1] = x(m) /\ <<x(m), y(m)>>[2] = y(m)
  OBVIOUS
<1> HIDE DEF x, y, Via
<1>4. s \in JoinSegments(<<layer, <<u, v>>>>) <=>
          \E m \in Vertex : Via(m) /\ s = <<path[x(m)].id, path[y(m)].id>>
  <2>1. ASSUME NEW m \in Vertex, Via(m), s = <<path[x(m)].id, path[y(m)].id>>
        PROVE  s \in JoinSegments(<<layer, <<u, v>>>>)
    <3>1. PICK j : j = <<x(m), y(m)>>
      OBVIOUS
    <3>2. j \in JoinsOf(<<layer, <<u, v>>>>) /\ j[1] = x(m) /\ j[2] = y(m)
      BY <1>1, <1>3, <2>1, <3>1
    <3> QED
      BY <1>2, <2>1, <3>2
  <2>2. ASSUME NEW j \in JoinsOf(<<layer, <<u, v>>>>), s = <<path[j[1]].id, path[j[2]].id>>
        PROVE  \E m \in Vertex : Via(m) /\ s = <<path[x(m)].id, path[y(m)].id>>
    <3>1. PICK m \in Vertex : Via(m) /\ j = <<x(m), y(m)>>
      BY <1>1, <2>2
    <3>2. j[1] = x(m) /\ j[2] = y(m)
      BY <1>3, <3>1
    <3> QED
      BY <2>2, <3>1, <3>2
  <2> QED
    BY <1>2, <2>1, <2>2
<1>5. PartSegment(layer, <<u, v>>, split, s) <=> \E m \in Vertex : Via(m) /\ s = <<path[x(m)].id, path[y(m)].id>>
  BY DEF PartSegment, x, y, Via
<1> QED
  BY <1>4, <1>5

\* A label sequence of a pair is one of the walks marked by it.
LEMMA LabelsOfIs ==
    ASSUME graph \in Graphs, NEW l \in 1..K, NEW u, NEW v, NEW t
    PROVE  t \in LabelsOf(l, <<u, v>>) <=> <<<<u, v>>, t>> \in LW(graph)[l]
<1>1. LW(graph)[l] \in SUBSET Marked
  BY LabelTypes
<1>2. <<<<u, v>>, t>>[1] = <<u, v>> /\ <<<<u, v>>, t>>[2] = t
  OBVIOUS
<1>3. ASSUME NEW w \in LW(graph)[l], w[1] = <<u, v>> PROVE w = <<<<u, v>>, w[2]>>
  BY <1>1, <1>3 DEF Marked
<1> QED
  BY <1>2, <1>3 DEF LabelsOf

\* With labels kept, the last split gives the paths all of their labels.
LEMMA JoinLabelsAre ==
    ASSUME PathInv, pc = "join", NEW u \in Vertex, NEW v \in Vertex
    PROVE  AllLabels(<<layer, <<u, v>>>>) =
               IF split = layer - 1 /\ ComputeLabels THEN LabelsOf(layer, <<u, v>>) ELSE {}
<1>1. Control /\ PathsThere /\ LabelsRight /\ K \in Nat \ {0} /\ graph \in Graphs /\ split \in 1..(layer - 1)
      /\ layer \in 1..K
  BY DiameterAssumption DEF PathInv, Control
<1>2. CASE ~(split = layer - 1 /\ ComputeLabels)
  <2>1. ~(layer - split = 1 /\ ComputeLabels)
    BY <1>1, <1>2
  <2>2. \A j : JoinLabels(j) = {}
    BY <2>1 DEF JoinLabels
  <2> QED
    BY <1>2, <2>2 DEF AllLabels
<1>3. CASE split = layer - 1 /\ ComputeLabels
  <2>1. PICK d : d = split
    OBVIOUS
  <2>2. layer - split = 1 /\ layer = d + 1 /\ d \in 1..(K - 1) /\ d \in 1..K /\ 1 \in 1..K /\ d \in 1..Made /\ 1 \in 1..Made
    BY <1>1, <1>3, <2>1 DEF Made
  <2>3. \A j : JoinLabels(j) = {x[1] \o x[2] : x \in path[j[1]].labels \X path[j[2]].labels}
    BY <1>3, <2>2 DEF JoinLabels
  <2>4. \A l \in 1..Made : \A p \in W(graph)[l] : path[<<l, p>>].labels = LabelsOf(l, p)
    <3> TAKE l \in 1..Made
    <3> TAKE p \in W(graph)[l]
    <3>1. l \in 1..K
      BY <1>1 DEF Made
    <3>2. p \in Pairs
      BY <1>1, <3>1, WalkTypes
    <3>3. <<l, p>> \in DOMAIN path
      BY <1>1, <3>1, <3>2 DEF PathsThere
    <3> QED
      BY <1>1, <1>3, <3>3 DEF LabelsRight
  <2>5. \A t : <<<<u, v>>, t>> \in LW(graph)[d + 1] <=> PathLabel(LW(graph)[d], LW(graph)[1], u, v, t)
    BY <1>1, <2>2, LabelsStep, Zenon
  <2>6. LW(graph)[d] \in SUBSET Marked /\ LW(graph)[1] \in SUBSET Marked
    BY <1>1, <2>2, LabelTypes
  <2>7. ASSUME NEW t, t \in AllLabels(<<layer, <<u, v>>>>)
        PROVE  PathLabel(LW(graph)[d], LW(graph)[1], u, v, t)
    <3>1. PICK j \in JoinsOf(<<layer, <<u, v>>>>) : t \in JoinLabels(j)
      BY <2>7 DEF AllLabels
    <3> DEFINE Via(k) == \E m \in Vertex :
                   /\ <<u, m>> \in W(graph)[split] /\ <<m, v>> \in W(graph)[layer - split]
                   /\ k = <<<<split, <<u, m>>>>, <<layer - split, <<m, v>>>>>>
    <3>7. \A k : k \in JoinsOf(<<layer, <<u, v>>>>) <=> Via(k)
      BY Zenon, JoinsAre
    <3>8. Via(j)
      BY <3>1, <3>7
    <3>2. PICK m \in Vertex :
              /\ <<u, m>> \in W(graph)[split] /\ <<m, v>> \in W(graph)[layer - split]
              /\ j = <<<<split, <<u, m>>>>, <<layer - split, <<m, v>>>>>>
      BY <3>8
    <3>3. PICK x \in path[j[1]].labels, y \in path[j[2]].labels : t = x \o y
      BY <2>3, <3>1
    <3>4. x \in LabelsOf(d, <<u, m>>) /\ y \in LabelsOf(1, <<m, v>>)
      BY <2>1, <2>2, <2>4, <3>2, <3>3
    <3>5. <<<<u, m>>, x>> \in LW(graph)[d] /\ <<<<m, v>>, y>> \in LW(graph)[1]
      BY <1>1, <2>2, <3>4, LabelsOfIs
    <3>6. x \in Seq(Int) /\ y \in Seq(Int)
      BY <2>6, <3>5 DEF Marked
    <3> QED
      BY <3>3, <3>5, <3>6 DEF PathLabel
  <2>8. ASSUME NEW t, PathLabel(LW(graph)[d], LW(graph)[1], u, v, t)
        PROVE  t \in AllLabels(<<layer, <<u, v>>>>)
    <3>1. PICK m \in Vertex, x \in Seq(Int), y \in Seq(Int) :
              <<<<u, m>>, x>> \in LW(graph)[d] /\ <<<<m, v>>, y>> \in LW(graph)[1] /\ t = x \o y
      BY <2>8 DEF PathLabel
    <3>2. <<u, m>> \in W(graph)[d] /\ <<m, v>> \in W(graph)[1]
      BY <1>1, <2>2, <3>1, WalksLabelled
    <3>3. x \in LabelsOf(d, <<u, m>>) /\ y \in LabelsOf(1, <<m, v>>)
      BY <1>1, <2>2, <3>1, LabelsOfIs
    <3>4. PICK a, b : a = <<d, <<u, m>>>> /\ b = <<1, <<m, v>>>>
      OBVIOUS
    <3>5. <<a, b>> \in JoinsOf(<<layer, <<u, v>>>>)
      BY <2>1, <2>2, <3>2, <3>4, JoinsAre
    <3>6. x \in path[a].labels /\ y \in path[b].labels
      BY <2>2, <2>4, <3>2, <3>3, <3>4
    <3>7. t \in JoinLabels(<<a, b>>)
      <4>1. <<x, y>> \in path[a].labels \X path[b].labels
        BY <3>6
      <4>2. JoinLabels(<<a, b>>) = {z[1] \o z[2] : z \in path[a].labels \X path[b].labels}
        BY <2>3
      <4>3. t = <<x, y>>[1] \o <<x, y>>[2]
        BY <3>1
      <4> QED
        BY <4>1, <4>2, <4>3
    <3> QED
      BY <3>5, <3>7 DEF AllLabels
  <2>9. \A t : t \in LabelsOf(layer, <<u, v>>) <=> <<<<u, v>>, t>> \in LW(graph)[d + 1]
    BY <1>1, <2>2, LabelsOfIs
  <2>10. \A t : t \in AllLabels(<<layer, <<u, v>>>>) <=> t \in LabelsOf(layer, <<u, v>>)
    BY <2>5, <2>7, <2>8, <2>9
  <2> QED
    BY <1>3, <2>10
<1> QED
  BY <1>2, <1>3

\* What one split of Join does to the paths.
LEMMA JoinIs ==
    ASSUME PathInv, Join
    PROVE  /\ pc = "join" /\ split' = split - 1
           /\ pc' = (IF split = 1 THEN "number" ELSE "join")
           /\ UNCHANGED <<graph, layer, segments, lastId>>
           /\ DOMAIN path' = DOMAIN path \cup ({layer} \X W(graph)[layer])
           /\ \A r \in DOMAIN path : r[1] # layer => path'[r] = path[r]
           /\ \A p \in W(graph)[layer] :
                  /\ path'[<<layer, p>>].anc = OldPath(<<layer, p>>).anc
                  /\ path'[<<layer, p>>].id = OldPath(<<layer, p>>).id
                  /\ path'[<<layer, p>>].segs = OldPath(<<layer, p>>).segs \cup JoinSegments(<<layer, p>>)
                  /\ path'[<<layer, p>>].labels = OldPath(<<layer, p>>).labels \cup AllLabels(<<layer, p>>)
                  /\ path'[<<layer, p>>] = [anc |-> path'[<<layer, p>>].anc, segs |-> path'[<<layer, p>>].segs,
                                           labels |-> path'[<<layer, p>>].labels, id |-> path'[<<layer, p>>].id]
           /\ DOMAIN history' = DOMAIN history \cup W(graph)[layer]
           /\ \A p \in DOMAIN history' :
                  history'[p] = IF p \in W(graph)[layer] THEN <<layer, p>> ELSE history[p]
<1> DEFINE M == {layer} \X W(graph)[layer]
<1>1. /\ pc = "join" /\ split' = split - 1
      /\ pc' = (IF split = 1 THEN "number" ELSE "join")
      /\ UNCHANGED <<graph, layer, segments, lastId>>
      /\ path' = Put([r \in JoinMade |-> Joint(r)], path)
      /\ history' = Put([p \in {r[2] : r \in JoinMade} |-> <<layer, p>>], history)
  BY JoinExpanded
<1>2. JoinMade = M /\ {r[2] : r \in JoinMade} = W(graph)[layer]
  <2>1. JoinMade = M
    BY <1>1, JoinsMake
  <2>2. \A p \in W(graph)[layer] : <<layer, p>> \in M /\ <<layer, p>>[2] = p
    OBVIOUS
  <2>3. {r[2] : r \in M} = W(graph)[layer]
    <3>1. \A r \in M : r[2] \in W(graph)[layer]
      OBVIOUS
    <3> HIDE DEF M
    <3> QED
      BY <2>2, <3>1
  <2> QED
    BY <2>1, <2>3
<1>3. /\ DOMAIN path' = DOMAIN path \cup M
      /\ \A r \in DOMAIN path' : path'[r] = IF r \in M THEN Joint(r) ELSE path[r]
  BY <1>1, <1>2 DEF Put
<1>4. /\ DOMAIN history' = DOMAIN history \cup W(graph)[layer]
      /\ \A p \in DOMAIN history' : history'[p] = IF p \in W(graph)[layer] THEN <<layer, p>> ELSE history[p]
  BY <1>1, <1>2 DEF Put
<1>5. \A r \in DOMAIN path : r[1] # layer => path'[r] = path[r]
  BY <1>3
<1>6. \A p \in W(graph)[layer] : path'[<<layer, p>>] = Joint(<<layer, p>>)
  BY <1>3
<1>7. \A r : /\ Joint(r).anc = OldPath(r).anc /\ Joint(r).id = OldPath(r).id
            /\ Joint(r).segs = OldPath(r).segs \cup JoinSegments(r)
            /\ Joint(r).labels = OldPath(r).labels \cup AllLabels(r)
            /\ Joint(r) = [anc |-> Joint(r).anc, segs |-> Joint(r).segs, labels |-> Joint(r).labels, id |-> Joint(r).id]
  BY DEF Joint
<1> QED
  BY <1>1, <1>3, <1>4, <1>5, <1>6, <1>7

\* The path that a split adds to: one with nothing in it if this is the first split.
LEMMA OldPathIs ==
    ASSUME PathInv, pc = "join", NEW p \in W(graph)[layer]
    PROVE  /\ IsLast(layer, p, OldPath(<<layer, p>>).anc)
           /\ OldPath(<<layer, p>>).id = -1
           /\ OldPath(<<layer, p>>).segs \in SUBSET (Nat \X Nat)
           /\ OldPath(<<layer, p>>).labels \in SUBSET Seq(Int)
           /\ \A s : s \in OldPath(<<layer, p>>).segs <=> HasSegment(layer, p, s)
           /\ OldPath(<<layer, p>>).labels =
                  IF ComputeLabels /\ split # layer - 1 THEN LabelsOf(layer, p) ELSE {}
<1> DEFINE r == <<layer, p>>
<1>1. /\ Control /\ PathsThere /\ K \in Nat \ {0} /\ graph \in Graphs /\ split \in 1..(layer - 1) /\ layer \in 1..K
      /\ r[1] = layer /\ r[2] = p
  BY DiameterAssumption DEF PathInv, Control
<1>2. p \in Pairs
  BY <1>1, WalkTypes
<1>3. CASE split = layer - 1
  <2>1. Made = layer - 1
    BY <1>3 DEF Made
  <2>2. r \notin DOMAIN path
    BY <1>1, <2>1 DEF PathsThere
  <2>3. PICK a : a = IF p \in DOMAIN history THEN history[p] ELSE None
    OBVIOUS
  <2>4. OldPath(r) = [anc |-> a, segs |-> {}, labels |-> {}, id |-> -1]
    BY <2>2, <2>3 DEF OldPath, NewPath
  <2>5. OldPath(r).anc = a /\ OldPath(r).segs = {} /\ OldPath(r).labels = {} /\ OldPath(r).id = -1
    BY <2>4
  <2>6. IsLast(layer, p, a)
    <3>1. Made + 1 = layer /\ Made = layer - 1
      BY <1>1, <2>1
    <3>2. CASE p \in DOMAIN history
      BY <2>3, <3>1, <3>2 DEF PathInv, HistoryRight
    <3>3. CASE p \notin DOMAIN history
      <4>1. \A l \in 1..(layer - 1) : p \notin W(graph)[l]
        BY <3>1, <3>3 DEF PathInv, HistoryRight
      <4> QED
        BY <2>3, <3>3, <4>1 DEF IsLast
    <3> QED
      BY <3>2, <3>3
  <2>7. \A s : ~HasSegment(layer, p, s)
    <3>1. Joined(layer) = {}
      BY <1>1, <1>3 DEF Joined
    <3> QED
      BY <3>1 DEF HasSegment
  <2> HIDE DEF r
  <2> QED
    BY <1>3, <2>5, <2>6, <2>7 DEF r
<1>4. CASE split # layer - 1
  <2>1. Made = layer /\ Numbered = layer - 1
    BY <1>4 DEF Made, Numbered
  <2>2. r \in DOMAIN path
    BY <1>1, <1>2, <2>1 DEF PathsThere
  <2>3. OldPath(r) = path[r]
    BY <2>2 DEF OldPath
  <2>4. path[r] \in PathRecord /\ IsLast(layer, p, path[r].anc)
    BY <1>1, <2>2 DEF PathInv, PathsTyped, AncestorsRight
  <2>5. path[r].id = -1
    <3>1. ~(r[1] <= Numbered)
      BY <1>1, <2>1
    <3> QED
      BY <2>2, <3>1 DEF PathInv, IdsGiven
  <2>6. \A s : s \in path[r].segs <=> HasSegment(layer, p, s)
    BY <1>1, <2>2 DEF PathInv, SegmentsRight
  <2>7. path[r].labels = IF ComputeLabels THEN LabelsOf(layer, p) ELSE {}
    BY <1>1, <2>2 DEF PathInv, LabelsRight
  <2>8. path[r].segs \in SUBSET (Nat \X Nat) /\ path[r].labels \in SUBSET Seq(Int)
    BY <2>4 DEF PathRecord
  <2> HIDE DEF r
  <2> QED
    BY <1>4, <2>3, <2>4, <2>5, <2>6, <2>7, <2>8 DEF r
<1> QED
  BY <1>3, <1>4

\* The last path of a pair is a path or none.
LEMMA IsLastType ==
    ASSUME NEW l \in 1..(K + 1), NEW p \in Pairs, NEW a, IsLast(l, p, a)
    PROVE  a \in ((1..K) \X Pairs) \cup {None}
BY DiameterAssumption DEF IsLast

\* The ids of parts are numbers, and a split changes none of them.
LEMMA JoinParts ==
    ASSUME PathInv, Join, NEW l \in 1..layer, NEW p, NEW j \in 1..(l - 1), NEW s
    PROVE  /\ PartSegment(l, p, j, s)' <=> PartSegment(l, p, j, s)
           /\ PartSegment(l, p, j, s) => s \in Nat \X Nat
<1>1. /\ Control /\ PathsThere /\ K \in Nat \ {0} /\ graph \in Graphs /\ layer \in 1..K /\ lastId \in Nat
      /\ split \in 1..(layer - 1) /\ pc = "join"
  BY DiameterAssumption, JoinIs DEF PathInv, Control
<1>2. graph' = graph /\ \A r \in DOMAIN path : r[1] # layer => path'[r] = path[r]
  BY JoinIs
<1>3. \A i \in 1..(l - 1) : \A q \in W(graph)[i] : path'[<<i, q>>] = path[<<i, q>>] /\ path[<<i, q>>].id \in Nat
  <2> TAKE i \in 1..(l - 1)
  <2> TAKE q \in W(graph)[i]
  <2>1. i \in 1..K /\ i \in 1..Made /\ i # layer /\ i <= Numbered
    BY <1>1 DEF Made, Numbered
  <2>2. q \in Pairs
    BY <1>1, <2>1, WalkTypes
  <2>3. PICK r : r = <<i, q>>
    OBVIOUS
  <2>4. r \in DOMAIN path /\ r[1] = i
    BY <1>1, <2>1, <2>2, <2>3 DEF PathsThere
  <2>5. path[r].id \in 1..lastId
    BY <2>1, <2>4 DEF PathInv, IdsGiven
  <2> QED
    BY <1>1, <1>2, <2>1, <2>3, <2>4, <2>5
<1>4. j \in 1..(l - 1) /\ l - j \in 1..(l - 1)
  BY <1>1
<1>5. ASSUME NEW m \in Vertex, <<p[1], m>> \in W(graph)[j], <<m, p[2]>> \in W(graph)[l - j]
      PROVE  /\ path'[<<j, <<p[1], m>>>>] = path[<<j, <<p[1], m>>>>] /\ path[<<j, <<p[1], m>>>>].id \in Nat
             /\ path'[<<l - j, <<m, p[2]>>>>] = path[<<l - j, <<m, p[2]>>>>] /\ path[<<l - j, <<m, p[2]>>>>].id \in Nat
  BY <1>3, <1>4, <1>5
<1>6. PartSegment(l, p, j, s)' <=> PartSegment(l, p, j, s)
  BY <1>2, <1>5 DEF PartSegment
<1>7. PartSegment(l, p, j, s) => s \in Nat \X Nat
  BY <1>5 DEF PartSegment
<1> QED
  BY <1>6, <1>7

\* A layer is joined, split by split.
LEMMA JoinKeeps ==
    ASSUME PathInv, Join
    PROVE  PathInv'
<1>1. /\ pc = "join" /\ split' = split - 1
      /\ pc' = (IF split = 1 THEN "number" ELSE "join")
      /\ graph' = graph /\ layer' = layer /\ segments' = segments /\ lastId' = lastId
      /\ DOMAIN path' = DOMAIN path \cup ({layer} \X W(graph)[layer])
      /\ \A r \in DOMAIN path : r[1] # layer => path'[r] = path[r]
      /\ \A p \in W(graph)[layer] :
             /\ path'[<<layer, p>>].anc = OldPath(<<layer, p>>).anc
             /\ path'[<<layer, p>>].id = OldPath(<<layer, p>>).id
             /\ path'[<<layer, p>>].segs = OldPath(<<layer, p>>).segs \cup JoinSegments(<<layer, p>>)
             /\ path'[<<layer, p>>].labels = OldPath(<<layer, p>>).labels \cup AllLabels(<<layer, p>>)
             /\ path'[<<layer, p>>] = [anc |-> path'[<<layer, p>>].anc, segs |-> path'[<<layer, p>>].segs,
                                      labels |-> path'[<<layer, p>>].labels, id |-> path'[<<layer, p>>].id]
      /\ DOMAIN history' = DOMAIN history \cup W(graph)[layer]
      /\ \A p \in DOMAIN history' : history'[p] = IF p \in W(graph)[layer] THEN <<layer, p>> ELSE history[p]
  BY JoinIs
<1>2. /\ Control /\ PathsThere /\ K \in Nat \ {0} /\ graph \in Graphs /\ layer \in 1..K /\ layer \in Nat
      /\ split \in 1..(layer - 1) /\ lastId \in Nat /\ layer # 1
  BY <1>1, DiameterAssumption DEF PathInv, Control
<1>3. /\ Numbered = layer - 1 /\ Numbered' = layer - 1 /\ Made' = layer
      /\ Made = (IF split = layer - 1 THEN layer - 1 ELSE layer)
  BY <1>1, <1>2 DEF Made, Numbered
<1>4. Control'
  BY <1>1, <1>2 DEF Control
<1>5. W(graph)[layer] \in SUBSET Pairs
  BY <1>2, WalkTypes
<1>6. PathsThere'
  <2>1. \A r \in DOMAIN path : r \in (1..layer) \X Pairs /\ r[2] \in W(graph)[r[1]]
    BY <1>2, <1>3 DEF PathsThere
  <2>2. \A r \in (1..(layer - 1)) \X Pairs : r[2] \in W(graph)[r[1]] => r \in DOMAIN path
    BY <1>2, <1>3 DEF PathsThere
  <2>3. \A r \in DOMAIN path' : r \in (1..layer) \X Pairs /\ r[2] \in W(graph)[r[1]]
    BY <1>1, <1>2, <1>5, <2>1
  <2>4. ASSUME NEW r \in (1..layer) \X Pairs, r[2] \in W(graph)[r[1]] PROVE r \in DOMAIN path'
    <3>1. CASE r[1] = layer
      BY <1>1, <2>4, <3>1
    <3>2. CASE r[1] # layer
      BY <1>1, <1>2, <2>2, <2>4, <3>2
    <3> QED
      BY <3>1, <3>2
  <2> QED
    BY <1>1, <1>3, <2>3, <2>4 DEF PathsThere
<1>7. \A r \in DOMAIN path' :
          \/ r \in DOMAIN path /\ r[1] \in 1..(layer - 1) /\ r[2] \in Pairs /\ path'[r] = path[r]
          \/ r[1] = layer /\ r[2] \in W(graph)[layer] /\ r[2] \in Pairs /\ r = <<layer, r[2]>>
  <2> TAKE r \in DOMAIN path'
  <2>1. r \in (1..layer) \X Pairs /\ r[2] \in W(graph)[r[1]]
    BY <1>1, <1>3, <1>6 DEF PathsThere
  <2>2. CASE r[1] = layer
    BY <2>1, <2>2
  <2>3. CASE r[1] # layer
    BY <1>1, <1>2, <2>1, <2>3
  <2> QED
    BY <2>2, <2>3
<1>8. ASSUME NEW p \in W(graph)[layer], NEW s
      PROVE  s \in JoinSegments(<<layer, p>>) <=> PartSegment(layer, p, split, s)
  <2>1. PICK u \in Vertex, v \in Vertex : p = <<u, v>>
    BY <1>5 DEF Pairs
  <2> QED
    BY Zenon, <1>1, <2>1, JoinSegmentsAre
<1>9. \A p \in W(graph)[layer] :
          AllLabels(<<layer, p>>) = IF split = layer - 1 /\ ComputeLabels THEN LabelsOf(layer, p) ELSE {}
  <2> TAKE p \in W(graph)[layer]
  <2>1. PICK u \in Vertex, v \in Vertex : p = <<u, v>>
    BY <1>5 DEF Pairs
  <2> QED
    BY <1>1, <2>1, JoinLabelsAre
<1>10. \A p \in W(graph)[layer] :
           /\ IsLast(layer, p, path'[<<layer, p>>].anc)
           /\ path'[<<layer, p>>].id = -1
           /\ path'[<<layer, p>>].segs \in SUBSET (Nat \X Nat)
           /\ \A s : s \in path'[<<layer, p>>].segs <=> HasSegment(layer, p, s) \/ PartSegment(layer, p, split, s)
           /\ path'[<<layer, p>>].labels = IF ComputeLabels THEN LabelsOf(layer, p) ELSE {}
  <2> TAKE p \in W(graph)[layer]
  <2>1. PICK o : o = OldPath(<<layer, p>>)
    OBVIOUS
  <2>2. /\ IsLast(layer, p, o.anc) /\ o.id = -1 /\ o.segs \in SUBSET (Nat \X Nat)
        /\ \A s : s \in o.segs <=> HasSegment(layer, p, s)
        /\ o.labels = IF ComputeLabels /\ split # layer - 1 THEN LabelsOf(layer, p) ELSE {}
    BY <1>1, <2>1, OldPathIs
  <2>3. /\ path'[<<layer, p>>].anc = o.anc /\ path'[<<layer, p>>].id = o.id
        /\ path'[<<layer, p>>].segs = o.segs \cup JoinSegments(<<layer, p>>)
        /\ path'[<<layer, p>>].labels = o.labels \cup AllLabels(<<layer, p>>)
    BY <1>1, <2>1
  <2>4. \A s : s \in JoinSegments(<<layer, p>>) <=> PartSegment(layer, p, split, s)
    BY <1>8
  <2>5. \A s \in JoinSegments(<<layer, p>>) : s \in Nat \X Nat
    <3> TAKE s \in JoinSegments(<<layer, p>>)
    <3>1. layer \in 1..layer
      BY <1>2
    <3> QED
      BY <1>2, <2>4, <3>1, JoinParts
  <2>6. AllLabels(<<layer, p>>) = IF split = layer - 1 /\ ComputeLabels THEN LabelsOf(layer, p) ELSE {}
    BY <1>9
  <2>7. o.labels \cup AllLabels(<<layer, p>>) = IF ComputeLabels THEN LabelsOf(layer, p) ELSE {}
    BY <2>2, <2>6
  <2> QED
    BY <2>2, <2>3, <2>4, <2>5, <2>7
<1>11. PathsTyped'
  <2> SUFFICES ASSUME NEW r \in DOMAIN path' PROVE path'[r] \in PathRecord
    BY DEF PathsTyped
  <2>1. CASE r \in DOMAIN path /\ path'[r] = path[r]
    BY <2>1 DEF PathInv, PathsTyped
  <2>2. CASE r[1] = layer /\ r[2] \in W(graph)[layer] /\ r[2] \in Pairs /\ r = <<layer, r[2]>>
    <3>0. PICK p \in W(graph)[layer] : r = <<layer, p>> /\ p \in Pairs
      BY <2>2
    <3>1. PICK a, b, c, d : a = path'[r].anc /\ b = path'[r].segs /\ c = path'[r].labels /\ d = path'[r].id
      OBVIOUS
    <3>2. path'[r] = [anc |-> a, segs |-> b, labels |-> c, id |-> d]
      BY <1>1, <3>0, <3>1
    <3>3. IsLast(layer, p, a) /\ d = -1 /\ b \in SUBSET (Nat \X Nat)
          /\ c = IF ComputeLabels THEN LabelsOf(layer, p) ELSE {}
      BY <1>10, <3>0, <3>1
    <3>4. a \in ((1..K) \X Pairs) \cup {None}
      <4>1. layer \in 1..(K + 1)
        BY <1>2
      <4> QED
        BY <3>0, <3>3, <4>1, IsLastType
    <3>5. c \in SUBSET Seq(Int)
      <4>1. LW(graph)[layer] \in SUBSET Marked
        BY <1>2, LabelTypes
      <4>2. LabelsOf(layer, p) \in SUBSET Seq(Int)
        BY <4>1 DEF LabelsOf, Marked
      <4> QED
        BY <3>3, <4>2
    <3> QED
      BY <3>2, <3>3, <3>4, <3>5 DEF PathRecord
  <2> QED
    BY <1>7, <2>1, <2>2
<1>12. \A l, p, a : IsLast(l, p, a)' <=> IsLast(l, p, a)
  BY <1>1 DEF IsLast
<1>13. AncestorsRight'
  <2> SUFFICES ASSUME NEW r \in DOMAIN path' PROVE IsLast(r[1], r[2], path'[r].anc)
    BY <1>12 DEF AncestorsRight
  <2>1. CASE r \in DOMAIN path /\ path'[r] = path[r]
    BY <2>1 DEF PathInv, AncestorsRight
  <2>2. CASE r[1] = layer /\ r[2] \in W(graph)[layer] /\ r = <<layer, r[2]>>
    BY <1>10, <2>2
  <2> QED
    BY <1>7, <2>1, <2>2
<1>14. HistoryRight'
  <2>0. PICK n, o : n = layer + 1 /\ o = Made + 1
    OBVIOUS
  <2>n. /\ n \in Nat /\ layer \in 1..(n - 1) /\ \A i : i \in 1..(n - 1) <=> i \in 1..layer
        /\ (layer + 1)..(n - 1) = {} /\ (o = n \/ o = layer) /\ Made' + 1 = n
    BY <1>2, <1>3, <2>0
  <2>1. /\ \A l \in 1..Made : W(graph)[l] \subseteq DOMAIN history
        /\ \A p \in DOMAIN history : history[p] # None /\ IsLast(o, p, history[p])
    BY <2>0 DEF PathInv, HistoryRight
  <2>2. \A l \in 1..layer : W(graph)[l] \subseteq DOMAIN history'
    <3> TAKE l \in 1..layer
    <3>1. CASE l = layer
      BY <1>1, <3>1
    <3>2. CASE l # layer
      <4>1. l \in 1..Made
        BY <1>2, <1>3, <3>2
      <4> QED
        BY <1>1, <2>1, <4>1
    <3> QED
      BY <3>1, <3>2
  <2>3. ASSUME NEW p \in W(graph)[layer] PROVE history'[p] # None /\ IsLast(n, p, history'[p])
    <3>1. history'[p] = <<layer, p>> /\ p \in Pairs
      BY <1>1, <1>5
    <3>2. <<layer, p>> # None
      BY <1>2, <3>1, NoneAssumption DEF Pairs
    <3> QED
      BY <2>n, <3>1, <3>2 DEF IsLast
  <2>4. ASSUME NEW p \in DOMAIN history', p \notin W(graph)[layer]
        PROVE  history'[p] # None /\ IsLast(n, p, history'[p])
    <3>1. history'[p] = history[p] /\ p \in DOMAIN history
      BY <1>1, <2>4
    <3>2. history[p] # None /\ IsLast(o, p, history[p])
      BY <2>1, <3>1
    <3>4. IsLast(n, p, history[p])
      <4>1. CASE o = n
        BY <3>2, <4>1
      <4>2. CASE o = layer
        <5>1. PICK m \in 1..(layer - 1) :
                  /\ history[p] = <<m, p>> /\ p \in W(graph)[m]
                  /\ \A j \in (m + 1)..(layer - 1) : p \notin W(graph)[j]
          BY <3>2, <4>2 DEF IsLast
        <5>2. m \in 1..(n - 1)
          BY <1>2, <2>n
        <5>3. \A j \in (m + 1)..(n - 1) : j = layer \/ j \in (m + 1)..(layer - 1)
          BY <1>2, <2>0
        <5>4. \A j \in (m + 1)..(n - 1) : p \notin W(graph)[j]
          BY <2>4, <5>1, <5>3
        <5> QED
          BY <5>1, <5>2, <5>4 DEF IsLast
      <4> QED
        BY <2>n, <4>1, <4>2
    <3> QED
      BY <3>1, <3>2, <3>4
  <2>5. \A p \in DOMAIN history' : history'[p] # None /\ IsLast(n, p, history'[p])
    BY <2>3, <2>4
  <2>6. ASSUME NEW p \in DOMAIN history' PROVE IsLast(Made + 1, p, history[p])'
    <3>1. PICK a : a = history'[p]
      OBVIOUS
    <3>2. IsLast(n, p, a)'
      BY <1>12, <2>5, <3>1
    <3> QED
      BY <2>n, <3>1, <3>2
  <2> QED
    BY <1>1, <1>3, <2>2, <2>5, <2>6 DEF HistoryRight
<1>15. SegmentsRight'
  <2> SUFFICES ASSUME NEW r \in DOMAIN path', NEW s PROVE s \in path'[r].segs <=> HasSegment(r[1], r[2], s)'
    BY DEF SegmentsRight
  <2>1. CASE r \in DOMAIN path /\ r[1] \in 1..(layer - 1) /\ path'[r] = path[r]
    <3>1. Joined(r[1]) = 1..(r[1] - 1) /\ Joined(r[1])' = 1..(r[1] - 1) /\ r[1] \in 1..layer
      BY <1>1, <1>2, <2>1 DEF Joined
    <3>n. PICK l, p : l = r[1] /\ p = r[2]
      OBVIOUS
    <3>m. l \in 1..layer /\ Joined(l) = 1..(l - 1) /\ Joined(l)' = 1..(l - 1)
      BY <3>1, <3>n
    <3>2. ASSUME NEW j \in 1..(l - 1) PROVE PartSegment(l, p, j, s)' <=> PartSegment(l, p, j, s)
      BY <3>m, JoinParts
    <3>3. HasSegment(l, p, s)' <=> HasSegment(l, p, s)
      BY <3>m, <3>2 DEF HasSegment
    <3>4. HasSegment(r[1], r[2], s)' <=> HasSegment(r[1], r[2], s)
      BY <3>n, <3>3
    <3> QED
      BY <2>1, <3>4 DEF PathInv, SegmentsRight
  <2>2. CASE r[1] = layer /\ r[2] \in W(graph)[layer] /\ r = <<layer, r[2]>>
    <3>1. PICK p \in W(graph)[layer] : r = <<layer, p>> /\ r[1] = layer /\ r[2] = p
      BY <2>2
    <3>n. PICK l, i : l = layer /\ i = split
      OBVIOUS
    <3>m. l \in 1..layer /\ \A j \in i..(l - 1) : j \in 1..(l - 1)
      BY <1>2, <3>n
    <3>2. Joined(l) = (i + 1)..(l - 1)
      BY <1>1, <3>n DEF Joined
    <3>3. Joined(l)' = i..(l - 1)
      BY <1>1, <1>2, <3>n DEF Joined
    <3>4. \A j : j \in i..(l - 1) <=> j = i \/ j \in (i + 1)..(l - 1)
      BY <1>2, <3>n
    <3>5. ASSUME NEW j \in i..(l - 1) PROVE PartSegment(l, p, j, s)' <=> PartSegment(l, p, j, s)
      BY <3>m, JoinParts
    <3>6. HasSegment(l, p, s)' <=> HasSegment(l, p, s) \/ PartSegment(l, p, i, s)
      BY <3>2, <3>3, <3>4, <3>5 DEF HasSegment
    <3>7. s \in path'[<<layer, p>>].segs <=> HasSegment(l, p, s) \/ PartSegment(l, p, i, s)
      BY <1>10, <3>1, <3>n
    <3>8. HasSegment(r[1], r[2], s)' <=> HasSegment(l, p, s)'
      BY <3>1, <3>n
    <3> QED
      BY <3>1, <3>6, <3>7, <3>8
  <2> QED
    BY <1>7, <2>1, <2>2
<1>16. LabelsRight'
  <2>1. \A l, p : LabelsOf(l, p)' = LabelsOf(l, p)
    BY <1>1 DEF LabelsOf
  <2> SUFFICES ASSUME NEW r \in DOMAIN path'
               PROVE  path'[r].labels = IF r[1] = 1 \/ ComputeLabels THEN LabelsOf(r[1], r[2]) ELSE {}
    BY <2>1 DEF LabelsRight
  <2>2. CASE r \in DOMAIN path /\ path'[r] = path[r]
    BY <2>2 DEF PathInv, LabelsRight
  <2>3. CASE r[1] = layer /\ r[2] \in W(graph)[layer] /\ r = <<layer, r[2]>>
    BY <1>2, <1>10, <2>3
  <2> QED
    BY <1>7, <2>2, <2>3
<1>17. IdsGiven'
  <2> SUFFICES ASSUME NEW r \in DOMAIN path'
               PROVE  IF r[1] <= layer - 1 THEN path'[r].id \in 1..lastId ELSE path'[r].id = -1
    BY <1>1, <1>3 DEF IdsGiven
  <2>1. CASE r \in DOMAIN path /\ r[1] \in 1..(layer - 1) /\ path'[r] = path[r]
    BY <1>2, <1>3, <2>1 DEF PathInv, IdsGiven
  <2>2. CASE r[1] = layer /\ r[2] \in W(graph)[layer] /\ r = <<layer, r[2]>>
    BY <1>2, <1>10, <2>2
  <2> QED
    BY <1>7, <2>1, <2>2
<1>18. \A r \in DOMAIN path' : r[1] <= layer - 1 => r \in DOMAIN path /\ path'[r] = path[r]
  BY <1>2, <1>7
<1>19. IdsRise'
  <2> SUFFICES ASSUME NEW a \in DOMAIN path', NEW b \in DOMAIN path', a[1] < b[1], b[1] <= layer - 1
               PROVE  path'[a].id < path'[b].id
    BY <1>3 DEF IdsRise
  <2>1. a[1] <= layer - 1
    <3>1. a[1] \in Int /\ b[1] \in Int
      BY <1>2, <1>7
    <3> QED
      BY <1>2, <3>1
  <2> QED
    BY <1>3, <1>18, <2>1 DEF PathInv, IdsRise
<1>20. IdsAlike'
  <2> SUFFICES ASSUME NEW a \in DOMAIN path', NEW b \in DOMAIN path', a[1] = b[1], a[1] <= layer - 1
               PROVE  path'[a].id = path'[b].id <=> Alike(a, b)'
    BY <1>3 DEF IdsAlike
  <2>1. a \in DOMAIN path /\ b \in DOMAIN path /\ path'[a] = path[a] /\ path'[b] = path[b] /\ a[1] <= Numbered
    BY <1>3, <1>18
  <2>2. \A r \in {a, b} : path[r].anc # None => path'[path[r].anc] = path[path[r].anc]
    <3> TAKE r \in {a, b}
    <3> HAVE path[r].anc # None
    <3>1. path[r].anc \in DOMAIN path /\ path[r].anc[1] < r[1] /\ r[1] = a[1]
      BY <2>1, PartsThere
    <3>2. path[r].anc[1] \in Int /\ a[1] \in Int
      BY <1>2, <2>1, <3>1 DEF PathsThere
    <3>3. path[r].anc[1] # layer
      BY <1>2, <1>3, <2>1, <3>1, <3>2
    <3> QED
      BY <1>1, <3>1, <3>3
  <2>3. Alike(a, b)' <=> Alike(a, b)
    BY <2>1, <2>2 DEF Alike, SameAncestor
  <2> QED
    BY <2>1, <2>3 DEF PathInv, IdsAlike
<1>21. SequencesRight'
  <2>1. /\ DOMAIN segments = 1..K
        /\ \A l \in 1..(layer - 1) : InLine(segments[l], PathsOf(l), path)
        /\ \A l \in layer..K : segments[l] = <<>>
    BY <1>2, <1>3 DEF PathInv, SequencesRight
  <2>2. \A l \in 1..(layer - 1) : PathsOf(l)' = PathsOf(l)
    <3> TAKE l \in 1..(layer - 1)
    <3>1. l # layer
      BY <1>2
    <3>2. \A r : r[1] = l => (r \in DOMAIN path' <=> r \in DOMAIN path)
      BY <1>1, <3>1
    <3> QED
      BY <3>2 DEF PathsOf
  <2>3. ASSUME NEW l \in 1..(layer - 1) PROVE InLine(segments'[l], PathsOf(l), path')
    <3>1. PICK s, S : s = segments[l] /\ S = PathsOf(l)
      OBVIOUS
    <3>2. InLine(s, S, path) /\ \A r \in S : path'[r] = path[r]
      <4>1. l # layer
        BY <1>2
      <4> QED
        BY <1>1, <2>1, <3>1, <4>1 DEF PathsOf
    <3>3. \A i \in 1..Cardinality(S) : path'[s[i]] = path[s[i]]
      BY <3>2 DEF InLine
    <3>4. InLine(s, S, path')
      BY <3>2, <3>3 DEF InLine
    <3> QED
      BY <1>1, <3>1, <3>4
  <2> QED
    BY <1>1, <1>2, <1>3, <2>1, <2>2, <2>3 DEF SequencesRight
<1> QED
  BY <1>4, <1>6, <1>11, <1>13, <1>14, <1>15, <1>16, <1>17, <1>19, <1>20, <1>21 DEF PathInv

(***************************************************************************)
(* From the first edge to the last block, the paths of every layer that is *)
(* there are the walks of its length, each with the last path of its pair  *)
(* before it as its ancestor, with the parts it was joined from and with   *)
(* its labels; a numbered layer is sorted, its ids are above those of the  *)
(* layers below, and two of its paths share one exactly if the path, the   *)
(* parts and the ancestor do not tell them apart.                          *)
(***************************************************************************)
THEOREM PathsRight == Spec => []PathInv
<1>1. PathInv /\ [Next]_vars => PathInv'
  <2> SUFFICES ASSUME PathInv, [Next]_vars PROVE PathInv'
    OBVIOUS
  <2>1. Control /\ K \in Nat \ {0}
    BY DiameterAssumption DEF PathInv
  <2>2. CASE CollectEdges
    BY <2>2, CollectKeeps
  <2>3. CASE Number
    BY <2>3, NumberKeeps
  <2>4. CASE Join
    BY <2>4, JoinKeeps
  <2>5. CASE BlocksOfLayer
    <3>1. /\ pc = "blocks" /\ UNCHANGED <<split, partitionVars>>
          /\ (pc' = pc /\ layer < K /\ layer' = layer + 1) \/ (pc' = "remaining" /\ layer' = layer /\ ~(layer < K))
      BY <2>5 DEF BlocksOfLayer
    <3>2. graph' = graph /\ lastId' = lastId /\ split' = split /\ pc' \in {"blocks", "remaining"}
      BY <3>1 DEF partitionVars
    <3>3. layer' \in 1..K /\ (pc' = "remaining" => layer' = K)
      BY <2>1, <3>1 DEF Control
    <3>4. Control'
      BY <2>1, <3>2, <3>3 DEF Control
    <3>5. Made' = Made /\ Numbered' = Numbered /\ \A l \in 1..Made : Joined(l)' = Joined(l)
      BY <3>1, <3>2 DEF Made, Numbered, Joined
    <3> QED
      BY <3>1, <3>4, <3>5, PathKept
  <2>6. CASE EmptyLayer
    <3>1. pc = "blocks" /\ pc' = "failed" /\ UNCHANGED <<layer, split, partitionVars>>
      BY <2>6 DEF EmptyLayer
    <3>2. graph' = graph /\ lastId' = lastId /\ split' = split /\ layer' = layer
      BY <3>1 DEF partitionVars
    <3>4. Control'
      BY <2>1, <3>1, <3>2 DEF Control
    <3>5. Made' = Made /\ Numbered' = Numbered /\ \A l \in 1..Made : Joined(l)' = Joined(l)
      BY <3>1, <3>2 DEF Made, Numbered, Joined
    <3> QED
      BY <3>1, <3>4, <3>5, PathKept
  <2>7. CASE Remaining
    <3>1. pc = "remaining" /\ pc' = "built" /\ UNCHANGED <<layer, split, partitionVars>>
      BY <2>7 DEF Remaining
    <3>2. graph' = graph /\ lastId' = lastId /\ split' = split /\ layer' = layer
      BY <3>1 DEF partitionVars
    <3>4. Control'
      BY <2>1, <3>1, <3>2 DEF Control
    <3>5. Made' = Made /\ Numbered' = Numbered /\ \A l \in 1..Made : Joined(l)' = Joined(l)
      BY <3>1, <3>2 DEF Made, Numbered, Joined
    <3> QED
      BY <3>1, <3>4, <3>5, PathKept
  <2>8. CASE UNCHANGED vars
    <3>1. pc' = pc /\ UNCHANGED <<layer, split, partitionVars>>
      BY <2>8 DEF vars
    <3>2. graph' = graph /\ lastId' = lastId /\ split' = split /\ layer' = layer
      BY <3>1 DEF partitionVars
    <3>4. Control'
      BY <2>1, <3>1, <3>2 DEF Control
    <3>5. Made' = Made /\ Numbered' = Numbered /\ \A l \in 1..Made : Joined(l)' = Joined(l)
      BY <3>1, <3>2 DEF Made, Numbered, Joined
    <3> QED
      BY <3>1, <3>4, <3>5, PathKept
  <2> QED
    BY <2>2, <2>3, <2>4, <2>5, <2>6, <2>7, <2>8 DEF Next, Done
<1> QED
  BY <1>1, PathStart, PTL DEF Spec

-----------------------------------------------------------------------------
(* The reference definition of bisimilar pairs.                            *)

\* What is bisimilar at each length; loops; the labels of an edge.
B(g) == Ref!Bisimilar(g, K)
LoopPair(p) == p[1] = p[2]
StepLabels(g, p) == {s[2] : s \in {s \in Ref!Steps(g) : <<s[1], s[3]>> = p}}

\* The lower lengths that p occurs at, and the first parts of length j of its paths of length i.
Earlier(g, p, i) == {j \in 1..(i - 1) : p \in W(g)[j]}
FirstParts(g, p, i, j) == {w \in W(g)[j] : w[1] = p[1] /\ <<w[2], p[2]>> \in W(g)[i - j]}

\* Every path of q is matched by one of p with parts that are alike; so is the last length.
Matched(g, prev, i, p, q) ==
    \A j \in 1..(i - 1) :
        \A y \in FirstParts(g, q, i, j) : \E x \in FirstParts(g, p, i, j) :
            <<x, y>> \in prev[j] /\ <<<<x[2], p[2]>>, <<y[2], q[2]>>>> \in prev[i - j]
SameBefore(g, prev, i, p, q) ==
    IF Earlier(g, p, i) = {} THEN Earlier(g, q, i) = {}
    ELSE /\ Earlier(g, q, i) # {} /\ Max(Earlier(g, p, i)) = Max(Earlier(g, q, i))
         /\ <<p, q>> \in prev[Max(Earlier(g, p, i))]
Same(g, prev, i, p, q) ==
    /\ LoopPair(p) = LoopPair(q)
    /\ Matched(g, prev, i, p, q) /\ Matched(g, prev, i, q, p)
    /\ SameBefore(g, prev, i, p, q)

\* The first length, and each other from those before it.
AlikeFirst(g) ==
    {x \in W(g)[1] \X W(g)[1] :
         LoopPair(x[1]) = LoopPair(x[2]) /\ StepLabels(g, x[1]) = StepLabels(g, x[2])}
AlikeNext(g, prev) ==
    {x \in W(g)[Len(prev) + 1] \X W(g)[Len(prev) + 1] : Same(g, prev, Len(prev) + 1, x[1], x[2])}

\* The reference definition, by these names.
LEMMA BisimilarIs ==
    ASSUME NEW g
    PROVE  B(g) = (CHOOSE f : f = [i \in 1..K |-> IF i = 1 THEN <<AlikeFirst(g)>>
                                                  ELSE Append(f[i - 1], AlikeNext(g, f[i - 1]))])[K]
BY DEF B, W, AlikeFirst, AlikeNext, Same, SameBefore, Matched, FirstParts, Earlier, StepLabels, LoopPair,
       Ref!Bisimilar, Ref!Grow, Ref!Max, Max

\* Which pairs are alike at a length depends on what is alike at smaller lengths only.
LEMMA AlikeKept ==
    ASSUME NEW g, NEW i \in 1..(K - 1), NEW e, NEW f, \A j \in 1..i : e[j] = f[j], NEW p, NEW q
    PROVE  Same(g, e, i + 1, p, q) <=> Same(g, f, i + 1, p, q)
<1>1. \A j \in 1..(i + 1 - 1) : j \in 1..i /\ i + 1 - j \in 1..i
  BY DiameterAssumption
<1>2. \A x, y : Matched(g, e, i + 1, x, y) <=> Matched(g, f, i + 1, x, y)
  <2>1. PICK n : n = i + 1
    OBVIOUS
  <2>2. \A j \in 1..(n - 1) : e[j] = f[j] /\ e[n - j] = f[n - j]
    BY <1>1, <2>1
  <2>3. \A x, y : Matched(g, e, n, x, y) <=> Matched(g, f, n, x, y)
    BY <2>2 DEF Matched
  <2> QED
    BY <2>1, <2>3
<1>3. Earlier(g, p, i + 1) # {} => Max(Earlier(g, p, i + 1)) \in 1..i
  <2> HAVE Earlier(g, p, i + 1) # {}
  <2>1. Earlier(g, p, i + 1) \in SUBSET (1..i)
    BY <1>1 DEF Earlier
  <2>2. PICK S, j : S = Earlier(g, p, i + 1) /\ j \in S
    OBVIOUS
  <2>3. S \in SUBSET Nat /\ S # {} /\ i \in Nat /\ \A k \in S : k <= i
    BY <2>1, <2>2
  <2>4. \E m \in S : \A k \in S : k <= m
    BY <2>3, GreatestNat
  <2>5. \E m \in S : \A k \in S : m >= k
    BY <2>3, <2>4
  <2> QED
    BY <2>1, <2>2, <2>5 DEF Max
<1>4. SameBefore(g, e, i + 1, p, q) <=> SameBefore(g, f, i + 1, p, q)
  BY <1>3 DEF SameBefore
<1> QED
  BY <1>2, <1>4 DEF Same

\* Each length looks at the lengths before it.
LEMMA BisimilarGrows ==
    ASSUME NEW g \in Graphs
    PROVE  /\ B(g)[1] = AlikeFirst(g)
           /\ \A i \in 1..(K - 1) : \A p, q :
                  <<p, q>> \in B(g)[i + 1] <=>
                      p \in W(g)[i + 1] /\ q \in W(g)[i + 1] /\ Same(g, B(g), i + 1, p, q)
<1> DEFINE T == SUBSET (Pairs \X Pairs)
           D == Begun(T, K)
           first == AlikeFirst(g)
           step == [q \in D |-> AlikeNext(g, q)]
           Solves(f) == f = [i \in 1..K |-> IF i = 1 THEN <<first>> ELSE Append(f[i - 1], AlikeNext(g, f[i - 1]))]
           h == CHOOSE f : Solves(f)
<1>1. K \in Nat \ {0} /\ first \in T
  <2>1. K \in Nat \ {0} /\ 1 \in 1..K
    BY DiameterAssumption
  <2> QED
    BY <2>1, WalkTypes DEF AlikeFirst
<1>2. step \in [D -> T]
  <2>1. ASSUME NEW q \in D PROVE AlikeNext(g, q) \in T
    <3>1. Len(q) + 1 \in 1..K
      BY <1>1 DEF Begun
    <3>2. W(g)[Len(q) + 1] \in SUBSET Pairs
      BY <3>1, WalkTypes
    <3> QED
      BY <3>2 DEF AlikeNext
  <2> QED
    BY <2>1
<1>3. \A q \in D : step[q] = AlikeNext(g, q)
  OBVIOUS
<1> HIDE DEF step, first
<1>4. PICK e : DOMAIN e = 1..K /\ Grown(K, T, first, step, e)
  BY <1>1, <1>2, GrownExists
<1>5. \A i \in 1..(K - 1) : e[i] \in D
  BY <1>1, <1>2, <1>4, GrownIs
<1>6. PICK f : f = [i \in 1..K |-> e[i]]
  OBVIOUS
<1>7. Solves(f)
  <2>1. f[1] = <<first>>
    BY <1>1, <1>4, <1>6 DEF Grown
  <2>2. ASSUME NEW i \in 1..K, i # 1
        PROVE  f[i] = Append(f[i - 1], AlikeNext(g, f[i - 1]))
    <3>1. PICK j : j = i - 1
      OBVIOUS
    <3>2. j \in 1..(K - 1) /\ j + 1 = i /\ j \in 1..K
      BY <1>1, <2>2, <3>1
    <3>3. f[j] = e[j] /\ f[i] = e[i]
      BY <1>6, <3>2
    <3>4. e[j + 1] = Append(e[j], step[e[j]]) /\ e[j] \in D
      BY <1>4, <1>5, <3>2 DEF Grown
    <3>5. step[e[j]] = AlikeNext(g, e[j])
      BY <1>3, <3>4
    <3> QED
      BY <3>1, <3>2, <3>3, <3>4, <3>5
  <2> QED
    BY <1>6, <2>1, <2>2
<1>8. Solves(h)
  BY <1>7
<1>9. B(g) = h[K]
  BY BisimilarIs DEF first
<1> HIDE DEF h, T
<1>10. Grown(K, T, first, step, h)
  <2>1. h[1] = <<first>>
    BY <1>1, <1>8
  <2>2. ASSUME NEW i \in 1..(K - 1), h[i] \in D
        PROVE  h[i + 1] = Append(h[i], step[h[i]])
    <3>1. PICK j : j = i + 1
      OBVIOUS
    <3>2. j \in 1..K /\ j # 1 /\ j - 1 = i
      BY <1>1, <3>1
    <3>3. h[j] = Append(h[i], AlikeNext(g, h[i]))
      BY <1>8, <3>2
    <3> QED
      BY <1>3, <2>2, <3>1, <3>3
  <2> QED
    BY <2>1, <2>2 DEF Grown
<1>11. /\ \A i \in 1..K : h[i] \in Seq(T) /\ Len(h[i]) = i
       /\ h[K][1] = first
       /\ \A i \in 1..(K - 1) :
              /\ h[i] \in D /\ \A j \in 1..i : h[i][j] = h[K][j]
              /\ h[K][i + 1] = step[h[i]]
  BY <1>1, <1>2, <1>10, GrownIs
<1>12. ASSUME NEW i \in 1..(K - 1), NEW p, NEW q
       PROVE  <<p, q>> \in B(g)[i + 1] <=>
                  p \in W(g)[i + 1] /\ q \in W(g)[i + 1] /\ Same(g, B(g), i + 1, p, q)
  <2>1. h[i] \in D /\ h[K][i + 1] = step[h[i]] /\ Len(h[i]) = i /\ \A j \in 1..i : h[i][j] = h[K][j]
    <3>1. i \in 1..K
      BY <1>1
    <3> QED
      BY <1>11, <3>1
  <2>2. B(g)[i + 1] = {x \in W(g)[i + 1] \X W(g)[i + 1] : Same(g, h[i], i + 1, x[1], x[2])}
    BY <1>3, <1>9, <2>1 DEF AlikeNext
  <2>3. Same(g, h[i], i + 1, p, q) <=> Same(g, B(g), i + 1, p, q)
    BY <1>9, <2>1, AlikeKept
  <2> QED
    BY <2>2, <2>3
<1> QED
  BY <1>9, <1>11, <1>12 DEF first

-----------------------------------------------------------------------------
(* The ids of all layers.                                                  *)

\* All layers are numbered.
AllNumbered == PathInv /\ pc \notin {"edges", "join", "number"}

\* The ids of a layer are shared by bisimilar pairs.
IdsFit(l) ==
    \A p, q \in W(graph)[l] : path[<<l, p>>].id = path[<<l, q>>].id <=> <<p, q>> \in B(graph)[l]

\* Once all layers are numbered there is a path for each walk.
LEMMA NumberedPath ==
    ASSUME AllNumbered, NEW i \in 1..K, NEW p \in W(graph)[i]
    PROVE  /\ <<i, p>> \in DOMAIN path /\ p \in Pairs /\ graph \in Graphs
           /\ Made = K /\ Numbered = K /\ path[<<i, p>>].id \in 1..lastId /\ lastId \in Nat
           /\ Joined(i) = 1..(i - 1)
<1>1. PathInv /\ graph \in Graphs /\ Made = K /\ Numbered = K /\ Joined(i) = 1..(i - 1) /\ lastId \in Nat
  BY DEF AllNumbered, PathInv, Control, Made, Numbered, Joined
<1>2. p \in Pairs
  BY <1>1, WalkTypes
<1>3. PICK r : r = <<i, p>>
  OBVIOUS
<1>4. r[1] = i /\ r \in DOMAIN path /\ i <= K
  BY <1>1, <1>2, <1>3 DEF PathInv, PathsThere
<1> QED
  BY <1>1, <1>2, <1>3, <1>4 DEF PathInv, IdsGiven

\* Paths of two layers have different ids.
LEMMA IdsApart ==
    ASSUME AllNumbered, NEW i \in 1..K, NEW j \in 1..K, NEW p \in W(graph)[i], NEW q \in W(graph)[j],
           path[<<i, p>>].id = path[<<j, q>>].id
    PROVE  i = j
<1>1. PICK a, b : a = <<i, p>> /\ b = <<j, q>>
  OBVIOUS
<1>2. /\ a \in DOMAIN path /\ b \in DOMAIN path /\ a[1] = i /\ b[1] = j /\ Numbered = K
      /\ path[a].id \in Nat /\ path[b].id \in Nat /\ path[a].id = path[b].id
  BY <1>1, NumberedPath
<1>3. ~(i < j) /\ ~(j < i)
  BY <1>2 DEF AllNumbered, PathInv, IdsRise
<1> QED
  BY <1>3

\* The ancestor of a path is the path of its pair at the last length before.
LEMMA AncestorIs ==
    ASSUME AllNumbered, NEW i \in 1..K, NEW p \in W(graph)[i]
    PROVE  /\ path[<<i, p>>].anc = None <=> Earlier(graph, p, i) = {}
           /\ Earlier(graph, p, i) # {} =>
                  /\ Max(Earlier(graph, p, i)) \in 1..(i - 1)
                  /\ p \in W(graph)[Max(Earlier(graph, p, i))]
                  /\ path[<<i, p>>].anc = <<Max(Earlier(graph, p, i)), p>>
<1>1. PICK a, r : r = <<i, p>> /\ a = path[r].anc
  OBVIOUS
<1>2. r \in DOMAIN path /\ r[1] = i /\ r[2] = p /\ p \in Pairs
  BY <1>1, NumberedPath
<1>3. IsLast(i, p, a)
  BY <1>1, <1>2 DEF AllNumbered, PathInv, AncestorsRight
<1>4. CASE a = None /\ \A j \in 1..(i - 1) : p \notin W(graph)[j]
  BY <1>1, <1>4 DEF Earlier
<1>5. CASE \E m \in 1..(i - 1) :
               a = <<m, p>> /\ p \in W(graph)[m] /\ \A j \in (m + 1)..(i - 1) : p \notin W(graph)[j]
  <2>1. PICK m \in 1..(i - 1) :
            a = <<m, p>> /\ p \in W(graph)[m] /\ \A j \in (m + 1)..(i - 1) : p \notin W(graph)[j]
    BY <1>5
  <2>2. a # None
    BY <1>2, <2>1, NoneAssumption DEF Pairs
  <2>3. PICK S : S = Earlier(graph, p, i)
    OBVIOUS
  <2>4. m \in S /\ S \in SUBSET (1..(i - 1))
    BY <2>1, <2>3 DEF Earlier
  <2>5. \A k \in S : m >= k
    <3> TAKE k \in S
    <3>1. k \in 1..(i - 1) /\ p \in W(graph)[k]
      BY <2>3 DEF Earlier
    <3> QED
      BY <2>1, <3>1
  <2>6. Max(S) = m
    <3>1. Max(S) \in S /\ \A k \in S : Max(S) >= k
      BY <2>4, <2>5 DEF Max
    <3>2. m >= Max(S) /\ Max(S) >= m
      BY <2>4, <2>5, <3>1
    <3>3. PICK n : n = Max(S)
      OBVIOUS
    <3>4. n \in Int /\ m \in Int
      <4>1. i \in Nat /\ n \in S
        BY <3>1, <3>3, DiameterAssumption
      <4>2. S \in SUBSET Int
        BY <2>4, <4>1
      <4> QED
        BY <2>4, <4>1, <4>2
    <3> QED
      BY <3>2, <3>3, <3>4
  <2> QED
    BY <1>1, <2>1, <2>2, <2>3, <2>4, <2>6
<1> QED
  BY <1>3, <1>4, <1>5 DEF IsLast

\* The two parts of a path give one of its segments.
SegmentOf(w, p, i, j) == <<path[<<j, w>>].id, path[<<i - j, <<w[2], p[2]>>>>].id>>

\* The segments of a path are the ids of all of its parts.
LEMMA SegmentsAre ==
    ASSUME AllNumbered, NEW i \in 1..K, NEW p \in W(graph)[i], NEW s
    PROVE  s \in path[<<i, p>>].segs <=>
               \E j \in 1..(i - 1) : \E w \in FirstParts(graph, p, i, j) : s = SegmentOf(w, p, i, j)
<1>1. PICK r : r = <<i, p>>
  OBVIOUS
<1>2. r \in DOMAIN path /\ r[1] = i /\ r[2] = p /\ p \in Pairs /\ Joined(i) = 1..(i - 1) /\ graph \in Graphs
  BY <1>1, NumberedPath
<1>3. s \in path[r].segs <=> \E j \in 1..(i - 1) : PartSegment(i, p, j, s)
  BY <1>2 DEF AllNumbered, PathInv, SegmentsRight, HasSegment
<1>4. ASSUME NEW j \in 1..(i - 1)
      PROVE  PartSegment(i, p, j, s) <=> \E w \in FirstParts(graph, p, i, j) : s = SegmentOf(w, p, i, j)
  <2>1. W(graph)[j] \in SUBSET Pairs
    <3>1. j \in 1..K
      BY DiameterAssumption
    <3> QED
      BY <1>2, <3>1, WalkTypes
  <2>2. ASSUME PartSegment(i, p, j, s)
        PROVE  \E w \in FirstParts(graph, p, i, j) : s = SegmentOf(w, p, i, j)
    <3>1. PICK m \in Vertex :
              /\ <<p[1], m>> \in W(graph)[j] /\ <<m, p[2]>> \in W(graph)[i - j]
              /\ s = <<path[<<j, <<p[1], m>>>>].id, path[<<i - j, <<m, p[2]>>>>].id>>
      BY <2>2 DEF PartSegment
    <3>2. PICK w : w = <<p[1], m>>
      OBVIOUS
    <3>3. w[1] = p[1] /\ w[2] = m
      BY <3>2
    <3> QED
      BY <3>1, <3>2, <3>3 DEF FirstParts, SegmentOf
  <2>3. ASSUME NEW w \in FirstParts(graph, p, i, j), s = SegmentOf(w, p, i, j)
        PROVE  PartSegment(i, p, j, s)
    <3>1. w \in W(graph)[j] /\ w[1] = p[1] /\ <<w[2], p[2]>> \in W(graph)[i - j]
      BY DEF FirstParts
    <3>2. PICK u \in Vertex, m \in Vertex : w = <<u, m>>
      BY <2>1, <3>1 DEF Pairs
    <3>3. w[1] = u /\ w[2] = m
      BY <3>2
    <3> QED
      BY <2>3, <3>1, <3>2, <3>3 DEF PartSegment, SegmentOf
  <2> QED
    BY <2>2, <2>3
<1> QED
  BY <1>1, <1>3, <1>4

\* One path has all segments of another exactly if the parts of the other are matched.
LEMMA SegmentsMatch ==
    ASSUME AllNumbered, NEW i \in 1..K, NEW p \in W(graph)[i], NEW q \in W(graph)[i],
           \A j \in 1..(i - 1) : IdsFit(j)
    PROVE  path[<<i, q>>].segs \subseteq path[<<i, p>>].segs <=> Matched(graph, B(graph), i, p, q)
<1> DEFINE First(z, j) == FirstParts(graph, z, i, j)
<1>1. \A j \in 1..(i - 1) : j \in 1..K /\ i - j \in 1..K /\ i - j \in 1..(i - 1)
  BY DiameterAssumption
<1>2. \A z, j : \A w \in First(z, j) : w \in W(graph)[j] /\ <<w[2], z[2]>> \in W(graph)[i - j]
  BY DEF FirstParts
<1>3. \A s : s \in path[<<i, p>>].segs <=> \E j \in 1..(i - 1) : \E w \in First(p, j) : s = SegmentOf(w, p, i, j)
  BY SegmentsAre
<1>4. \A s : s \in path[<<i, q>>].segs <=> \E j \in 1..(i - 1) : \E w \in First(q, j) : s = SegmentOf(w, q, i, j)
  BY SegmentsAre
<1>5. ASSUME NEW j \in 1..(i - 1), NEW k \in 1..(i - 1), NEW y \in First(q, j), NEW x \in First(p, k)
      PROVE  SegmentOf(y, q, i, j) = SegmentOf(x, p, i, k) <=>
                 /\ k = j /\ <<x, y>> \in B(graph)[j]
                 /\ <<<<x[2], p[2]>>, <<y[2], q[2]>>>> \in B(graph)[i - j]
  <2>1. /\ y \in W(graph)[j] /\ <<y[2], q[2]>> \in W(graph)[i - j]
        /\ x \in W(graph)[k] /\ <<x[2], p[2]>> \in W(graph)[i - k]
    BY <1>2
  <2>2. PICK a, b, n, m : a = <<y[2], q[2]>> /\ b = <<x[2], p[2]>> /\ n = i - j /\ m = i - k
    OBVIOUS
  <2>3. SegmentOf(y, q, i, j) = SegmentOf(x, p, i, k) <=>
            path[<<j, y>>].id = path[<<k, x>>].id /\ path[<<n, a>>].id = path[<<m, b>>].id
    BY <2>2 DEF SegmentOf
  <2>4. path[<<j, y>>].id = path[<<k, x>>].id => k = j
    BY <1>1, <2>1, IdsApart
  <2>5. ASSUME k = j
        PROVE  /\ path[<<j, y>>].id = path[<<k, x>>].id <=> <<x, y>> \in B(graph)[j]
               /\ path[<<n, a>>].id = path[<<m, b>>].id <=> <<b, a>> \in B(graph)[n]
    <3>1. m = n /\ n \in 1..(i - 1) /\ a \in W(graph)[n] /\ b \in W(graph)[n]
      BY <1>1, <2>1, <2>2, <2>5
    <3>2. path[<<n, b>>].id = path[<<n, a>>].id <=> <<b, a>> \in B(graph)[n]
      BY <3>1 DEF IdsFit
    <3>3. path[<<j, x>>].id = path[<<j, y>>].id <=> <<x, y>> \in B(graph)[j]
      BY <2>1, <2>5 DEF IdsFit
    <3> QED
      BY <2>5, <3>1, <3>2, <3>3
  <2> QED
    BY <2>2, <2>3, <2>4, <2>5
<1>6. Matched(graph, B(graph), i, p, q) <=>
          \A j \in 1..(i - 1) : \A y \in First(q, j) : \E x \in First(p, j) :
              <<x, y>> \in B(graph)[j] /\ <<<<x[2], p[2]>>, <<y[2], q[2]>>>> \in B(graph)[i - j]
  BY DEF Matched
<1> HIDE DEF First
<1>7. ASSUME path[<<i, q>>].segs \subseteq path[<<i, p>>].segs
      PROVE  Matched(graph, B(graph), i, p, q)
  <2>1. ASSUME NEW j \in 1..(i - 1), NEW y \in First(q, j)
        PROVE  \E x \in First(p, j) :
                   <<x, y>> \in B(graph)[j] /\ <<<<x[2], p[2]>>, <<y[2], q[2]>>>> \in B(graph)[i - j]
    <3>1. SegmentOf(y, q, i, j) \in path[<<i, p>>].segs
      BY <1>4, <1>7
    <3>2. PICK k \in 1..(i - 1) : \E x \in First(p, k) : SegmentOf(y, q, i, j) = SegmentOf(x, p, i, k)
      BY <1>3, <3>1
    <3>3. PICK x \in First(p, k) : SegmentOf(y, q, i, j) = SegmentOf(x, p, i, k)
      BY <3>2
    <3>4. /\ k = j /\ <<x, y>> \in B(graph)[j]
          /\ <<<<x[2], p[2]>>, <<y[2], q[2]>>>> \in B(graph)[i - j]
      BY <1>5, <3>3
    <3>5. x \in First(p, j)
      BY <3>4
    <3> QED
      BY <3>4, <3>5
  <2> QED
    BY <1>6, <2>1
<1>8. ASSUME Matched(graph, B(graph), i, p, q)
      PROVE  path[<<i, q>>].segs \subseteq path[<<i, p>>].segs
  <2> SUFFICES ASSUME NEW s \in path[<<i, q>>].segs PROVE s \in path[<<i, p>>].segs
    OBVIOUS
  <2>1. PICK j \in 1..(i - 1) : \E y \in First(q, j) : s = SegmentOf(y, q, i, j)
    BY <1>4
  <2>2. PICK y \in First(q, j) : s = SegmentOf(y, q, i, j)
    BY <2>1
  <2>3. PICK x \in First(p, j) :
            <<x, y>> \in B(graph)[j] /\ <<<<x[2], p[2]>>, <<y[2], q[2]>>>> \in B(graph)[i - j]
    BY <1>6, <1>8
  <2>4. s = SegmentOf(x, p, i, j)
    BY <1>5, <2>2, <2>3
  <2> QED
    BY <1>3, <2>4
<1> QED
  BY <1>7, <1>8

\* Two paths have one ancestor id if their pairs are alike at the last length before.
LEMMA AncestorsMatch ==
    ASSUME AllNumbered, NEW i \in 1..K, NEW p \in W(graph)[i], NEW q \in W(graph)[i],
           \A j \in 1..(i - 1) : IdsFit(j)
    PROVE  SameAncestor(<<i, p>>, <<i, q>>) <=> SameBefore(graph, B(graph), i, p, q)
<1> DEFINE E(x) == Earlier(graph, x, i)
<1>1. PICK a, b : a = path[<<i, p>>].anc /\ b = path[<<i, q>>].anc
  OBVIOUS
<1>2. SameAncestor(<<i, p>>, <<i, q>>) <=>
          (a = None <=> b = None) /\ (a # None => path[a].id = path[b].id)
  BY <1>1 DEF SameAncestor
<1>3. SameBefore(graph, B(graph), i, p, q) <=>
          \/ E(p) = {} /\ E(q) = {}
          \/ E(p) # {} /\ E(q) # {} /\ Max(E(p)) = Max(E(q)) /\ <<p, q>> \in B(graph)[Max(E(p))]
  BY DEF SameBefore
<1>4. /\ a = None <=> E(p) = {}
      /\ E(p) # {} => Max(E(p)) \in 1..(i - 1) /\ p \in W(graph)[Max(E(p))] /\ a = <<Max(E(p)), p>>
  BY <1>1, AncestorIs
<1>5. /\ b = None <=> E(q) = {}
      /\ E(q) # {} => Max(E(q)) \in 1..(i - 1) /\ q \in W(graph)[Max(E(q))] /\ b = <<Max(E(q)), q>>
  BY <1>1, AncestorIs
<1> HIDE DEF E
<1>6. ASSUME E(p) # {}, E(q) # {}
      PROVE  path[a].id = path[b].id <=> Max(E(p)) = Max(E(q)) /\ <<p, q>> \in B(graph)[Max(E(p))]
  <2>1. PICK m, n : m = Max(E(p)) /\ n = Max(E(q))
    OBVIOUS
  <2>2. /\ m \in 1..(i - 1) /\ n \in 1..(i - 1) /\ p \in W(graph)[m] /\ q \in W(graph)[n]
        /\ a = <<m, p>> /\ b = <<n, q>> /\ m \in 1..K /\ n \in 1..K
    BY <1>4, <1>5, <1>6, <2>1, DiameterAssumption
  <2>3. path[a].id = path[b].id => m = n
    BY <2>2, IdsApart
  <2>4. m = n => (path[<<m, p>>].id = path[<<m, q>>].id <=> <<p, q>> \in B(graph)[m])
    BY <2>2 DEF IdsFit
  <2> QED
    BY <2>1, <2>2, <2>3, <2>4
<1> QED
  BY <1>2, <1>3, <1>4, <1>5, <1>6

\* The ids of a layer are the classes of bisimilar pairs, if those of the layers below are.
LEMMA LayerFits ==
    ASSUME AllNumbered, NEW i \in 1..K, \A j \in 1..(i - 1) : IdsFit(j)
    PROVE  IdsFit(i)
<1> SUFFICES ASSUME NEW p \in W(graph)[i], NEW q \in W(graph)[i]
             PROVE  path[<<i, p>>].id = path[<<i, q>>].id <=> <<p, q>> \in B(graph)[i]
  BY DEF IdsFit
<1>1. PICK a, b : a = <<i, p>> /\ b = <<i, q>>
  OBVIOUS
<1>2. /\ a \in DOMAIN path /\ b \in DOMAIN path /\ a[1] = i /\ b[1] = i /\ a[2] = p /\ b[2] = q
      /\ Numbered = K /\ graph \in Graphs /\ p \in Pairs /\ q \in Pairs /\ K \in Nat /\ i <= K
  BY <1>1, NumberedPath, DiameterAssumption
<1>3. path[a].id = path[b].id <=> Alike(a, b)
  BY <1>2 DEF AllNumbered, PathInv, IdsAlike
<1>4. IsLoop(a) = LoopPair(p) /\ IsLoop(b) = LoopPair(q)
  BY <1>2 DEF IsLoop, LoopPair
<1>5. CASE i = 1
  <2>1. path[a].labels = LabelsOf(1, p) /\ path[b].labels = LabelsOf(1, q)
    BY <1>2, <1>5 DEF AllNumbered, PathInv, LabelsRight
  <2>2. ASSUME NEW x \in Pairs PROVE \A t : t \in LabelsOf(1, x) <=> \E c \in StepLabels(graph, x) : t = <<c>>
    <3>1. PICK u \in Vertex, v \in Vertex : x = <<u, v>>
      BY DEF Pairs
    <3> TAKE t
    <3>2. 1 \in 1..K
      BY <1>2, <1>5
    <3>3. t \in LabelsOf(1, <<u, v>>) <=> <<<<u, v>>, t>> \in LW(graph)[1]
      BY Zenon, <1>2, <3>2, LabelsOfIs
    <3>4. <<<<u, v>>, t>> \in LW(graph)[1] <=> StepLabel(graph, u, v, t)
      BY Zenon, <1>2, LabelsFirst
    <3>5. StepLabel(graph, u, v, t) <=> \E c \in StepLabels(graph, x) : t = <<c>>
      BY <3>1 DEF StepLabel, StepLabels
    <3> QED
      BY <3>1, <3>3, <3>4, <3>5
  <2>3. LabelsOf(1, p) = LabelsOf(1, q) <=> StepLabels(graph, p) = StepLabels(graph, q)
    <3>1. PICK X, Y, C, D :
              /\ X = LabelsOf(1, p) /\ Y = LabelsOf(1, q)
              /\ C = StepLabels(graph, p) /\ D = StepLabels(graph, q)
      OBVIOUS
    <3>2. \A t : t \in X <=> \E c \in C : t = <<c>>
      BY <1>2, <2>2, <3>1
    <3>3. \A t : t \in Y <=> \E c \in D : t = <<c>>
      BY <1>2, <2>2, <3>1
    <3>4. C = D => X = Y
      BY <3>2, <3>3
    <3>5. X = Y => C = D
      <4>1. \A c : <<c>> \in X <=> c \in C
        BY <3>2
      <4>2. \A c : <<c>> \in Y <=> c \in D
        BY <3>3
      <4> QED
        BY <4>1, <4>2
    <3> QED
      BY <3>1, <3>4, <3>5
  <2>4. <<p, q>> \in B(graph)[1] <=>
            /\ LoopPair(p) = LoopPair(q) /\ StepLabels(graph, p) = StepLabels(graph, q)
    <3>1. B(graph)[1] = AlikeFirst(graph) /\ p \in W(graph)[1] /\ q \in W(graph)[1]
      BY <1>2, <1>5, BisimilarGrows
    <3> QED
      BY <3>1 DEF AlikeFirst
  <2>5. Alike(a, b) <=> IsLoop(a) = IsLoop(b) /\ path[a].labels = path[b].labels
    BY <1>2, <1>5 DEF Alike
  <2> QED
    BY <1>1, <1>3, <1>4, <1>5, <2>1, <2>3, <2>4, <2>5
<1>6. CASE i # 1
  <2>1. Alike(a, b) <=> IsLoop(a) = IsLoop(b) /\ path[a].segs = path[b].segs /\ SameAncestor(a, b)
    BY <1>2, <1>6 DEF Alike
  <2>2. PICK n : n = i - 1
    OBVIOUS
  <2>3. n \in 1..(K - 1) /\ n + 1 = i
    BY <1>2, <1>6, <2>2
  <2>4. <<p, q>> \in B(graph)[i] <=> Same(graph, B(graph), i, p, q)
    BY <1>2, <2>3, BisimilarGrows
  <2>5. path[b].segs \subseteq path[a].segs <=> Matched(graph, B(graph), i, p, q)
    BY <1>1, SegmentsMatch
  <2>6. path[a].segs \subseteq path[b].segs <=> Matched(graph, B(graph), i, q, p)
    BY <1>1, SegmentsMatch
  <2>7. path[a].segs = path[b].segs <=> path[b].segs \subseteq path[a].segs /\ path[a].segs \subseteq path[b].segs
    OBVIOUS
  <2>8. SameAncestor(a, b) <=> SameBefore(graph, B(graph), i, p, q)
    BY <1>1, AncestorsMatch
  <2>9. Same(graph, B(graph), i, p, q) <=>
            /\ LoopPair(p) = LoopPair(q)
            /\ Matched(graph, B(graph), i, p, q) /\ Matched(graph, B(graph), i, q, p)
            /\ SameBefore(graph, B(graph), i, p, q)
    BY DEF Same
  <2> QED
    BY <1>1, <1>3, <1>4, <2>1, <2>4, <2>5, <2>6, <2>7, <2>8, <2>9
<1> QED
  BY <1>5, <1>6

\* The ids of every layer fit.
LEMMA AllFit ==
    ASSUME AllNumbered, NEW i \in 1..K
    PROVE  IdsFit(i)
<1> DEFINE P == {k \in Nat : \A j \in 1..K : j <= k => IdsFit(j)}
<1>1. K \in Nat \ {0}
  BY DiameterAssumption
<1>2. 0 \in P
  OBVIOUS
<1>3. ASSUME NEW k \in P PROVE k + 1 \in P
  <2>1. k \in Nat /\ \A j \in 1..K : j <= k => IdsFit(j)
    OBVIOUS
  <2>2. ASSUME NEW j \in 1..K, j <= k + 1 PROVE IdsFit(j)
    <3>1. \A m \in 1..(j - 1) : m \in 1..K /\ m <= k
      BY <1>1, <2>1, <2>2
    <3>2. \A m \in 1..(j - 1) : IdsFit(m)
      BY <2>1, <3>1
    <3> QED
      BY <3>2, LayerFits
  <2> QED
    BY <2>1, <2>2
<1>4. P \in SUBSET Nat
  OBVIOUS
<1> HIDE DEF P
<1>5. P = Nat
  BY <1>2, <1>3, <1>4, NatInd
<1> QED
  BY <1>1, <1>5 DEF P

(***************************************************************************)
(* For every finite graph and every diameter: when the layers are made,    *)
(* the paths of a layer are the pairs connected by that many edges, and two *)
(* paths of any layers share an id exactly if they are in one layer and    *)
(* bisimilar there.                                                        *)
(***************************************************************************)
THEOREM IdsRight == Spec => []IdsAreClasses
<1>1. PathInv => IdsAreClasses
  <2> SUFFICES ASSUME PathInv, pc = "blocks"
               PROVE  /\ \A l \in 1..K : {r[2] : r \in PathsOf(l)} = W(graph)[l]
                      /\ \A a, b \in DOMAIN path :
                             path[a].id = path[b].id <=> (a[1] = b[1] /\ <<a[2], b[2]>> \in B(graph)[a[1]])
    BY DEF IdsAreClasses, W, B
  <2>1. AllNumbered /\ PathsThere /\ Control /\ Made = K
    BY DEF AllNumbered, PathInv, Made
  <2>2. ASSUME NEW l \in 1..K PROVE {r[2] : r \in PathsOf(l)} = W(graph)[l]
    <3>1. \A r : r \in PathsOf(l) <=> \E p \in W(graph)[l] : r = <<l, p>>
      BY <2>1, LayerPaths
    <3>2. ASSUME NEW p \in W(graph)[l] PROVE \E r \in PathsOf(l) : r[2] = p
      <4>1. PICK r : r = <<l, p>>
        OBVIOUS
      <4> QED
        BY <3>1, <4>1
    <3>3. ASSUME NEW r \in PathsOf(l) PROVE r[2] \in W(graph)[l]
      BY <3>1
    <3> QED
      BY <3>2, <3>3
  <2>3. ASSUME NEW a \in DOMAIN path, NEW b \in DOMAIN path
        PROVE  path[a].id = path[b].id <=> (a[1] = b[1] /\ <<a[2], b[2]>> \in B(graph)[a[1]])
    <3>1. PICK i \in 1..K, p \in Pairs : a = <<i, p>> /\ p \in W(graph)[i]
      BY <2>1 DEF PathsThere
    <3>2. PICK j \in 1..K, q \in Pairs : b = <<j, q>> /\ q \in W(graph)[j]
      BY <2>1 DEF PathsThere
    <3>3. path[a].id = path[b].id => i = j
      BY <2>1, <3>1, <3>2, IdsApart
    <3>4. i = j => (path[a].id = path[b].id <=> <<p, q>> \in B(graph)[i])
      BY <2>1, <3>1, <3>2, AllFit DEF IdsFit
    <3> QED
      BY <3>1, <3>2, <3>3, <3>4
  <2> QED
    BY <2>2, <2>3
<1> QED
  BY <1>1, PathsRight, PTL

-----------------------------------------------------------------------------
(* What is known of the blocks.                                            *)

\* The layers that were made into blocks, and the last of them whose pairs wait for a
\* block of the last layer.
BlocksMade ==
    IF pc \in {"edges", "number", "join"} THEN 0
    ELSE IF pc \in {"blocks", "failed"} THEN layer - 1 ELSE K
Waiting == IF BlocksMade < K THEN BlocksMade ELSE K - 1

\* All labels of p up to a length, and the blocks that b was made of.
LabelsUpTo(l, p) == UNION {LabelsOf(j, p) : j \in 1..l}
Reads(b) == (UNION {{c[1], c[2]} : c \in b.combinations}) \cup ({b.ancestor} \ {None})

\* b holds pairs whose paths of length l share an id, with all labels up to that length,
\* and reads blocks made of shorter paths only.
BlockRight(l, b) ==
    /\ b.paths # {} /\ b.paths \subseteq W(graph)[l]
    /\ \A p, q \in b.paths : path[<<l, p>>].id = path[<<l, q>>].id
    /\ ComputeLabels => \A p \in b.paths : b.labels = LabelsUpTo(l, p)
    /\ \A r \in Reads(b) : r[1] \in 1..(l - 1) /\ r[2] \in DOMAIN blocks[r[1]]

\* b is a block of the last layer that was left over by the layer before.
LeftRight(b) == K > 1 /\ BlockRight(K - 1, b) /\ b.paths \cap W(graph)[K] = {}

\* What is known of the blocks, of where the paths are, and of the pairs left over.
BlocksRight ==
    \A l \in 1..BlocksMade :
        /\ \A n \in DOMAIN blocks[l] :
               BlockRight(l, blocks[l][n]) \/ (pc = "built" /\ l = K /\ LeftRight(blocks[l][n]))
        /\ \A m, n \in DOMAIN blocks[l] : m # n => blocks[l][m].paths \cap blocks[l][n].paths = {}
BlocksFew ==
    /\ DOMAIN blocks = 1..K
    /\ \A l \in 1..K :
           \E m \in 0..(IF pc = "built" THEN 2 * Cardinality(Pairs) ELSE Cardinality(Pairs)) :
               blocks[l] = [n \in 1..m |-> blocks[l][n]] /\ (m > 0 <=> l <= BlocksMade)
PlacesRight ==
    /\ DOMAIN blockOf = {r \in DOMAIN path : r[1] <= BlocksMade}
    /\ \A r \in DOMAIN blockOf : \E l \in 1..K : \E n \in DOMAIN blocks[l] :
           /\ blockOf[r] = <<l, n>> /\ r[2] \in blocks[l][n].paths
           /\ l = r[1] \/ (pc = "built" /\ l = K)
    /\ pc = "built" => \A p \in DOMAIN unused : blockOf[unused[p]][1] = K
UnusedRight ==
    /\ DOMAIN unused =
           {p \in Pairs : (\E l \in 1..Waiting : p \in W(graph)[l]) /\ (BlocksMade = K => p \notin W(graph)[K])}
    /\ \A p \in DOMAIN unused : unused[p] # None /\ IsLast(Waiting + 1, p, unused[p])
EdgesThere ==
    /\ BlocksMade > 0 => graph # {}
    /\ pc = "failed" => graph = {}

\* The inductive invariant of computeBlocks, together with that of partition.
BlockInv == BlocksRight /\ BlocksFew /\ PlacesRight /\ UnusedRight /\ EdgesThere

-----------------------------------------------------------------------------
(* Slices of one id.                                                       *)

\* The elements of a set of numbers in ascending order.
Ascending(S) == [i \in 1..Cardinality(S) |-> CHOOSE x \in S : Cardinality({y \in S : y < x}) = i - 1]

\* A finite set of numbers in ascending order.
LEMMA AscendingIs ==
    ASSUME NEW S \in SUBSET Int, IsFiniteSet(S), NEW m, m = Cardinality(S)
    PROVE  /\ m \in Nat /\ Ascending(S) \in [1..m -> S]
           /\ \A x \in S : \E i \in 1..m : Ascending(S)[i] = x
           /\ \A i, j \in 1..m : i < j <=> Ascending(S)[i] < Ascending(S)[j]
           /\ \A i, j \in 1..m : Ascending(S)[i] = Ascending(S)[j] => i = j
<1> DEFINE R == {e \in S \X S : e[1] < e[2]}
<1>1. \A x, y \in S : <<x, y>> \in R <=> x < y
  OBVIOUS
<1> HIDE DEF R
<1>2. Linear(S, R)
  BY <1>1 DEF Linear
<1>3. Ascending(S) = InOrder(S, R)
  <2>1. \A x \in S : {y \in S : y < x} = {y \in S : <<y, x>> \in R}
    BY <1>1
  <2> DEFINE One(i) == CHOOSE x \in S : Cardinality({y \in S : y < x}) = i - 1
             Two(i) == CHOOSE x \in S : Cardinality({y \in S : <<y, x>> \in R}) = i - 1
  <2>2. \A i : One(i) = Two(i)
    BY <2>1
  <2>3. Ascending(S) = [i \in 1..Cardinality(S) |-> One(i)]
    BY Zenon DEF Ascending
  <2>4. InOrder(S, R) = [i \in 1..Cardinality(S) |-> Two(i)]
    BY Zenon DEF InOrder
  <2> HIDE DEF One, Two
  <2> QED
    BY <2>2, <2>3, <2>4
<1>4. PICK a : a = Ascending(S)
  OBVIOUS
<1>5. /\ m \in Nat /\ a \in [1..m -> S]
      /\ \A x \in S : \E i \in 1..m : a[i] = x
      /\ \A i, j \in 1..m : i < j <=> <<a[i], a[j]>> \in R
      /\ \A i, j \in 1..m : a[i] = a[j] => i = j
  BY <1>2, <1>3, <1>4, InOrderIs
<1>6. \A i, j \in 1..m : i < j <=> a[i] < a[j]
  BY <1>1, <1>5
<1> QED
  BY <1>4, <1>5, <1>6

\* Where the runs of equal values of f start, and where the run ends that starts at the n-th of m.
RunStarts(f, N) == {i \in 1..N : i = 1 \/ f[i] # f[i - 1]}
RunEnd(a, m, N, n) == IF n = m THEN N ELSE a[n + 1] - 1

\* a gives the starts of m runs, which make up 1..N.
RunsCut(f, N, m, a) ==
    /\ m \in 0..N /\ (N > 0 => m > 0) /\ DOMAIN a = 1..m
    /\ \A n \in 1..m : a[n] \in 1..N /\ RunEnd(a, m, N, n) \in a[n]..N
    /\ \A i \in 1..N : \E n \in 1..m : i \in a[n]..RunEnd(a, m, N, n)
    /\ \A n, k \in 1..m : \A i \in a[n]..RunEnd(a, m, N, n) : \A j \in a[k]..RunEnd(a, m, N, k) :
           f[i] = f[j] <=> n = k

\* A rising sequence is cut into its runs, each of one value of its own.
LEMMA RunsAre ==
    ASSUME NEW N \in Nat, NEW f \in [1..N -> Int], \A i, j \in 1..N : i <= j => f[i] <= f[j],
           NEW m, m = Cardinality(RunStarts(f, N)), NEW a, a = Ascending(RunStarts(f, N))
    PROVE  RunsCut(f, N, m, a)
<1> DEFINE P == RunStarts(f, N)
           Ending(n) == RunEnd(a, m, N, n)
<1>1. P \in SUBSET (1..N)
  BY DEF RunStarts
<1>2. IsFiniteSet(1..N) /\ Cardinality(1..N) = N
  <2>1. \A x, y \in Int : IsFiniteSet(x..y) /\ Cardinality(x..y) = IF x > y THEN 0 ELSE y - x + 1
    BY FS_Interval
  <2>2. PICK o : o = 1
    OBVIOUS
  <2>3. IsFiniteSet(o..N) /\ Cardinality(o..N) = IF o > N THEN 0 ELSE N - o + 1
    BY <2>1, <2>2
  <2> QED
    BY <2>2, <2>3
<1>3. IsFiniteSet(P) /\ m <= N
  BY <1>1, <1>2, FS_Subset
<1>4. P \in SUBSET Int
  BY <1>1
<1>5. /\ m \in Nat /\ a \in [1..m -> P]
      /\ \A x \in P : \E i \in 1..m : a[i] = x
      /\ \A i, j \in 1..m : i < j <=> a[i] < a[j]
      /\ \A i, j \in 1..m : a[i] = a[j] => i = j
  BY <1>3, <1>4, AscendingIs
<1>6. N > 0 => 1 \in P
  BY DEF RunStarts
<1>7. \A i \in P : i = 1 \/ f[i] # f[i - 1]
  BY DEF RunStarts
<1>8. \A i \in (1..N) \ P : i # 1 /\ f[i] = f[i - 1]
  BY DEF RunStarts
<1> HIDE DEF P
<1>9. m \in 0..N /\ (N > 0 => m > 0)
  BY <1>3, <1>5, <1>6
<1>10. ASSUME NEW n \in 1..m
       PROVE  a[n] \in 1..N /\ Ending(n) \in a[n]..N
  <2>1. a[n] \in 1..N
    BY <1>1, <1>5
  <2>2. CASE n = m
    BY <2>1, <2>2 DEF RunEnd
  <2>3. CASE n # m
    <3>1. PICK k : k = n + 1
      OBVIOUS
    <3>2. k \in 1..m /\ n < k
      BY <1>5, <2>3, <3>1
    <3>3. a[k] \in 1..N /\ a[n] < a[k]
      BY <1>1, <1>5, <3>2
    <3> QED
      BY <2>1, <2>3, <3>1, <3>3 DEF RunEnd
  <2> QED
    BY <2>1, <2>2, <2>3
<1>11. ASSUME NEW i \in 1..N
       PROVE  \E n \in 1..m : i \in a[n]..Ending(n)
  <2> DEFINE Q == {n \in 1..m : a[n] <= i}
  <2>1. Q \in SUBSET Nat /\ \A n \in Q : n <= m
    OBVIOUS
  <2>2. Q # {}
    <3>1. PICK n \in 1..m : a[n] = 1
      BY <1>5, <1>6
    <3> QED
      BY <3>1
  <2>3. PICK n \in Q : \A k \in Q : k <= n
    BY <1>5, <2>1, <2>2, GreatestNat
  <2>4. n \in 1..m /\ a[n] <= i
    OBVIOUS
  <2>5. CASE n = m
    BY <1>10, <2>4, <2>5 DEF RunEnd
  <2>6. CASE n # m
    <3>1. PICK k : k = n + 1
      OBVIOUS
    <3>2. k \in 1..m /\ ~(k <= n)
      BY <1>5, <2>4, <2>6, <3>1
    <3>3. ~(a[k] <= i)
      BY <2>3, <3>2
    <3>4. a[k] \in 1..N /\ a[n] \in 1..N
      BY <1>10, <2>4, <3>2
    <3>5. Ending(n) = a[k] - 1
      BY <2>6, <3>1 DEF RunEnd
    <3>6. i \in a[n]..Ending(n)
      BY <2>4, <3>3, <3>4, <3>5
    <3> QED
      BY <2>4, <3>6
  <2> QED
    BY <2>5, <2>6
<1>12. ASSUME NEW n \in 1..m, NEW i \in a[n]..Ending(n)
       PROVE  f[i] = f[a[n]] /\ i \in 1..N
  <2>1. a[n] \in 1..N /\ Ending(n) \in a[n]..N /\ i \in 1..N
    BY <1>10
  <2>2. \A j \in (a[n] + 1)..i : j \notin P
    <3> SUFFICES ASSUME NEW j \in (a[n] + 1)..i, j \in P PROVE FALSE
      OBVIOUS
    <3>1. PICK k \in 1..m : a[k] = j
      BY <1>5
    <3>2. a[n] < a[k] /\ a[k] <= Ending(n)
      BY <2>1, <3>1
    <3>3. n < k
      BY <1>5, <3>2
    <3>4. PICK o : o = n + 1
      OBVIOUS
    <3>5. n # m /\ o \in 1..m /\ o <= k /\ Ending(n) = a[o] - 1
      BY <1>5, <3>3, <3>4 DEF RunEnd
    <3>6. a[o] \in 1..N /\ a[k] \in 1..N
      BY <1>10, <3>5
    <3>7. ~(a[k] < a[o])
      BY <1>5, <3>5
    <3> QED
      BY <3>2, <3>5, <3>6, <3>7
  <2> DEFINE D == {j \in a[n]..i : f[j] # f[a[n]]}
  <2>3. ASSUME D # {} PROVE FALSE
    <3>1. D \in SUBSET Nat
      BY <2>1
    <3>2. PICK j \in D : \A k \in D : j <= k
      BY <2>3, <3>1, LeastNat
    <3>3. j \in a[n]..i /\ f[j] # f[a[n]]
      BY <3>2
    <3>4. j # a[n] /\ j \in (a[n] + 1)..i /\ j \in 1..N
      BY <2>1, <3>3
    <3>5. f[j] = f[j - 1]
      BY <1>8, <2>2, <3>4
    <3>6. PICK k : k = j - 1
      OBVIOUS
    <3>7. k \in a[n]..i /\ k < j
      BY <2>1, <3>4, <3>6
    <3>8. k \in D
      BY <3>3, <3>5, <3>6, <3>7
    <3> QED
      BY <3>1, <3>2, <3>7, <3>8
  <2>4. i \in a[n]..i
    BY <2>1
  <2> QED
    BY <2>1, <2>3, <2>4
<1>13. ASSUME NEW n \in 1..m, NEW k \in 1..m, n < k PROVE f[a[n]] < f[a[k]]
  <2>1. a[n] \in 1..N /\ a[k] \in 1..N /\ a[n] < a[k] /\ a[k] \in P
    BY <1>1, <1>5, <1>13
  <2>2. PICK j : j = a[k] - 1
    OBVIOUS
  <2>3. j \in 1..N /\ a[n] <= j /\ j <= a[k] /\ f[a[k]] # f[j]
    <3>1. PICK c, d : c = a[n] /\ d = a[k]
      OBVIOUS
    <3>2. c \in 1..N /\ d \in 1..N /\ c < d /\ d \in P
      BY <2>1, <3>1
    <3>3. j = d - 1
      BY <2>2, <3>1
    <3>4. d # 1 /\ j \in 1..N /\ c <= j /\ j <= d
      BY <3>2, <3>3
    <3>5. f[d] # f[d - 1]
      BY <1>7, <3>2, <3>4
    <3>6. f[d] # f[j]
      BY <3>3, <3>5
    <3> QED
      BY <3>1, <3>4, <3>6
  <2>4. f[a[n]] <= f[j] /\ f[j] <= f[a[k]]
    BY <2>1, <2>3
  <2>5. PICK x, y, z : x = f[a[n]] /\ y = f[j] /\ z = f[a[k]]
    OBVIOUS
  <2>6. x \in Int /\ y \in Int /\ z \in Int
    BY <2>1, <2>3, <2>5
  <2> QED
    BY <2>3, <2>4, <2>5, <2>6
<1>14. ASSUME NEW n \in 1..m, NEW k \in 1..m, NEW i \in a[n]..Ending(n), NEW j \in a[k]..Ending(k)
       PROVE  f[i] = f[j] <=> n = k
  <2>1. f[i] = f[a[n]] /\ f[j] = f[a[k]]
    BY <1>12
  <2>2. f[a[n]] \in Int /\ f[a[k]] \in Int
    BY <1>10
  <2>3. n = k \/ n < k \/ k < n
    BY <1>5
  <2> QED
    BY <1>13, <2>1, <2>2, <2>3
<1> QED
  BY <1>5, <1>9, <1>10, <1>11, <1>14 DEF RunsCut

\* The elements of s from place x to place y.
Extract(s, x, y) == {s[i] : i \in x..y}

\* The members of a part of a sequence.
LEMMA PartOfSequence ==
    ASSUME NEW N \in Nat, NEW S, NEW s \in [1..N -> S], NEW x \in 1..N, NEW y \in x..N
    PROVE  /\ Members(SubSeq(s, x, y)) = Extract(s, x, y)
           /\ SubSeq(s, x, y)[1] = s[x]
<1>1. s \in Seq(S) /\ Len(s) = N
  OBVIOUS
<1>2. PICK t : t = SubSeq(s, x, y)
  OBVIOUS
<1>3. DOMAIN t = 1..(y - x + 1) /\ \A i \in 1..(y - x + 1) : t[i] = s[x + i - 1]
  <2>1. Len(t) = y - x + 1 /\ t \in Seq(S)
    BY <1>1, <1>2
  <2>2. DOMAIN t = 1..(y - x + 1)
    BY <2>1
  <2>3. \A i \in 1..(y - x + 1) : t[i] = s[x + i - 1]
    BY <1>1, <1>2
  <2> QED
    BY <2>2, <2>3
<1>4. ASSUME NEW i \in x..y PROVE s[i] \in Members(t)
  <2>1. PICK j : j = i - x + 1
    OBVIOUS
  <2>2. j \in 1..(y - x + 1) /\ x + j - 1 = i
    BY <2>1
  <2> QED
    BY <1>3, <2>2 DEF Members
<1>5. ASSUME NEW z \in Members(t) PROVE \E i \in x..y : z = s[i]
  <2>1. PICK j \in 1..(y - x + 1) : z = s[x + j - 1]
    BY <1>3 DEF Members
  <2>2. PICK i : i = x + j - 1
    OBVIOUS
  <2> QED
    BY <2>1, <2>2
<1>6. Members(t) = Extract(s, x, y)
  BY <1>4, <1>5 DEF Extract
<1>7. 1 \in 1..(y - x + 1) /\ x + 1 - 1 = x
  OBVIOUS
<1> QED
  BY <1>2, <1>3, <1>6, <1>7

\* sl cuts S into m slices, one for each id.
CutsUp(sl, m, S) ==
    /\ DOMAIN sl = 1..m
    /\ \A n \in 1..m : sl[n][1] \in Members(sl[n]) /\ Members(sl[n]) \subseteq S
    /\ \A r \in S : \E n \in 1..m : r \in Members(sl[n])
    /\ \A n, k \in 1..m : \A q \in Members(sl[n]), r \in Members(sl[k]) :
           path[q].id = path[r].id <=> n = k

\* Where the slices of a sequence of paths begin, and the slices.
SliceStarts(s) == {i \in DOMAIN s : i = 1 \/ path[s[i]].id # path[s[i - 1]].id}
SlicesFrom(s, a) ==
    [n \in DOMAIN a |-> SubSeq(s, a[n], IF n = Len(a) THEN Len(s) ELSE a[n + 1] - 1)]

\* Slices cuts a sorted sequence of paths by their ids.
LEMMA SlicesAre ==
    ASSUME NEW S, IsFiniteSet(S), NEW s, InLine(s, S, path), \A r \in S : path[r].id \in Int
    PROVE  \E m \in 0..Cardinality(S) : CutsUp(Slices(s), m, S) /\ (S # {} => m > 0)
<1>1. PICK N : N = Cardinality(S)
  OBVIOUS
<1>2. /\ N \in Nat /\ s \in [1..N -> S] /\ DOMAIN s = 1..N /\ Len(s) = N
      /\ \A r \in S : \E i \in 1..N : s[i] = r
      /\ \A i, j \in 1..N : s[i] = s[j] => i = j
      /\ \A i, j \in 1..N : i <= j => path[s[i]].id <= path[s[j]].id
  BY <1>1, FS_CardinalityType DEF InLine
<1>3. PICK f : f = [i \in 1..N |-> path[s[i]].id]
  OBVIOUS
<1>4. /\ f \in [1..N -> Int] /\ N \in Nat
      /\ \A i, j \in 1..N : i <= j => f[i] <= f[j]
      /\ \A i \in 1..N : f[i] = path[s[i]].id
  BY <1>2, <1>3
<1>5. Slices(s) = SlicesFrom(s, Ascending(SliceStarts(s)))
  BY Zenon DEF Slices, Sorted, SlicesFrom, Ascending, SliceStarts
<1>6. SliceStarts(s) = RunStarts(f, N)
  <2>1. \A i \in 1..N : i = 1 \/ i - 1 \in 1..N
    BY <1>2
  <2> QED
    BY <1>2, <1>4, <2>1 DEF SliceStarts, RunStarts
<1>7. PICK m, a : m = Cardinality(RunStarts(f, N)) /\ a = Ascending(RunStarts(f, N))
  OBVIOUS
<1>8. RunsCut(f, N, m, a)
  BY <1>4, <1>7, RunsAre
<1>9. PICK e : e = [n \in 1..m |-> RunEnd(a, m, N, n)]
  OBVIOUS
<1>10. /\ m \in 0..N /\ (N > 0 => m > 0) /\ DOMAIN a = 1..m /\ m \in Nat
       /\ \A n \in 1..m : a[n] \in 1..N /\ e[n] \in a[n]..N
  BY <1>4, <1>8, <1>9 DEF RunsCut
<1>11. \A i \in 1..N : \E n \in 1..m : i \in a[n]..e[n]
  BY <1>8, <1>9 DEF RunsCut
<1>12. \A n, k \in 1..m : \A i \in a[n]..e[n] : \A j \in a[k]..e[k] : f[i] = f[j] <=> n = k
  BY <1>8, <1>9 DEF RunsCut
<1>13. PICK sl : sl = Slices(s)
  OBVIOUS
<1>14. DOMAIN sl = 1..m /\ \A n \in 1..m : sl[n] = SubSeq(s, a[n], e[n])
  <2>1. sl = SlicesFrom(s, a)
    BY <1>5, <1>6, <1>7, <1>13
  <2>2. Len(a) = m
    BY <1>10
  <2>3. DOMAIN sl = 1..m /\ \A n \in 1..m : sl[n] = SubSeq(s, a[n], IF n = m THEN N ELSE a[n + 1] - 1)
    BY <1>2, <1>10, <2>1, <2>2 DEF SlicesFrom
  <2>4. \A n \in 1..m : e[n] = IF n = m THEN N ELSE a[n + 1] - 1
    BY <1>9 DEF RunEnd
  <2> QED
    BY <2>3, <2>4
<1>15. ASSUME NEW n \in 1..m
       PROVE  Members(sl[n]) = {s[i] : i \in a[n]..e[n]} /\ sl[n][1] = s[a[n]]
  <2>1. PICK x, y : x = a[n] /\ y = e[n]
    OBVIOUS
  <2>2. x \in 1..N /\ y \in x..N /\ sl[n] = SubSeq(s, x, y)
    BY <1>10, <1>14, <2>1
  <2>3. N \in Nat /\ s \in [1..N -> S]
    BY <1>2
  <2>4. Members(SubSeq(s, x, y)) = {s[i] : i \in x..y} /\ SubSeq(s, x, y)[1] = s[x]
    <3>1. Members(SubSeq(s, x, y)) = Extract(s, x, y) /\ SubSeq(s, x, y)[1] = s[x]
      BY <2>2, <2>3, PartOfSequence
    <3> QED
      BY <3>1 DEF Extract
  <2> QED
    BY <2>1, <2>2, <2>4
<1>16. \A n \in 1..m : \A i \in a[n]..e[n] : i \in 1..N
  BY <1>2, <1>10
<1>17. \A n \in 1..m : sl[n][1] \in Members(sl[n]) /\ Members(sl[n]) \subseteq S
  <2> TAKE n \in 1..m
  <2>1. a[n] \in a[n]..e[n]
    BY <1>2, <1>10
  <2>2. \A i \in a[n]..e[n] : s[i] \in S
    BY <1>2, <1>16
  <2>3. PICK M : M = Members(sl[n])
    OBVIOUS
  <2>4. M = {s[i] : i \in a[n]..e[n]} /\ sl[n][1] = s[a[n]]
    BY <1>15, <2>3
  <2> QED
    BY <2>1, <2>2, <2>3, <2>4
<1>18. \A r \in S : \E n \in 1..m : r \in Members(sl[n])
  <2> TAKE r \in S
  <2>1. PICK i \in 1..N : s[i] = r
    BY <1>2
  <2>2. PICK n \in 1..m : i \in a[n]..e[n]
    BY <1>11
  <2> QED
    BY <1>15, <2>1, <2>2
<1>19. ASSUME NEW n \in 1..m, NEW k \in 1..m, NEW q \in Members(sl[n]), NEW r \in Members(sl[k])
       PROVE  path[q].id = path[r].id <=> n = k
  <2>1. PICK i \in a[n]..e[n] : q = s[i]
    BY <1>15
  <2>2. PICK j \in a[k]..e[k] : r = s[j]
    BY <1>15
  <2>3. f[i] = path[q].id /\ f[j] = path[r].id
    BY <1>4, <1>16, <2>1, <2>2
  <2> QED
    BY <1>12, <2>3
<1>20. S # {} => N > 0
  BY <1>2
<1>21. CutsUp(sl, m, S)
  BY <1>14, <1>17, <1>18, <1>19 DEF CutsUp
<1> QED
  BY <1>1, <1>10, <1>13, <1>20, <1>21

-----------------------------------------------------------------------------
(* What bisimilar pairs have in common.                                    *)

\* The largest of some numbers.
LEMMA MaxIs ==
    ASSUME NEW n \in Nat, NEW S \in SUBSET (1..n), S # {}
    PROVE  Max(S) \in S /\ Max(S) \in 1..n /\ \A k \in S : k <= Max(S)
<1>1. S \in SUBSET Nat /\ \A k \in S : k <= n
  OBVIOUS
<1>2. \E m \in S : \A k \in S : k <= m
  BY <1>1, GreatestNat
<1>3. \E m \in S : \A k \in S : m >= k
  BY <1>1, <1>2
<1>4. Max(S) \in S /\ \A k \in S : Max(S) >= k
  BY <1>3 DEF Max
<1>5. PICK m : m = Max(S)
  OBVIOUS
<1>6. m \in S /\ \A k \in S : m >= k
  BY <1>4, <1>5
<1>7. \A k \in S : k <= m
  BY <1>1, <1>6
<1> QED
  BY <1>5, <1>6, <1>7

\* Bisimilar pairs occur at the same smaller lengths, and are bisimilar there.
LEMMA BisimilarBelow ==
    ASSUME NEW g \in Graphs, NEW i \in 1..K, NEW p, NEW q, <<p, q>> \in B(g)[i]
    PROVE  /\ p \in W(g)[i] /\ q \in W(g)[i] /\ LoopPair(p) = LoopPair(q)
           /\ \A j \in 1..i : (p \in W(g)[j] <=> q \in W(g)[j]) /\ (p \in W(g)[j] => <<p, q>> \in B(g)[j])
<1> DEFINE Below(n) ==
               \A x, y : <<x, y>> \in B(g)[n] =>
                   /\ x \in W(g)[n] /\ y \in W(g)[n] /\ LoopPair(x) = LoopPair(y)
                   /\ \A j \in 1..n : (x \in W(g)[j] <=> y \in W(g)[j]) /\ (x \in W(g)[j] => <<x, y>> \in B(g)[j])
           P == {k \in Nat : \A n \in 1..K : n <= k => Below(n)}
<1>1. K \in Nat \ {0}
  BY DiameterAssumption
<1>2. Below(1)
  <2> TAKE x, y
  <2> HAVE <<x, y>> \in B(g)[1]
  <2>1. <<x, y>> \in AlikeFirst(g)
    BY BisimilarGrows
  <2>2. x \in W(g)[1] /\ y \in W(g)[1] /\ LoopPair(x) = LoopPair(y)
    BY <2>1 DEF AlikeFirst
  <2>3. \A j \in 1..1 : j = 1
    OBVIOUS
  <2> QED
    BY <2>2, <2>3
<1>3. ASSUME NEW m \in 1..(K - 1), \A n \in 1..m : Below(n) PROVE Below(m + 1)
  <2>1. PICK n : n = m + 1
    OBVIOUS
  <2>2. n \in Nat /\ m \in Nat /\ n \in 1..K /\ \A j \in 1..n : j = n \/ j \in 1..m
    BY <1>1, <2>1
  <2> SUFFICES ASSUME NEW x, NEW y, <<x, y>> \in B(g)[n]
               PROVE  /\ x \in W(g)[n] /\ y \in W(g)[n] /\ LoopPair(x) = LoopPair(y)
                      /\ \A j \in 1..n : (x \in W(g)[j] <=> y \in W(g)[j]) /\ (x \in W(g)[j] => <<x, y>> \in B(g)[j])
    BY <2>1
  <2>3. x \in W(g)[n] /\ y \in W(g)[n] /\ Same(g, B(g), n, x, y)
    BY <2>1, BisimilarGrows
  <2>4. LoopPair(x) = LoopPair(y) /\ SameBefore(g, B(g), n, x, y)
    BY <2>3 DEF Same
  <2>5. PICK S, T : S = Earlier(g, x, n) /\ T = Earlier(g, y, n)
    OBVIOUS
  <2>6. \A j \in 1..m : (j \in S <=> x \in W(g)[j]) /\ (j \in T <=> y \in W(g)[j])
    BY <2>1, <2>2, <2>5 DEF Earlier
  <2>7. S \in SUBSET (1..m) /\ T \in SUBSET (1..m)
    BY <2>1, <2>2, <2>5 DEF Earlier
  <2>8. ASSUME NEW j \in 1..m
        PROVE  (x \in W(g)[j] <=> y \in W(g)[j]) /\ (x \in W(g)[j] => <<x, y>> \in B(g)[j])
    <3>1. CASE S = {}
      <4>1. T = {}
        BY <2>4, <2>5, <3>1 DEF SameBefore
      <4> QED
        BY <2>6, <3>1, <4>1
    <3>2. CASE S # {}
      <4>1. PICK z : z = Max(S)
        OBVIOUS
      <4>2. T # {} /\ z = Max(T) /\ <<x, y>> \in B(g)[z]
        BY <2>4, <2>5, <3>2, <4>1 DEF SameBefore
      <4>3. z \in S /\ z \in 1..m /\ \A k \in S : k <= z
        BY <2>2, <2>7, <3>2, <4>1, MaxIs
      <4>4. \A k \in T : k <= z
        BY <2>2, <2>7, <4>2, MaxIs
      <4>5. CASE j <= z
        <5>1. Below(z) /\ j \in 1..z
          BY <1>3, <2>2, <4>3, <4>5
        <5> QED
          BY <4>2, <5>1
      <4>6. CASE ~(j <= z)
        BY <2>6, <4>3, <4>4, <4>6
      <4> QED
        BY <4>5, <4>6
    <3> QED
      BY <3>1, <3>2
  <2> QED
    BY <2>2, <2>3, <2>4, <2>8
<1> HIDE DEF Below
<1>4. 0 \in P
  OBVIOUS
<1>5. ASSUME NEW k \in P PROVE k + 1 \in P
  <2>1. k \in Nat /\ \A n \in 1..K : n <= k => Below(n)
    OBVIOUS
  <2>2. ASSUME NEW n \in 1..K, n <= k + 1 PROVE Below(n)
    <3>1. CASE n = 1
      BY <1>2, <3>1
    <3>2. CASE n # 1
      <4>1. PICK m : m = n - 1
        OBVIOUS
      <4>2. m \in 1..(K - 1) /\ n = m + 1 /\ \A j \in 1..m : j \in 1..K /\ j <= k
        BY <1>1, <2>1, <2>2, <3>2, <4>1
      <4> QED
        BY <1>3, <2>1, <4>2
    <3> QED
      BY <3>1, <3>2
  <2> QED
    BY <2>1, <2>2
<1>6. P \in SUBSET Nat
  OBVIOUS
<1> HIDE DEF P
<1>7. P = Nat
  BY <1>4, <1>5, <1>6, NatInd
<1>8. Below(i)
  BY <1>1, <1>7 DEF P
<1> QED
  BY <1>8 DEF Below

\* Label sequences are sequences of numbers.
LEMMA LabelsOfTypes ==
    ASSUME graph \in Graphs, NEW l \in 1..K, NEW p
    PROVE  LabelsOf(l, p) \in SUBSET Seq(Int)
<1>1. LW(graph)[l] \in SUBSET Marked
  BY LabelTypes
<1> QED
  BY <1>1 DEF LabelsOf, Marked

\* The labels of a path of one more edge are those of its first edges and of its last one.
TwoLabels(n, u, v, t) ==
    \E m \in Vertex : \E x \in LabelsOf(n, <<u, m>>), y \in LabelsOf(1, <<m, v>>) : t = x \o y

\* Those of a path of one more edge are put together from its parts.
LEMMA LabelsOfStep ==
    ASSUME graph \in Graphs, NEW n \in 1..(K - 1), NEW u \in Vertex, NEW v \in Vertex, NEW t
    PROVE  t \in LabelsOf(n + 1, <<u, v>>) <=> TwoLabels(n, u, v, t)
<1>1. n \in 1..K /\ n + 1 \in 1..K /\ 1 \in 1..K
  BY DiameterAssumption
<1>2. PICK o, l : o = 1 /\ l = n + 1
  OBVIOUS
<1>3. \A a, b, s : s \in LabelsOf(n, <<a, b>>) <=> <<<<a, b>>, s>> \in LW(graph)[n]
  BY Zenon, <1>1, LabelsOfIs
<1>4. \A a, b, s : s \in LabelsOf(o, <<a, b>>) <=> <<<<a, b>>, s>> \in LW(graph)[o]
  BY Zenon, <1>1, <1>2, LabelsOfIs
<1>5. \A a, b, s : s \in LabelsOf(l, <<a, b>>) <=> <<<<a, b>>, s>> \in LW(graph)[l]
  BY Zenon, <1>1, <1>2, LabelsOfIs
<1>6. <<<<u, v>>, t>> \in LW(graph)[l] <=> PathLabel(LW(graph)[n], LW(graph)[o], u, v, t)
  BY Zenon, <1>2, LabelsStep
<1>7. LW(graph)[n] \in SUBSET Marked /\ LW(graph)[o] \in SUBSET Marked
  BY <1>1, <1>2, LabelTypes
<1>8. PathLabel(LW(graph)[n], LW(graph)[o], u, v, t) <=>
          \E m \in Vertex : \E x \in LabelsOf(n, <<u, m>>), y \in LabelsOf(o, <<m, v>>) : t = x \o y
  <2>1. \A m : \A x \in LabelsOf(n, <<u, m>>) : x \in Seq(Int)
    BY <1>1, LabelsOfTypes
  <2>2. \A m : \A x \in LabelsOf(o, <<m, v>>) : x \in Seq(Int)
    BY <1>1, <1>2, LabelsOfTypes
  <2> QED
    BY <1>3, <1>4, <2>1, <2>2 DEF PathLabel
<1> QED
  BY <1>2, <1>5, <1>6, <1>8 DEF TwoLabels

\* The labels of the pairs of one edge are those of its steps.
LEMMA LabelsOfEdge ==
    ASSUME graph \in Graphs, NEW u, NEW v
    PROVE  LabelsOf(1, <<u, v>>) = {<<c>> : c \in StepLabels(graph, <<u, v>>)}
<1>1. 1 \in 1..K
  BY DiameterAssumption
<1>2. PICK o : o = 1
  OBVIOUS
<1>3. \A t : t \in LabelsOf(o, <<u, v>>) <=> <<<<u, v>>, t>> \in LW(graph)[o]
  BY Zenon, <1>1, <1>2, LabelsOfIs
<1>4. \A t : <<<<u, v>>, t>> \in LW(graph)[o] <=> StepLabel(graph, u, v, t)
  BY Zenon, <1>2, LabelsFirst
<1>5. \A t : StepLabel(graph, u, v, t) <=> \E c \in StepLabels(graph, <<u, v>>) : t = <<c>>
  <2>1. ASSUME NEW t, NEW s \in Ref!Steps(graph), s[1] = u, s[3] = v, t = <<s[2]>>
        PROVE  \E c \in StepLabels(graph, <<u, v>>) : t = <<c>>
    BY <2>1 DEF StepLabels
  <2>2. ASSUME NEW t, NEW c \in StepLabels(graph, <<u, v>>), t = <<c>>
        PROVE  StepLabel(graph, u, v, t)
    BY <2>2 DEF StepLabel, StepLabels
  <2> QED
    BY <2>1, <2>2 DEF StepLabel
<1>6. PICK L : L = LabelsOf(o, <<u, v>>)
  OBVIOUS
<1>7. \A t : t \in L <=> \E c \in StepLabels(graph, <<u, v>>) : t = <<c>>
  BY <1>3, <1>4, <1>5, <1>6
<1>8. L = {<<c>> : c \in StepLabels(graph, <<u, v>>)}
  BY <1>7
<1> QED
  BY <1>2, <1>6, <1>8

\* Bisimilar pairs have the same label sequences.
LEMMA LabelsAlike ==
    ASSUME graph \in Graphs, NEW i \in 1..K, NEW p, NEW q, <<p, q>> \in B(graph)[i]
    PROVE  LabelsOf(i, p) = LabelsOf(i, q)
<1> DEFINE Equal(n) == \A x, y : <<x, y>> \in B(graph)[n] => LabelsOf(n, x) = LabelsOf(n, y)
           P == {k \in Nat : k + 1 <= K => Equal(k + 1)}
<1>1. K \in Nat \ {0} /\ 1 \in 1..K
  BY DiameterAssumption
<1>2. Equal(1)
  <2> SUFFICES ASSUME NEW x, NEW y, <<x, y>> \in B(graph)[1] PROVE LabelsOf(1, x) = LabelsOf(1, y)
    OBVIOUS
  <2>1. x \in W(graph)[1] /\ y \in W(graph)[1] /\ StepLabels(graph, x) = StepLabels(graph, y)
    BY BisimilarGrows DEF AlikeFirst
  <2>2. x \in Pairs /\ y \in Pairs
    BY <1>1, <2>1, WalkTypes
  <2>3. PICK a \in Vertex, b \in Vertex : x = <<a, b>>
    BY <2>2 DEF Pairs
  <2>4. PICK c \in Vertex, d \in Vertex : y = <<c, d>>
    BY <2>2 DEF Pairs
  <2>5. LabelsOf(1, x) = {<<e>> : e \in StepLabels(graph, x)}
    BY <2>3, LabelsOfEdge
  <2>6. LabelsOf(1, y) = {<<e>> : e \in StepLabels(graph, y)}
    BY <2>4, LabelsOfEdge
  <2> QED
    BY <2>1, <2>5, <2>6
<1>3. ASSUME NEW n \in 1..(K - 1), Equal(1), Equal(n), NEW x, NEW y,
             x \in W(graph)[n + 1], y \in W(graph)[n + 1], Matched(graph, B(graph), n + 1, x, y),
             NEW t \in LabelsOf(n + 1, y)
      PROVE  t \in LabelsOf(n + 1, x)
  <2>1. PICK l : l = n + 1
    OBVIOUS
  <2>2. l \in 1..K /\ n \in 1..(l - 1) /\ l - n = 1 /\ n \in 1..K
    BY <1>1, <2>1
  <2>3. x \in Pairs /\ y \in Pairs
    BY <1>3, <2>1, <2>2, WalkTypes
  <2>4. PICK a \in Vertex, b \in Vertex : x = <<a, b>>
    BY <2>3 DEF Pairs
  <2>5. PICK c \in Vertex, d \in Vertex : y = <<c, d>>
    BY <2>3 DEF Pairs
  <2>6. PICK m \in Vertex : \E s \in LabelsOf(n, <<c, m>>), r \in LabelsOf(1, <<m, d>>) : t = s \o r
    <3>1. t \in LabelsOf(n + 1, <<c, d>>)
      BY <1>3, <2>5
    <3>2. TwoLabels(n, c, d, t)
      BY Zenon, <3>1, LabelsOfStep
    <3> QED
      BY <3>2 DEF TwoLabels
  <2>7. PICK s \in LabelsOf(n, <<c, m>>), r \in LabelsOf(1, <<m, d>>) : t = s \o r
    BY <2>6
  <2>8. <<c, m>> \in W(graph)[n] /\ <<m, d>> \in W(graph)[1]
    <3>1. PICK o : o = 1
      OBVIOUS
    <3>2. <<<<c, m>>, s>> \in LW(graph)[n] /\ <<<<m, d>>, r>> \in LW(graph)[o]
      BY Zenon, <1>1, <2>2, <2>7, <3>1, LabelsOfIs
    <3>3. s \in Seq(Int) /\ r \in Seq(Int)
      BY <1>1, <2>2, <2>7, LabelsOfTypes
    <3>4. <<c, m>> \in W(graph)[n]
      BY Zenon, <2>2, <3>2, <3>3, WalksLabelled
    <3>5. <<m, d>> \in W(graph)[o]
      BY Zenon, <1>1, <3>1, <3>2, <3>3, WalksLabelled
    <3> QED
      BY <3>1, <3>4, <3>5
  <2>9. PICK w : w = <<c, m>>
    OBVIOUS
  <2>10. w \in FirstParts(graph, y, l, n)
    BY <2>2, <2>5, <2>8, <2>9 DEF FirstParts
  <2>11. PICK z \in FirstParts(graph, x, l, n) :
             <<z, w>> \in B(graph)[n] /\ <<<<z[2], x[2]>>, <<w[2], y[2]>>>> \in B(graph)[1]
    BY <1>3, <2>1, <2>2, <2>10 DEF Matched
  <2>12. z \in W(graph)[n] /\ z[1] = x[1]
    BY <2>11 DEF FirstParts
  <2>13. PICK e \in Vertex : z = <<a, e>>
    <3>1. z \in Pairs
      BY <2>2, <2>12, WalkTypes
    <3> QED
      BY <2>4, <2>12, <3>1 DEF Pairs
  <2>14. <<<<a, e>>, <<c, m>>>> \in B(graph)[n] /\ <<<<e, b>>, <<m, d>>>> \in B(graph)[1]
    BY <2>4, <2>5, <2>9, <2>11, <2>13
  <2>15. s \in LabelsOf(n, <<a, e>>)
    BY <1>3, <2>7, <2>14
  <2>16. r \in LabelsOf(1, <<e, b>>)
    BY <1>3, <2>7, <2>14
  <2>17. TwoLabels(n, a, b, t)
    BY <2>7, <2>15, <2>16 DEF TwoLabels
  <2>18. t \in LabelsOf(n + 1, <<a, b>>)
    BY Zenon, <2>17, LabelsOfStep
  <2> QED
    BY <2>4, <2>18
<1>4. ASSUME NEW n \in 1..(K - 1), Equal(1), Equal(n) PROVE Equal(n + 1)
  <2> SUFFICES ASSUME NEW x, NEW y, <<x, y>> \in B(graph)[n + 1]
               PROVE  LabelsOf(n + 1, x) = LabelsOf(n + 1, y)
    OBVIOUS
  <2> HIDE DEF Equal
  <2>1. x \in W(graph)[n + 1] /\ y \in W(graph)[n + 1] /\ Same(graph, B(graph), n + 1, x, y)
    BY BisimilarGrows
  <2>2. Matched(graph, B(graph), n + 1, x, y) /\ Matched(graph, B(graph), n + 1, y, x)
    BY <2>1 DEF Same
  <2>3. \A t \in LabelsOf(n + 1, y) : t \in LabelsOf(n + 1, x)
    BY <1>3, <1>4, <2>1, <2>2
  <2>4. \A t \in LabelsOf(n + 1, x) : t \in LabelsOf(n + 1, y)
    BY <1>3, <1>4, <2>1, <2>2
  <2>5. PICK L, M : L = LabelsOf(n + 1, x) /\ M = LabelsOf(n + 1, y)
    OBVIOUS
  <2>6. L = M
    BY <2>3, <2>4, <2>5
  <2> QED
    BY <2>5, <2>6
<1> HIDE DEF Equal
<1>5. 0 \in P
  BY <1>2
<1>6. ASSUME NEW k \in P PROVE k + 1 \in P
  <2>1. PICK n : n = k + 1
    OBVIOUS
  <2>2. n \in Nat /\ n >= 1 /\ k \in Nat /\ (n <= K => Equal(n))
    BY <2>1
  <2>3. n + 1 <= K => n \in 1..(K - 1) /\ n <= K
    BY <1>1, <2>2
  <2>4. n + 1 <= K => Equal(n + 1)
    BY <1>2, <1>4, <2>2, <2>3
  <2> QED
    BY <2>1, <2>2, <2>4
<1>7. P \in SUBSET Nat
  OBVIOUS
<1> HIDE DEF P
<1>8. P = Nat
  BY <1>5, <1>6, <1>7, NatInd
<1>9. PICK k : k = i - 1
  OBVIOUS
<1>10. k \in Nat /\ k + 1 = i /\ i <= K
  BY <1>1, <1>9
<1>11. Equal(i)
  BY <1>8, <1>10 DEF P
<1> QED
  BY <1>11 DEF Equal

\* Pairs that no path of a length connects have no labels of that length.
LEMMA NoLabels ==
    ASSUME graph \in Graphs, NEW j \in 1..K, NEW p \in Pairs, p \notin W(graph)[j]
    PROVE  LabelsOf(j, p) = {}
<1>1. PICK u \in Vertex, v \in Vertex : p = <<u, v>>
  BY DEF Pairs
<1>2. \A t : t \notin LabelsOf(j, p)
  <2> TAKE t
  <2>1. t \in LabelsOf(j, <<u, v>>) => t \in Seq(Int)
    BY LabelsOfTypes
  <2>2. t \in LabelsOf(j, <<u, v>>) <=> <<<<u, v>>, t>> \in LW(graph)[j]
    BY Zenon, LabelsOfIs
  <2>3. t \in Seq(Int) /\ <<<<u, v>>, t>> \in LW(graph)[j] => <<u, v>> \in W(graph)[j]
    BY Zenon, WalksLabelled
  <2> QED
    BY <1>1, <2>1, <2>2, <2>3
<1> QED
  BY <1>2

\* Bisimilar pairs have the same labels up to every length.
LEMMA LabelsUpToAlike ==
    ASSUME graph \in Graphs, NEW i \in 1..K, NEW p, NEW q, <<p, q>> \in B(graph)[i], NEW l \in 1..i
    PROVE  LabelsUpTo(l, p) = LabelsUpTo(l, q)
<1>1. \A j \in 1..l : j \in 1..i /\ j \in 1..K
  BY DiameterAssumption
<1>2. /\ p \in W(graph)[i] /\ q \in W(graph)[i]
      /\ \A j \in 1..i : (p \in W(graph)[j] <=> q \in W(graph)[j]) /\ (p \in W(graph)[j] => <<p, q>> \in B(graph)[j])
  BY BisimilarBelow
<1>4. p \in Pairs /\ q \in Pairs
  BY <1>2, WalkTypes
<1>3. \A j \in 1..l : LabelsOf(j, p) = LabelsOf(j, q)
  <2> TAKE j \in 1..l
  <2>1. CASE p \in W(graph)[j]
    BY <1>1, <1>2, <2>1, LabelsAlike
  <2>2. CASE p \notin W(graph)[j]
    <3>1. LabelsOf(j, p) = {} /\ LabelsOf(j, q) = {}
      BY <1>1, <1>2, <1>4, <2>2, NoLabels
    <3> QED
      BY <3>1
  <2> QED
    BY <2>1, <2>2
<1> QED
  BY <1>3 DEF LabelsUpTo

-----------------------------------------------------------------------------
(* A block that is made of a slice.                                        *)

\* The path of a pair is in a block of its layer.
LEMMA PlaceIs ==
    ASSUME AllNumbered, BlockInv, pc # "built", NEW i \in 1..K, i <= BlocksMade, NEW p \in W(graph)[i]
    PROVE  /\ <<i, p>> \in DOMAIN blockOf
           /\ \E n \in DOMAIN blocks[i] :
                  /\ blockOf[<<i, p>>] = <<i, n>>
                  /\ p \in blocks[i][n].paths /\ BlockRight(i, blocks[i][n])
<1>1. PICK r : r = <<i, p>>
  OBVIOUS
<1>2. r \in DOMAIN path /\ r[1] = i /\ r[2] = p
  BY <1>1, NumberedPath
<1>3. r \in DOMAIN blockOf
  BY <1>2 DEF BlockInv, PlacesRight
<1>4. PICK l \in 1..K : \E n \in DOMAIN blocks[l] :
          /\ blockOf[r] = <<l, n>> /\ r[2] \in blocks[l][n].paths
          /\ l = r[1] \/ (pc = "built" /\ l = K)
  BY <1>3 DEF BlockInv, PlacesRight
<1>5. PICK n \in DOMAIN blocks[i] : blockOf[r] = <<i, n>> /\ p \in blocks[i][n].paths
  BY <1>2, <1>4
<1>6. i \in 1..BlocksMade
  <2>1. BlocksMade \in Nat
    BY DiameterAssumption DEF BlocksMade, AllNumbered, PathInv, Control
  <2> QED
    BY <2>1
<1>7. BlockRight(i, blocks[i][n])
  BY <1>5, <1>6 DEF BlockInv, BlocksRight
<1> QED
  BY <1>1, <1>3, <1>5, <1>7

\* Looking an id up finds a block of the layer the id was given in.
Lookup(s) == blockOf[CHOOSE r \in DOMAIN blockOf : path[r].id = s]

\* A part's id leads to the block of its path, which is in a layer below.
LEMMA LookupIs ==
    ASSUME AllNumbered, BlockInv, pc # "built", NEW i \in 1..K, i <= BlocksMade, NEW p \in W(graph)[i]
    PROVE  \E n \in DOMAIN blocks[i] : Lookup(path[<<i, p>>].id) = <<i, n>>
<1>1. PICK s, q : s = path[<<i, p>>].id /\ q = CHOOSE r \in DOMAIN blockOf : path[r].id = s
  OBVIOUS
<1>2. <<i, p>> \in DOMAIN blockOf
  BY PlaceIs
<1>3. q \in DOMAIN blockOf /\ path[q].id = s
  BY <1>1, <1>2
<1>4. q \in DOMAIN path /\ q[1] <= BlocksMade
  BY <1>3 DEF BlockInv, PlacesRight
<1>5. Made = K /\ DOMAIN path = {r \in (1..Made) \X Pairs : r[2] \in W(graph)[r[1]]}
  BY DEF AllNumbered, PathInv, Made, PathsThere
<1>6. PICK j \in 1..K, z \in Pairs : q = <<j, z>> /\ z \in W(graph)[j]
  BY <1>4, <1>5
<1>7. j = i
  BY <1>1, <1>3, <1>6, IdsApart
<1>8. z \in W(graph)[i] /\ q = <<i, z>>
  BY <1>6, <1>7
<1>9. PICK n \in DOMAIN blocks[i] : blockOf[<<i, z>>] = <<i, n>>
  BY <1>8, PlaceIs
<1> QED
  BY <1>1, <1>8, <1>9 DEF Lookup

\* No label of p is lost between its last length before i and i.
LEMMA LabelsGap ==
    ASSUME AllNumbered, NEW i \in 1..K, NEW p \in W(graph)[i]
    PROVE  /\ Earlier(graph, p, i) = {} => LabelsUpTo(i, p) = LabelsOf(i, p)
           /\ Earlier(graph, p, i) # {} =>
                  LabelsUpTo(i, p) = LabelsOf(i, p) \cup LabelsUpTo(Max(Earlier(graph, p, i)), p)
<1>1. graph \in Graphs /\ p \in Pairs
  BY NumberedPath
<1>2. PICK S : S = Earlier(graph, p, i)
  OBVIOUS
<1>3. i \in Nat /\ i >= 1 /\ \A j \in 1..(i - 1) : j \in 1..K
  BY DiameterAssumption
<1>4. \A j \in 1..(i - 1) : j \notin S => LabelsOf(j, p) = {}
  BY <1>1, <1>2, <1>3, NoLabels DEF Earlier
<1>5. \A j \in 1..i : j = i \/ j \in 1..(i - 1)
  BY <1>3
<1>6. CASE S = {}
  <2>1. \A t : t \in LabelsUpTo(i, p) <=> t \in LabelsOf(i, p)
    <3>1. \A t : t \in LabelsUpTo(i, p) => t \in LabelsOf(i, p)
      BY <1>4, <1>5, <1>6 DEF LabelsUpTo
    <3>2. i \in 1..i
      BY <1>3
    <3> QED
      BY <3>1, <3>2 DEF LabelsUpTo
  <2>2. LabelsUpTo(i, p) = LabelsOf(i, p)
    BY <2>1
  <2> QED
    BY <1>2, <1>6, <2>2
<1>7. CASE S # {}
  <2>1. PICK m : m = Max(S)
    OBVIOUS
  <2>2. S \in SUBSET (1..(i - 1)) /\ i - 1 \in Nat
    BY <1>2, <1>3 DEF Earlier
  <2>3. m \in 1..(i - 1) /\ \A k \in S : k <= m
    BY <1>7, <2>1, <2>2, MaxIs
  <2>4. \A j \in 1..i : j = i \/ j \in 1..m \/ LabelsOf(j, p) = {}
    BY <1>3, <1>4, <1>5, <2>2, <2>3
  <2>5. i \in 1..i /\ \A j \in 1..m : j \in 1..i
    BY <1>3, <2>3
  <2>6. \A t : t \in LabelsUpTo(i, p) <=> t \in LabelsOf(i, p) \/ t \in LabelsUpTo(m, p)
    BY <2>4, <2>5 DEF LabelsUpTo
  <2>7. LabelsUpTo(i, p) = LabelsOf(i, p) \cup LabelsUpTo(m, p)
    BY <2>6
  <2> QED
    BY <1>2, <1>7, <2>1, <2>7
<1> QED
  BY <1>6, <1>7

\* Of paths of length l that share an id, a block is made that reads those of shorter paths
\* and keeps all labels, whichever of the paths stands for the others.
LEMMA MakeBlockIs ==
    ASSUME AllNumbered, BlockInv, pc # "built", NEW k, NEW l \in 1..K, l - 1 <= BlocksMade,
           NEW slice, NEW range \in slice, \A r \in slice : \E p \in W(graph)[l] : r = <<l, p>>,
           \A q, r \in slice : path[q].id = path[r].id
    PROVE  /\ MakeBlock(k, slice, range, blockOf).paths = {r[2] : r \in slice}
           /\ BlockRight(l, MakeBlock(k, slice, range, blockOf))
<1>1. PICK p \in W(graph)[l] : range = <<l, p>>
  OBVIOUS
<1>2. PICK a, segs : a = path[range].anc /\ segs = path[range].segs
  OBVIOUS
<1>3. PICK b : b = MakeBlock(k, slice, range, blockOf)
  OBVIOUS
<1>4. /\ b.paths = {r[2] : r \in slice}
      /\ b.combinations = {<<Lookup(s[1]), Lookup(s[2])>> : s \in segs}
      /\ b.ancestor = IF a = None THEN None ELSE blockOf[a]
      /\ ComputeLabels => b.labels = path[range].labels \cup InheritedLabels(b.ancestor)
  BY <1>2, <1>3 DEF MakeBlock, Lookup
<1>5. range \in DOMAIN path /\ graph \in Graphs /\ p \in Pairs /\ range[1] = l /\ range[2] = p
  BY <1>1, NumberedPath
<1>6. \A j \in 1..(l - 1) : j \in 1..K /\ l - j \in 1..(l - 1) /\ j <= BlocksMade
  <2>1. BlocksMade \in Int
    BY DiameterAssumption DEF BlocksMade, AllNumbered, PathInv, Control
  <2>2. K \in Nat /\ l \in Nat /\ l <= K
    BY DiameterAssumption
  <2> QED
    BY <2>1, <2>2
<1>7. b.paths # {} /\ b.paths \subseteq W(graph)[l]
  <2>1. \A r \in slice : r[2] \in W(graph)[l]
    OBVIOUS
  <2> QED
    BY <1>4, <2>1
<1>8. \A x, y \in b.paths : path[<<l, x>>].id = path[<<l, y>>].id
  <2>1. \A r \in slice : r = <<l, r[2]>>
    OBVIOUS
  <2> QED
    BY <1>4, <2>1
<1>9. a = None <=> Earlier(graph, p, l) = {}
  BY <1>1, <1>2, AncestorIs
<1>10. PICK m : m = Max(Earlier(graph, p, l))
  OBVIOUS
<1>11. a # None => m \in 1..(l - 1) /\ p \in W(graph)[m] /\ a = <<m, p>>
  BY <1>1, <1>2, <1>9, <1>10, AncestorIs
<1>12. ASSUME a # None
       PROVE  \E n \in DOMAIN blocks[m] :
                  /\ b.ancestor = <<m, n>> /\ p \in blocks[m][n].paths
                  /\ BlockRight(m, blocks[m][n])
  BY <1>4, <1>6, <1>11, <1>12, PlaceIs
<1>13. ASSUME NEW r \in Reads(b)
       PROVE  r[1] \in 1..(l - 1) /\ r[2] \in DOMAIN blocks[r[1]]
  <2>1. CASE r = b.ancestor /\ r # None
    <3>1. a # None
      BY <1>4, <2>1
    <3> QED
      BY <1>11, <1>12, <2>1, <3>1
  <2>2. CASE \E c \in b.combinations : r \in {c[1], c[2]}
    <3>1. PICK s \in segs : r = Lookup(s[1]) \/ r = Lookup(s[2])
      BY <1>4, <2>2
    <3>2. PICK j \in 1..(l - 1) : \E w \in FirstParts(graph, p, l, j) : s = SegmentOf(w, p, l, j)
      BY <1>1, <1>2, <3>1, SegmentsAre
    <3>3. PICK w \in FirstParts(graph, p, l, j) : s = SegmentOf(w, p, l, j)
      BY <3>2
    <3>4. PICK i, z : i = l - j /\ z = <<w[2], p[2]>>
      OBVIOUS
    <3>5. i \in 1..(l - 1) /\ w \in W(graph)[j] /\ z \in W(graph)[i]
      BY <1>6, <3>2, <3>4 DEF FirstParts
    <3>6. s[1] = path[<<j, w>>].id /\ s[2] = path[<<i, z>>].id
      BY <3>3, <3>4 DEF SegmentOf
    <3>7. PICK n \in DOMAIN blocks[j] : Lookup(s[1]) = <<j, n>>
      BY <1>6, <3>2, <3>5, <3>6, LookupIs
    <3>8. PICK o \in DOMAIN blocks[i] : Lookup(s[2]) = <<i, o>>
      BY <1>6, <3>5, <3>6, LookupIs
    <3>9. CASE r = Lookup(s[1])
      BY <3>7, <3>9
    <3>10. CASE r = Lookup(s[2])
      BY <3>5, <3>8, <3>10
    <3> QED
      BY <3>1, <3>9, <3>10
  <2>3. (\E c \in b.combinations : r \in {c[1], c[2]}) \/ (r = b.ancestor /\ r # None)
    BY <1>13 DEF Reads
  <2> QED
    BY <2>1, <2>2, <2>3
<1>14. ASSUME ComputeLabels PROVE b.labels = LabelsUpTo(l, p)
  <2>1. path[range].labels = LabelsOf(l, p)
    BY <1>5, <1>14 DEF AllNumbered, PathInv, LabelsRight
  <2>2. CASE a = None
    <3>1. InheritedLabels(b.ancestor) = {}
      BY <1>4, <2>2 DEF InheritedLabels
    <3>2. LabelsUpTo(l, p) = LabelsOf(l, p)
      BY <1>9, <2>2, LabelsGap
    <3> QED
      BY <1>4, <1>14, <2>1, <3>1, <3>2
  <2>3. CASE a # None
    <3>1. PICK n \in DOMAIN blocks[m] :
              b.ancestor = <<m, n>> /\ p \in blocks[m][n].paths /\ BlockRight(m, blocks[m][n])
      BY <1>12, <2>3
    <3>2. blocks[m][n].labels = LabelsUpTo(m, p)
      BY <1>14, <3>1 DEF BlockRight
    <3>3. <<m, n>> # None
      <4>1. m \in Nat
        BY <1>11, <2>3
      <4>2. n \in Nat
        <5>1. m \in 1..K
          BY <1>6, <1>11, <2>3
        <5>2. PICK d : blocks[m] = [i \in 1..d |-> blocks[m][i]]
          BY <5>1 DEF BlockInv, BlocksFew
        <5>3. DOMAIN blocks[m] = 1..d
          BY <5>2
        <5> QED
          BY <3>1, <5>3
      <4> QED
        BY <4>1, <4>2, NoneAssumption
    <3>4. InheritedLabels(b.ancestor) = LabelsUpTo(m, p)
      BY <1>14, <3>1, <3>2, <3>3 DEF InheritedLabels
    <3>5. LabelsUpTo(l, p) = LabelsOf(l, p) \cup LabelsUpTo(m, p)
      BY <1>9, <1>10, <2>3, LabelsGap
    <3> QED
      BY <1>4, <1>14, <2>1, <3>4, <3>5
  <2> QED
    BY <2>2, <2>3
<1>15. ASSUME ComputeLabels, NEW x \in b.paths PROVE b.labels = LabelsUpTo(l, x)
  <2>1. p \in b.paths
    <3>1. p = range[2] /\ range \in slice
      BY <1>5
    <3> QED
      BY <1>4, <3>1
  <2>2. x \in W(graph)[l] /\ path[<<l, p>>].id = path[<<l, x>>].id
    BY <1>7, <1>8, <2>1
  <2>3. <<p, x>> \in B(graph)[l]
    BY <2>2, AllFit DEF IdsFit
  <2>4. l \in 1..l
    BY DiameterAssumption
  <2>5. LabelsUpTo(l, p) = LabelsUpTo(l, x)
    BY <1>5, <2>3, <2>4, LabelsUpToAlike
  <2> QED
    BY <1>14, <1>15, <2>5
<1>16. BlockRight(l, b)
  BY <1>7, <1>8, <1>13, <1>15 DEF BlockRight
<1> QED
  BY <1>3, <1>4, <1>16

-----------------------------------------------------------------------------
(* The blocks that are made of some paths of a layer.                      *)

\* P cuts S into m parts by their ids, and f has one path of each part.
PartsRight(P, f, m, S) ==
    /\ \A n \in 1..m : f[n] \in P[n] /\ P[n] \subseteq S
    /\ \A r \in S : \E n \in 1..m : r \in P[n]
    /\ \A n, k \in 1..m : \A q \in P[n], r \in P[k] : path[q].id = path[r].id <=> n = k

\* made has one block for each part, which shares no pair with the others.
PartBlocks(l, m, P, made) ==
    /\ \A n \in 1..m : BlockRight(l, made[n]) /\ made[n].paths = {r[2] : r \in P[n]}
    /\ \A n, k \in 1..m : n # k => made[n].paths \cap made[k].paths = {}

\* made has a block of layer k for each of the m parts of some paths of length l, one part for
\* each id, and one path of a part stands for the others.
PartsCut(l, k, m, P, made) ==
    /\ \A n \in 1..m : \E range \in P[n] : made[n] = MakeBlock(k, P[n], range, blockOf)
    /\ \A n \in 1..m : \A r \in P[n] : \E p \in W(graph)[l] : r = <<l, p>>
    /\ \A n, i \in 1..m : \A q \in P[n], r \in P[i] : path[q].id = path[r].id <=> n = i

\* The blocks made of the parts of some paths of a layer.
LEMMA PartsMake ==
    ASSUME AllNumbered, BlockInv, pc # "built", NEW k, NEW l \in 1..K, l - 1 <= BlocksMade,
           NEW S, \A r \in S : \E p \in W(graph)[l] : r = <<l, p>>,
           NEW m \in Nat, NEW P, NEW f, PartsRight(P, f, m, S),
           NEW made, \A n \in 1..m : made[n] = MakeBlock(k, P[n], f[n], blockOf)
    PROVE  PartBlocks(l, m, P, made) /\ PartsCut(l, k, m, P, made)
<1>1. /\ \A n \in 1..m : f[n] \in P[n] /\ P[n] \subseteq S
      /\ \A n, i \in 1..m : \A q \in P[n], r \in P[i] : path[q].id = path[r].id <=> n = i
  BY DEF PartsRight
<1>2. ASSUME NEW n \in 1..m
      PROVE  BlockRight(l, made[n]) /\ made[n].paths = {r[2] : r \in P[n]}
  <2>1. PICK slice, range : slice = P[n] /\ range = f[n]
    OBVIOUS
  <2>2. /\ range \in slice /\ \A r \in slice : \E p \in W(graph)[l] : r = <<l, p>>
        /\ \A q, r \in slice : path[q].id = path[r].id
    BY <1>1, <2>1
  <2>3. /\ MakeBlock(k, slice, range, blockOf).paths = {r[2] : r \in slice}
        /\ BlockRight(l, MakeBlock(k, slice, range, blockOf))
    BY <2>2, MakeBlockIs
  <2> QED
    BY <2>1, <2>3
<1>3. ASSUME NEW n \in 1..m, NEW i \in 1..m, n # i
      PROVE  made[n].paths \cap made[i].paths = {}
  <2>1. \A x : x \in made[n].paths => <<l, x>> \in P[n]
    <3>1. \A r \in P[n] : r = <<l, r[2]>>
      BY <1>1
    <3> QED
      BY <1>2, <3>1
  <2>2. \A x : x \in made[i].paths => <<l, x>> \in P[i]
    <3>1. \A r \in P[i] : r = <<l, r[2]>>
      BY <1>1
    <3> QED
      BY <1>2, <3>1
  <2>3. ASSUME NEW x \in made[n].paths, x \in made[i].paths PROVE FALSE
    <3>1. PICK q : q = <<l, x>>
      OBVIOUS
    <3>2. q \in P[n] /\ q \in P[i]
      BY <2>1, <2>2, <2>3, <3>1
    <3> QED
      BY <1>1, <1>3, <3>2
  <2> QED
    BY <2>3
<1>4. PartsCut(l, k, m, P, made)
  <2>1. \A n \in 1..m : \E range \in P[n] : made[n] = MakeBlock(k, P[n], range, blockOf)
    BY <1>1
  <2>2. \A n \in 1..m : \A r \in P[n] : \E p \in W(graph)[l] : r = <<l, p>>
    BY <1>1
  <2> QED
    BY <1>1, <2>1, <2>2 DEF PartsCut
<1> QED
  BY <1>2, <1>3, <1>4 DEF PartBlocks

\* A block stays right as long as the layers it reads are left alone.
LEMMA BlockRightKept ==
    ASSUME graph' = graph, path' = path, NEW CONSTANT l, NEW CONSTANT b, BlockRight(l, b),
           \A i \in 1..(l - 1) : DOMAIN blocks'[i] = DOMAIN blocks[i]
    PROVE  BlockRight(l, b)'
<1>1. W(graph)' = W(graph) /\ \A p : LabelsUpTo(l, p)' = LabelsUpTo(l, p)
  BY DEF LabelsUpTo, LabelsOf
<1> QED
  BY <1>1 DEF BlockRight

\* a stays the last path of its pair if the next layer has none of the pair.
LEMMA IsLastStays ==
    ASSUME NEW l \in 1..K, NEW p, NEW a, p \notin W(graph)[l], IsLast(l, p, a)
    PROVE  IsLast(l + 1, p, a)
<1>1. PICK n : n = l + 1
  OBVIOUS
<1>2. /\ n - 1 = l /\ \A j \in 1..l : j = l \/ j \in 1..(l - 1)
      /\ \A m \in 1..(l - 1) : m \in 1..l /\ \A j \in (m + 1)..l : j = l \/ j \in (m + 1)..(l - 1)
  BY <1>1, DiameterAssumption
<1>3. IsLast(n, p, a)
  BY <1>2 DEF IsLast
<1> QED
  BY <1>1, <1>3

\* The last path is that of the next layer if it has one.
LEMMA IsLastMoves ==
    ASSUME NEW l \in 1..K, NEW p \in W(graph)[l]
    PROVE  IsLast(l + 1, p, <<l, p>>)
<1>1. PICK n : n = l + 1
  OBVIOUS
<1>2. n - 1 = l /\ l \in 1..l /\ (l + 1)..l = {}
  BY <1>1, DiameterAssumption
<1>3. IsLast(n, p, <<l, p>>)
  BY <1>2 DEF IsLast
<1> QED
  BY <1>1, <1>3

-----------------------------------------------------------------------------
(* Until the first blocks are made.                                        *)

\* There are no blocks yet.
NoBlocks ==
    /\ DOMAIN blocks = 1..K /\ \A l \in 1..K : blocks[l] = <<>>
    /\ DOMAIN blockOf = {} /\ DOMAIN unused = {}

\* No layer was turned into blocks yet.
Beginning == pc \in {"edges", "number", "join"} \/ (pc = "blocks" /\ layer = 1)

\* Before the first layer is turned into blocks there are none.
LEMMA BlocksNotBegun ==
    ASSUME PathInv, BlockInv, pc \in {"edges", "number", "join"}
    PROVE  NoBlocks
<1>1. BlocksMade = 0 /\ Waiting = 0 /\ pc # "built"
  BY DiameterAssumption DEF BlocksMade, Waiting
<1>2. DOMAIN blockOf = {}
  BY <1>1 DEF BlockInv, PlacesRight, PathInv, PathsThere
<1>3. DOMAIN unused = {}
  BY <1>1 DEF BlockInv, UnusedRight
<1>4. DOMAIN blocks = 1..K /\ \A l \in 1..K : blocks[l] = <<>>
  <2>1. ASSUME NEW l \in 1..K PROVE blocks[l] = <<>>
    <3>1. PICK m \in 0..Cardinality(Pairs) : blocks[l] = [n \in 1..m |-> blocks[l][n]] /\ (m > 0 <=> l <= BlocksMade)
      BY <1>1 DEF BlockInv, BlocksFew
    <3>2. m = 0
      <4>1. Cardinality(Pairs) \in Nat
        BY PairsFinite, FS_CardinalityType
      <4> QED
        BY <1>1, <3>1, <4>1, DiameterAssumption
    <3> QED
      BY <3>1, <3>2
  <2> QED
    BY <2>1 DEF BlockInv, BlocksFew
<1> QED
  BY <1>2, <1>3, <1>4 DEF NoBlocks

\* Which is right as long as the paths are collected and numbered.
LEMMA BlocksBegin ==
    PathInv /\ NoBlocks /\ Beginning => BlockInv
<1> SUFFICES ASSUME PathInv, NoBlocks, Beginning PROVE BlockInv
  OBVIOUS
<1>1. BlocksMade = 0 /\ Waiting = 0 /\ pc # "built" /\ pc # "failed"
  BY DiameterAssumption DEF Beginning, BlocksMade, Waiting
<1>2. PlacesRight
  <2>1. \A r \in DOMAIN path : ~(r[1] <= 0)
    BY DEF PathInv, PathsThere
  <2> QED
    BY <1>1, <2>1 DEF NoBlocks, PlacesRight
<1>3. UnusedRight
  BY <1>1 DEF NoBlocks, UnusedRight
<1>4. BlocksFew
  <2>1. Cardinality(Pairs) \in Nat
    BY PairsFinite, FS_CardinalityType
  <2>2. ASSUME NEW l \in 1..K
        PROVE  \E m \in 0..Cardinality(Pairs) :
                   blocks[l] = [n \in 1..m |-> blocks[l][n]] /\ (m > 0 <=> l <= BlocksMade)
    <3>1. PICK m : m = 0
      OBVIOUS
    <3>2. blocks[l] = [n \in 1..m |-> blocks[l][n]]
      BY <3>1 DEF NoBlocks
    <3>3. ~(l <= BlocksMade) /\ m \in 0..Cardinality(Pairs) /\ ~(m > 0)
      BY <1>1, <2>1, <3>1, DiameterAssumption
    <3> QED
      BY <3>2, <3>3
  <2>3. DOMAIN blocks = 1..K
    BY DEF NoBlocks
  <2> QED
    BY <1>1, <2>2, <2>3 DEF BlocksFew
<1>5. BlocksRight /\ EdgesThere
  BY <1>1 DEF BlocksRight, EdgesThere
<1> QED
  BY <1>2, <1>3, <1>4, <1>5 DEF BlockInv

\* A graph without edges is the only one with an empty layer.
LEMMA EmptyLayerKeeps ==
    ASSUME AllNumbered, BlockInv, EmptyLayer, PathInv'
    PROVE  BlockInv'
<1>1. /\ pc = "blocks" /\ pc' = "failed" /\ segments[layer] = <<>>
      /\ layer' = layer /\ graph' = graph /\ path' = path
      /\ blocks' = blocks /\ blockOf' = blockOf /\ unused' = unused
  BY DEF EmptyLayer, partitionVars, blockVars
<1>2. PathInv /\ Control /\ PathsThere /\ Numbered = K /\ Made = K /\ layer \in 1..K /\ graph \in Graphs
  BY <1>1 DEF AllNumbered, PathInv, Control, Made, Numbered
<1>3. graph = {}
  <2>1. InLine(segments[layer], PathsOf(layer), path)
    BY <1>2 DEF PathInv, SequencesRight
  <2>2. PathsOf(layer) = {}
    <3>1. segments[layer] \in [1..Cardinality(PathsOf(layer)) -> PathsOf(layer)]
      BY <2>1 DEF InLine
    <3>2. 1..Cardinality(PathsOf(layer)) = {}
      BY <1>1, <3>1
    <3> QED
      BY <2>1, <3>2 DEF InLine
  <2>3. W(graph)[layer] = {}
    BY <1>2, <2>2, LayerPaths
  <2> QED
    BY <1>2, <2>3, WalksExist
<1>4. BlocksMade' = BlocksMade /\ Waiting' = Waiting
  BY <1>1 DEF BlocksMade, Waiting
<1>5. BlocksMade = layer - 1
  BY <1>1 DEF BlocksMade
<1>6. BlocksRight'
  <2>1. \A l, b : BlockRight(l, b)' <=> BlockRight(l, b)
    BY <1>1 DEF BlockRight, LabelsUpTo, LabelsOf
  <2> QED
    BY <1>1, <1>4, <2>1 DEF BlockInv, BlocksRight
<1>7. BlocksFew'
  BY <1>1, <1>4 DEF BlockInv, BlocksFew
<1>8. PlacesRight'
  BY <1>1, <1>4 DEF BlockInv, PlacesRight
<1>9. UnusedRight'
  BY <1>1, <1>4 DEF BlockInv, UnusedRight, IsLast
<1>10. EdgesThere'
  BY <1>1, <1>3, <1>4 DEF BlockInv, EdgesThere
<1> QED
  BY <1>6, <1>7, <1>8, <1>9, <1>10 DEF BlockInv

-----------------------------------------------------------------------------
(* The blocks of a layer.                                                  *)

\* made holds a block for each of the m parts P of layer l, and at says where each path is.
LayerMade(l, m, P, made, at) ==
    /\ PartBlocks(l, m, P, made) /\ PartsCut(l, l, m, P, made)
    /\ made = [n \in 1..m |-> made[n]]
    /\ \A p \in W(graph)[l] : \E n \in 1..m : at[<<l, p>>] = <<l, n>> /\ <<l, p>> \in P[n]
    /\ DOMAIN at = DOMAIN blockOf \cup PathsOf(l)
    /\ \A r \in DOMAIN blockOf : r[1] # l => at[r] = blockOf[r]

\* What BlocksOfLayer does: it makes a block of each slice of one id.
LEMMA BlocksOfLayerIs ==
    ASSUME AllNumbered, BlockInv, BlocksOfLayer
    PROVE  /\ pc = "blocks" /\ layer \in 1..K /\ segments[layer] # <<>>
           /\ unused' = UnusedAfter(W(graph)[layer])
           /\ layer' = (IF layer < K THEN layer + 1 ELSE layer)
           /\ pc' = (IF layer < K THEN pc ELSE "remaining")
           /\ graph' = graph /\ path' = path
           /\ \E m \in 1..Cardinality(Pairs) : \E P, made :
                  blocks' = [blocks EXCEPT ![layer] = made] /\ LayerMade(layer, m, P, made, blockOf')
<1>1. /\ pc = "blocks" /\ segments[layer] # <<>>
      /\ layer' = (IF layer < K THEN layer + 1 ELSE layer)
      /\ pc' = (IF layer < K THEN pc ELSE "remaining")
      /\ graph' = graph /\ path' = path
  BY DEF BlocksOfLayer, partitionVars
<1>2. PathInv /\ Control /\ PathsThere /\ Numbered = K /\ Made = K /\ layer \in 1..K /\ graph \in Graphs
  BY <1>1 DEF AllNumbered, PathInv, Control, Made, Numbered
<1>3. PICK l, s, S : l = layer /\ s = segments[layer] /\ S = PathsOf(layer)
  OBVIOUS
<1>4. l \in 1..K /\ l \in Nat
  BY <1>2, <1>3
<1>5. InLine(s, S, path)
  BY <1>2, <1>3 DEF PathInv, SequencesRight
<1>6. IsFiniteSet(S) /\ S \in SUBSET ({l} \X Pairs) /\ \A r : r \in S <=> \E p \in W(graph)[l] : r = <<l, p>>
  BY <1>2, <1>3, LayerPaths
<1>7. \A r \in S : r \in DOMAIN path /\ r[1] = l /\ path[r].id \in Int
  BY <1>2, <1>3 DEF PathsOf, PathInv, PathsTyped, PathRecord
<1>8. Members(s) = S /\ S # {}
  <2>1. PICK N : N = Cardinality(S)
    OBVIOUS
  <2>2. /\ s \in [1..N -> S] /\ N \in Nat /\ \A r \in S : \E i \in 1..N : s[i] = r
    BY <1>5, <1>6, <2>1, FS_CardinalityType DEF InLine
  <2>3. Members(s) = S
    BY <2>2 DEF Members
  <2>4. S # {}
    <3>1. CASE S = {}
      <4>1. N = 0
        BY <2>1, <3>1, FS_EmptySet
      <4>2. s = <<>>
        BY <2>2, <4>1
      <4> QED
        BY <1>1, <1>3, <4>2
    <3> QED
      BY <3>1
  <2> QED
    BY <2>3, <2>4
<1>9. PICK sl : sl = Slices(s)
  OBVIOUS
<1>10. PICK m \in 0..Cardinality(S) : CutsUp(sl, m, S) /\ (S # {} => m > 0)
  BY <1>5, <1>6, <1>7, <1>9, SlicesAre
<1>11. /\ DOMAIN sl = 1..m
       /\ \A n \in 1..m : sl[n][1] \in Members(sl[n]) /\ Members(sl[n]) \subseteq S
       /\ \A r \in S : \E n \in 1..m : r \in Members(sl[n])
       /\ \A n, k \in 1..m : \A q \in Members(sl[n]), r \in Members(sl[k]) :
              path[q].id = path[r].id <=> n = k
  BY <1>10 DEF CutsUp
<1>12. m \in Nat /\ m \in 1..Cardinality(Pairs)
  <2>1. Cardinality(S) <= Cardinality(Pairs) /\ Cardinality(S) \in Nat /\ Cardinality(Pairs) \in Nat
    <3>1. PICK f : f = [p \in Pairs |-> <<l, p>>]
      OBVIOUS
    <3>2. IsFiniteSet({f[p] : p \in Pairs}) /\ Cardinality({f[p] : p \in Pairs}) <= Cardinality(Pairs)
      BY PairsFinite, ImageFinite
    <3>3. S \subseteq {f[p] : p \in Pairs}
      BY <1>6, <3>1
    <3>4. Cardinality(S) <= Cardinality({f[p] : p \in Pairs})
      BY <3>2, <3>3, FS_Subset
    <3>5. Cardinality(S) \in Nat /\ Cardinality(Pairs) \in Nat /\ Cardinality({f[p] : p \in Pairs}) \in Nat
      BY <1>6, <3>2, PairsFinite, FS_CardinalityType
    <3> QED
      BY <3>2, <3>4, <3>5
  <2> QED
    BY <1>8, <1>10, <2>1
<1>13. PICK P, f : P = [n \in 1..m |-> Members(sl[n])] /\ f = [n \in 1..m |-> sl[n][1]]
  OBVIOUS
<1>14. \A n \in 1..m : P[n] = Members(sl[n]) /\ f[n] = sl[n][1]
  BY <1>13
<1>15. PartsRight(P, f, m, S)
  BY <1>11, <1>14 DEF PartsRight
<1>16. PICK made : made = [n \in DOMAIN sl |-> MakeBlock(l, Members(sl[n]), sl[n][1], blockOf)]
  OBVIOUS
<1>17. made = [n \in 1..m |-> made[n]] /\ \A n \in 1..m : made[n] = MakeBlock(l, P[n], f[n], blockOf)
  BY <1>11, <1>14, <1>16
<1>18. PartBlocks(l, m, P, made) /\ PartsCut(l, l, m, P, made)
  <2>1. l - 1 <= BlocksMade
    BY <1>1, <1>3, <1>4 DEF BlocksMade
  <2>2. \A r \in S : \E p \in W(graph)[l] : r = <<l, p>>
    BY <1>6
  <2>3. m \in Nat /\ pc # "built"
    BY <1>1, <1>12
  <2>4. \A n \in 1..m : made[n] = MakeBlock(l, P[n], f[n], blockOf)
    BY <1>17
  <2> QED
    BY <1>4, <1>15, <2>1, <2>2, <2>3, <2>4, PartsMake
<1>19. PICK place : place = [r \in S |-> <<l, CHOOSE n \in DOMAIN sl : r \in Members(sl[n])>>]
  OBVIOUS
<1>20. /\ blocks' = [blocks EXCEPT ![layer] = made]
       /\ blockOf' = Put(place, blockOf)
       /\ unused' = UnusedAfter({r[2] : r \in S})
  BY <1>3, <1>8, <1>9, <1>16, <1>19 DEF BlocksOfLayer
<1>21. {r[2] : r \in S} = W(graph)[l]
  <2>1. ASSUME NEW p \in W(graph)[l] PROVE p \in {r[2] : r \in S}
    <3>1. PICK r : r = <<l, p>>
      OBVIOUS
    <3> QED
      BY <1>6, <3>1
  <2>2. ASSUME NEW r \in S PROVE r[2] \in W(graph)[l]
    BY <1>6
  <2> QED
    BY <2>1, <2>2
<1>22. PICK at : at = Put(place, blockOf)
  OBVIOUS
<1>23. DOMAIN at = DOMAIN blockOf \cup S /\ DOMAIN place = S
  BY <1>19, <1>22 DEF Put
<1>24. \A r \in S : at[r] = place[r]
  BY <1>22, <1>23 DEF Put
<1>25. \A r \in DOMAIN blockOf : r[1] # l => at[r] = blockOf[r]
  <2>1. \A r \in S : r[1] = l
    BY <1>7
  <2> QED
    BY <1>22, <1>23, <2>1 DEF Put
<1>26. \A p \in W(graph)[l] : \E n \in 1..m : at[<<l, p>>] = <<l, n>> /\ <<l, p>> \in P[n]
  <2> TAKE p \in W(graph)[l]
  <2>1. PICK r : r = <<l, p>>
    OBVIOUS
  <2>2. r \in S
    BY <1>6, <2>1
  <2>3. PICK n : n = CHOOSE i \in DOMAIN sl : r \in Members(sl[i])
    OBVIOUS
  <2>4. n \in 1..m /\ r \in P[n]
    BY <1>11, <1>14, <2>2, <2>3
  <2>5. at[r] = <<l, n>>
    BY <1>19, <1>24, <2>2, <2>3
  <2> QED
    BY <2>1, <2>4, <2>5
<1>27. LayerMade(l, m, P, made, at)
  BY <1>3, <1>17, <1>18, <1>23, <1>25, <1>26 DEF LayerMade
<1> QED
  BY <1>1, <1>2, <1>3, <1>12, <1>20, <1>21, <1>22, <1>27

\* Turning a layer into blocks keeps what is known of the blocks.
LEMMA BlocksOfLayerKeeps ==
    ASSUME AllNumbered, BlockInv, BlocksOfLayer, PathInv'
    PROVE  BlockInv'
<1>1. /\ pc = "blocks" /\ layer \in 1..K /\ segments[layer] # <<>>
      /\ unused' = UnusedAfter(W(graph)[layer])
      /\ layer' = (IF layer < K THEN layer + 1 ELSE layer)
      /\ pc' = (IF layer < K THEN pc ELSE "remaining")
      /\ graph' = graph /\ path' = path
      /\ \E m \in 1..Cardinality(Pairs) : \E P, made :
             blocks' = [blocks EXCEPT ![layer] = made] /\ LayerMade(layer, m, P, made, blockOf')
  BY BlocksOfLayerIs
<1>2. PICK l : l = layer
  OBVIOUS
<1>3. PICK m \in 1..Cardinality(Pairs) : \E P, made :
          blocks' = [blocks EXCEPT ![l] = made] /\ LayerMade(l, m, P, made, blockOf')
  BY <1>1, <1>2
<1>4. PICK P, made : blocks' = [blocks EXCEPT ![l] = made] /\ LayerMade(l, m, P, made, blockOf')
  BY <1>3
<1>5. K \in Nat \ {0} /\ l \in 1..K /\ l \in Nat /\ graph \in Graphs /\ Made = K
  BY <1>1, <1>2, DiameterAssumption DEF AllNumbered, PathInv, Control, Made
<1>6. BlocksMade = l - 1 /\ BlocksMade' = l /\ Waiting = l - 1 /\ Waiting' = IF l < K THEN l ELSE K - 1
  <2>1. BlocksMade = l - 1 /\ BlocksMade' = l
    BY <1>1, <1>2, <1>5 DEF BlocksMade
  <2> QED
    BY <1>5, <2>1 DEF Waiting
<1>7. pc # "built" /\ pc' # "built" /\ pc' # "failed"
  BY <1>1
<1>8. DOMAIN blocks = 1..K /\ DOMAIN blocks' = 1..K /\ blocks'[l] = made
      /\ \A i \in 1..K : i # l => blocks'[i] = blocks[i]
  BY <1>4, <1>5 DEF BlockInv, BlocksFew
<1>9. /\ made = [n \in 1..m |-> made[n]] /\ DOMAIN made = 1..m
      /\ \A n \in 1..m : BlockRight(l, made[n]) /\ made[n].paths = {r[2] : r \in P[n]}
      /\ \A n, k \in 1..m : n # k => made[n].paths \cap made[k].paths = {}
  BY <1>4 DEF LayerMade, PartBlocks
<1>10. \A r : r \in PathsOf(l) <=> \E p \in W(graph)[l] : r = <<l, p>>
  BY <1>5, LayerPaths DEF AllNumbered, PathInv
<1>11. BlocksRight'
  <2>1. \A i \in 1..l : i \in 1..K /\ (i = l \/ i \in 1..(l - 1)) /\ \A j \in 1..(i - 1) : j \in 1..K /\ j # l
    BY <1>5
  <2>2. ASSUME NEW CONSTANT i \in 1..l, NEW CONSTANT b, BlockRight(i, b) PROVE BlockRight(i, b)'
    <3>1. \A j \in 1..(i - 1) : DOMAIN blocks'[j] = DOMAIN blocks[j]
      BY <1>8, <2>1
    <3> QED
      BY <1>1, <2>2, <3>1, BlockRightKept
  <2>3. ASSUME NEW CONSTANT i \in 1..l, NEW CONSTANT n \in DOMAIN blocks'[i] PROVE BlockRight(i, blocks[i][n])'
    <3>1. PICK b : b = blocks'[i][n]
      OBVIOUS
    <3>2. BlockRight(i, b)
      <4>1. CASE i = l
        BY <1>8, <1>9, <2>3, <3>1, <4>1
      <4>2. CASE i # l
        <5>1. i \in 1..BlocksMade /\ blocks'[i] = blocks[i]
          BY <1>6, <1>8, <2>1, <4>2
        <5> QED
          BY <1>7, <2>3, <3>1, <5>1 DEF BlockInv, BlocksRight
      <4> QED
        BY <4>1, <4>2
    <3>3. BlockRight(i, b)'
      BY <2>2, <3>2
    <3> QED
      BY <3>1, <3>3 DEF BlockRight
  <2>4. ASSUME NEW CONSTANT i \in 1..l, NEW n \in DOMAIN blocks'[i], NEW k \in DOMAIN blocks'[i], n # k
        PROVE  blocks'[i][n].paths \cap blocks'[i][k].paths = {}
    <3>1. CASE i = l
      BY <1>8, <1>9, <2>4, <3>1
    <3>2. CASE i # l
      <4>1. i \in 1..BlocksMade /\ blocks'[i] = blocks[i]
        BY <1>6, <1>8, <2>1, <3>2
      <4> QED
        BY <2>4, <4>1 DEF BlockInv, BlocksRight
    <3> QED
      BY <3>1, <3>2
  <2> QED
    BY <1>6, <2>3, <2>4 DEF BlocksRight
<1>12. BlocksFew'
  <2>1. ASSUME NEW CONSTANT i \in 1..K
        PROVE  \E d \in 0..Cardinality(Pairs) :
                   blocks'[i] = [n \in 1..d |-> blocks'[i][n]] /\ (d > 0 <=> i <= BlocksMade')
    <3>1. CASE i = l
      <4>1. m \in 0..Cardinality(Pairs) /\ m > 0 /\ i <= BlocksMade'
        <5>1. Cardinality(Pairs) \in Nat
          BY PairsFinite, FS_CardinalityType
        <5> QED
          BY <1>5, <1>6, <3>1, <5>1
      <4>2. blocks'[i] = [n \in 1..m |-> blocks'[i][n]]
        BY <1>8, <1>9, <3>1
      <4> QED
        BY <4>1, <4>2
    <3>2. CASE i # l
      <4>1. PICK d \in 0..Cardinality(Pairs) :
                blocks[i] = [n \in 1..d |-> blocks[i][n]] /\ (d > 0 <=> i <= BlocksMade)
        BY <1>7 DEF BlockInv, BlocksFew
      <4>2. i <= BlocksMade <=> i <= BlocksMade'
        BY <1>5, <1>6, <3>2
      <4>3. blocks'[i] = blocks[i]
        BY <1>8, <3>2
      <4> QED
        BY <4>1, <4>2, <4>3
    <3> QED
      BY <3>1, <3>2
  <2> QED
    BY <1>7, <1>8, <2>1 DEF BlocksFew, Pairs
<1>13. PlacesRight'
  <2>1. DOMAIN blockOf' = DOMAIN blockOf \cup PathsOf(l)
    BY <1>4 DEF LayerMade
  <2>2. DOMAIN blockOf = {r \in DOMAIN path : r[1] <= BlocksMade}
    BY DEF BlockInv, PlacesRight
  <2>3. \A r \in DOMAIN path : r[1] \in Nat
    BY <1>5 DEF AllNumbered, PathInv, PathsThere
  <2>4. DOMAIN blockOf' = {r \in DOMAIN path' : r[1] <= BlocksMade'}
    <3>1. \A r : r \in PathsOf(l) <=> r \in DOMAIN path /\ r[1] = l
      BY DEF PathsOf
    <3>2. \A x \in Nat : x <= l <=> x <= l - 1 \/ x = l
      BY <1>5
    <3> QED
      BY <1>1, <1>6, <2>1, <2>2, <2>3, <3>1, <3>2
  <2>5. ASSUME NEW r \in DOMAIN blockOf'
        PROVE  \E i \in 1..K : \E n \in DOMAIN blocks'[i] :
                   blockOf'[r] = <<i, n>> /\ r[2] \in blocks'[i][n].paths /\ i = r[1]
    <3>1. CASE r \in PathsOf(l)
      <4>1. PICK p \in W(graph)[l] : r = <<l, p>>
        BY <1>10, <3>1
      <4>2. PICK n \in 1..m : blockOf'[r] = <<l, n>> /\ r \in P[n]
        BY <1>4, <4>1 DEF LayerMade
      <4>3. n \in DOMAIN blocks'[l] /\ r[2] \in blocks'[l][n].paths /\ r[1] = l
        BY <1>8, <1>9, <4>1, <4>2
      <4> QED
        BY <1>5, <4>2, <4>3
    <3>2. CASE r \notin PathsOf(l)
      <4>1. r \in DOMAIN blockOf /\ r[1] # l
        BY <2>1, <2>2, <3>2 DEF PathsOf
      <4>2. PICK i \in 1..K : \E n \in DOMAIN blocks[i] :
                blockOf[r] = <<i, n>> /\ r[2] \in blocks[i][n].paths /\ i = r[1]
        BY <1>7, <4>1 DEF BlockInv, PlacesRight
      <4>3. blockOf'[r] = blockOf[r]
        BY <1>4, <4>1 DEF LayerMade
      <4>4. i # l /\ blocks'[i] = blocks[i]
        BY <1>8, <4>1, <4>2
      <4> QED
        BY <4>2, <4>3, <4>4
    <3> QED
      BY <3>1, <3>2
  <2> QED
    BY <1>7, <2>4, <2>5 DEF PlacesRight
<1>14. UnusedRight'
  <2>1. /\ DOMAIN unused = {p \in Pairs : \E i \in 1..(l - 1) : p \in W(graph)[i]}
        /\ \A p \in DOMAIN unused : unused[p] # None /\ IsLast(l, p, unused[p])
    BY <1>5, <1>6 DEF BlockInv, UnusedRight
  <2>2. W(graph)[l] \in SUBSET Pairs
    BY <1>5, WalkTypes
  <2>3. CASE l < K
    <3>1. PICK e : e = [p \in W(graph)[l] |-> <<l, p>>]
      OBVIOUS
    <3>2. unused' = Put(e, unused)
      BY <1>1, <1>2, <2>3, <3>1 DEF UnusedAfter
    <3>3. PICK u : u = Put(e, unused)
      OBVIOUS
    <3>4. /\ DOMAIN u = W(graph)[l] \cup DOMAIN unused
          /\ \A p \in W(graph)[l] : u[p] = <<l, p>>
          /\ \A p \in DOMAIN unused : p \notin W(graph)[l] => u[p] = unused[p]
      BY <3>1, <3>3 DEF Put
    <3>5. \A i \in 1..l : i = l \/ i \in 1..(l - 1)
      BY <1>5
    <3>6. DOMAIN u = {p \in Pairs : \E i \in 1..l : p \in W(graph)[i]}
      <4>1. l \in 1..l /\ \A i \in 1..(l - 1) : i \in 1..l
        BY <1>5
      <4> QED
        BY <2>1, <2>2, <3>4, <3>5, <4>1
    <3>7. \A p \in DOMAIN u : u[p] # None /\ IsLast(l + 1, p, u[p])
      <4> TAKE p \in DOMAIN u
      <4>1. CASE p \in W(graph)[l]
        <5>1. IsLast(l + 1, p, <<l, p>>)
          BY <1>5, <4>1, IsLastMoves
        <5>2. <<l, p>> # None
          BY <1>5, <2>2, <4>1, NoneAssumption DEF Pairs
        <5> QED
          BY <3>4, <4>1, <5>1, <5>2
      <4>2. CASE p \notin W(graph)[l]
        <5>1. p \in DOMAIN unused /\ u[p] = unused[p]
          BY <3>4, <4>2
        <5>2. unused[p] # None /\ IsLast(l, p, unused[p])
          BY <2>1, <5>1
        <5>3. IsLast(l + 1, p, unused[p])
          BY <1>5, <4>2, <5>2, IsLastStays
        <5> QED
          BY <5>1, <5>2, <5>3
      <4> QED
        BY <4>1, <4>2
    <3>8. Waiting' = l /\ BlocksMade' # K
      BY <1>5, <1>6, <2>3
    <3>9. \A n, p, a : IsLast(n, p, a)' <=> IsLast(n, p, a)
      BY <1>1 DEF IsLast
    <3>10. DOMAIN unused' = {p \in Pairs : \E i \in 1..l : p \in W(graph')[i]}
      BY <1>1, <3>2, <3>3, <3>6
    <3>11. \A p \in DOMAIN unused' : unused'[p] # None /\ IsLast(l + 1, p, unused'[p])
      BY <3>2, <3>3, <3>7
    <3>12. \A p \in DOMAIN unused' : unused'[p] # None /\ IsLast(Waiting + 1, p, unused[p])'
      BY <1>1, <3>8, <3>11 DEF IsLast
    <3> QED
      BY <3>8, <3>10, <3>12 DEF UnusedRight, Pairs
  <2>4. CASE ~(l < K)
    <3>1. l = K /\ BlocksMade' = K /\ Waiting' = l - 1
      BY <1>5, <1>6, <2>4
    <3>2. unused' = [p \in DOMAIN unused \ W(graph)[l] |-> unused[p]]
      BY <1>1, <1>2, <2>4 DEF UnusedAfter
    <3>3. DOMAIN unused' = {p \in Pairs : (\E i \in 1..(l - 1) : p \in W(graph)[i]) /\ p \notin W(graph)[K]}
      BY <2>1, <3>1, <3>2
    <3>4. \A p \in DOMAIN unused' : unused'[p] # None /\ IsLast(l, p, unused'[p])
      BY <2>1, <3>2
    <3>5. (l - 1) + 1 = l
      BY <1>5
    <3>6. \A p \in DOMAIN unused' : unused'[p] # None /\ IsLast(Waiting + 1, p, unused[p])'
      BY <1>1, <3>1, <3>4, <3>5 DEF IsLast
    <3> QED
      BY <1>1, <3>1, <3>3, <3>6 DEF UnusedRight, Pairs
  <2> QED
    BY <2>3, <2>4
<1>15. EdgesThere'
  <2>1. W(graph)[l] # {}
    <3>1. PICK n \in 1..m : BlockRight(l, made[n])
      BY <1>9
    <3> QED
      BY <3>1 DEF BlockRight
  <2>2. graph # {}
    <3>1. CASE graph = {}
      <4>1. CASE l = 1
        BY <1>5, <2>1, <3>1, <4>1, WalksExist
      <4>2. CASE l # 1
        <5>1. BlocksMade > 0
          BY <1>5, <1>6, <4>2
        <5> QED
          BY <3>1, <5>1 DEF BlockInv, EdgesThere
      <4> QED
        BY <4>1, <4>2
    <3> QED
      BY <3>1
  <2> QED
    BY <1>1, <1>7, <2>2 DEF EdgesThere
<1> QED
  BY <1>11, <1>12, <1>13, <1>14, <1>15 DEF BlockInv

-----------------------------------------------------------------------------
(* The blocks of what is left over.                                        *)

\* The paths left over, their ids, the slices of one id, their blocks and places.
LeftPaths == {unused[p] : p \in DOMAIN unused}
LeftIds == Ascending({path[r].id : r \in LeftPaths})
LeftPart(n) == {r \in LeftPaths : path[r].id = LeftIds[n]}
LeftBlocks(first) ==
    [n \in DOMAIN LeftIds |->
        MakeBlock(K, LeftPart(n), CHOOSE r \in first : r \in LeftPart(n), blockOf)]
LeftPlaces ==
    [r \in LeftPaths |-> <<K, Len(blocks[K]) + (CHOOSE n \in DOMAIN LeftIds : r \in LeftPart(n))>>]

\* The step in these words.
LEMMA RemainingExpanded ==
    ASSUME Remaining
    PROVE  /\ pc = "remaining" /\ pc' = "built" /\ layer' = layer /\ graph' = graph /\ path' = path
           /\ unused' = unused
           /\ \E first \in SUBSET LeftPaths :
                  /\ \A n \in DOMAIN LeftIds : Cardinality(first \cap LeftPart(n)) = 1
                  /\ blocks' = [blocks EXCEPT ![K] = @ \o LeftBlocks(first)]
           /\ blockOf' = Put(LeftPlaces, blockOf)
<1>1. /\ pc = "remaining" /\ pc' = "built" /\ layer' = layer /\ graph' = graph /\ path' = path
      /\ unused' = unused
  BY DEF Remaining, partitionVars
<1>2. \E first \in SUBSET LeftPaths :
          /\ \A n \in DOMAIN LeftIds : Cardinality(first \cap LeftPart(n)) = 1
          /\ blocks' = [blocks EXCEPT ![K] = @ \o LeftBlocks(first)]
  BY Zenon DEF Remaining, Sorted, Ascending, LeftPaths, LeftIds, LeftPart, LeftBlocks
<1>3. blockOf' = Put(LeftPlaces, blockOf)
  BY Zenon DEF Remaining, Sorted, Ascending, LeftPaths, LeftIds, LeftPart, LeftPlaces
<1> QED
  BY <1>1, <1>2, <1>3

\* Every edge can be followed back and forth, so that only pairs of the last layer but one
\* are left over.
LEMMA LeftOver ==
    ASSUME AllNumbered, BlockInv, BlocksMade = K, NEW p \in DOMAIN unused
    PROVE  K - 1 \in 1..K /\ p \in W(graph)[K - 1] /\ p \notin W(graph)[K] /\ unused[p] = <<K - 1, p>>
<1>1. K \in Nat \ {0} /\ graph \in Graphs /\ Waiting = K - 1
  BY DiameterAssumption DEF AllNumbered, PathInv, Control, Waiting
<1>2. p \notin W(graph)[K] /\ unused[p] # None /\ IsLast(Waiting + 1, p, unused[p])
  BY DEF BlockInv, UnusedRight
<1>3. PICK n : n = Waiting + 1
  OBVIOUS
<1>4. n = K
  BY <1>1, <1>3
<1>5. PICK m \in 1..(K - 1) :
          unused[p] = <<m, p>> /\ p \in W(graph)[m] /\ \A j \in (m + 1)..(K - 1) : p \notin W(graph)[j]
  BY <1>2, <1>3, <1>4 DEF IsLast
<1>6. m = K - 1
  <2>1. CASE m # K - 1
    <3>1. m \in 1..K /\ m + 2 <= K
      BY <1>1, <2>1
    <3>2. p \in W(graph)[m + 2]
      BY <1>1, <1>5, <3>1, WalksBack
    <3>3. m + 2 = K \/ m + 2 \in (m + 1)..(K - 1)
      BY <1>1, <3>1
    <3> QED
      BY <1>2, <1>5, <3>2, <3>3
  <2> QED
    BY <2>1
<1> QED
  BY <1>1, <1>2, <1>5, <1>6

\* made has a block for each of the m parts P of what is left over, behind the d blocks of the
\* last layer, and at says where each path is.
LeftMade(d, m, P, made, at) ==
    /\ PartBlocks(K - 1, m, P, made) /\ PartsCut(K - 1, K, m, P, made)
    /\ made = [n \in 1..m |-> made[n]]
    /\ \A n \in 1..m : P[n] \subseteq LeftPaths
    /\ \A r \in LeftPaths : \E n \in 1..m : at[r] = <<K, d + n>> /\ r \in P[n]
    /\ DOMAIN at = DOMAIN blockOf \cup LeftPaths
    /\ \A r \in DOMAIN blockOf : r \notin LeftPaths => at[r] = blockOf[r]

\* What Remaining does, whichever path of a slice comes first.
LEMMA RemainingIs ==
    ASSUME AllNumbered, BlockInv, Remaining
    PROVE  \E m \in 0..Cardinality(Pairs) : \E P, made :
               blocks' = [blocks EXCEPT ![K] = @ \o made] /\ LeftMade(Len(blocks[K]), m, P, made, blockOf')
<1>1. /\ pc = "remaining" /\ pc' = "built"
      /\ \E first \in SUBSET LeftPaths :
             /\ \A n \in DOMAIN LeftIds : Cardinality(first \cap LeftPart(n)) = 1
             /\ blocks' = [blocks EXCEPT ![K] = @ \o LeftBlocks(first)]
      /\ blockOf' = Put(LeftPlaces, blockOf)
  BY RemainingExpanded
<1>2. BlocksMade = K /\ K \in Nat \ {0} /\ graph \in Graphs
  BY <1>1, DiameterAssumption DEF BlocksMade, AllNumbered, PathInv, Control
<1>3. PICK first \in SUBSET LeftPaths :
          /\ \A n \in DOMAIN LeftIds : Cardinality(first \cap LeftPart(n)) = 1
          /\ blocks' = [blocks EXCEPT ![K] = @ \o LeftBlocks(first)]
  BY <1>1
<1>4. PICK S, I : S = LeftPaths /\ I = {path[r].id : r \in S}
  OBVIOUS
<1>5. PICK l : l = K - 1
  OBVIOUS
<1>6. \A r \in S : \E p \in W(graph)[l] : r = <<l, p>>
  BY <1>2, <1>4, <1>5, LeftOver DEF LeftPaths
<1>7. S # {} => l \in 1..K
  BY <1>2, <1>4, <1>5, LeftOver DEF LeftPaths
<1>8. \A r \in S : path[r].id \in Int
  <2> TAKE r \in S
  <2>1. PICK p \in W(graph)[l] : r = <<l, p>>
    BY <1>6
  <2>2. path[<<l, p>>].id \in Nat
    BY <1>7, <2>1, NumberedPath
  <2> QED
    BY <2>1, <2>2
<1>9. IsFiniteSet(S) /\ IsFiniteSet(I) /\ Cardinality(I) \in 0..Cardinality(Pairs)
  <2>1. DOMAIN unused \in SUBSET Pairs
    BY DEF BlockInv, UnusedRight
  <2>2. IsFiniteSet(DOMAIN unused) /\ Cardinality(DOMAIN unused) <= Cardinality(Pairs)
    BY <2>1, PairsFinite, FS_Subset
  <2>3. PICK D : D = DOMAIN unused
    OBVIOUS
  <2>4. S = {unused[p] : p \in D}
    BY <1>4, <2>3 DEF LeftPaths
  <2>5. IsFiniteSet(S) /\ Cardinality(S) <= Cardinality(D)
    BY <2>2, <2>3, <2>4, ImageFinite
  <2>6. PICK e : e = [r \in S |-> path[r].id]
    OBVIOUS
  <2>7. I = {e[r] : r \in S}
    BY <1>4, <2>6
  <2>8. IsFiniteSet(I) /\ Cardinality(I) <= Cardinality(S)
    BY <2>5, <2>7, ImageFinite
  <2>9. Cardinality(I) \in Nat /\ Cardinality(S) \in Nat /\ Cardinality(D) \in Nat /\ Cardinality(Pairs) \in Nat
    BY <2>2, <2>3, <2>5, <2>8, PairsFinite, FS_CardinalityType
  <2> QED
    BY <2>2, <2>3, <2>5, <2>8, <2>9
<1>10. PICK m, ids : m = Cardinality(I) /\ ids = Ascending(I)
  OBVIOUS
<1>11. /\ m \in Nat /\ ids \in [1..m -> I]
       /\ \A x \in I : \E i \in 1..m : ids[i] = x
       /\ \A i, j \in 1..m : ids[i] = ids[j] => i = j
  <2>1. I \in SUBSET Int
    BY <1>4, <1>8
  <2> QED
    BY <1>9, <1>10, <2>1, AscendingIs
<1>12. PICK P : P = [n \in 1..m |-> {r \in S : path[r].id = ids[n]}]
  OBVIOUS
<1>13. DOMAIN LeftIds = 1..m /\ \A n \in 1..m : LeftPart(n) = P[n]
  <2>1. LeftIds = ids
    BY <1>4, <1>10 DEF LeftIds
  <2> QED
    BY <1>4, <1>11, <1>12, <2>1 DEF LeftPart
<1>14. PICK f : f = [n \in 1..m |-> CHOOSE r \in first : r \in LeftPart(n)]
  OBVIOUS
<1>15. \A n \in 1..m : f[n] \in P[n]
  <2> TAKE n \in 1..m
  <2>1. Cardinality(first \cap P[n]) = 1
    BY <1>3, <1>13
  <2>2. first \cap P[n] # {}
    BY <2>1, FS_EmptySet
  <2>3. PICK part : part = P[n]
    OBVIOUS
  <2>4. f[n] = CHOOSE r \in first : r \in part
    BY <1>13, <1>14, <2>3
  <2>5. \E r \in first : r \in part
    BY <2>2, <2>3
  <2> QED
    BY <2>3, <2>4, <2>5
<1>16. PartsRight(P, f, m, S)
  <2>1. \A r \in S : \E n \in 1..m : r \in P[n]
    <3> TAKE r \in S
    <3>1. path[r].id \in I
      BY <1>4
    <3>2. PICK n \in 1..m : ids[n] = path[r].id
      BY <1>11, <3>1
    <3> QED
      BY <1>12, <3>2
  <2>2. \A n, k \in 1..m : \A q \in P[n], r \in P[k] : path[q].id = path[r].id <=> n = k
    BY <1>11, <1>12
  <2>3. \A n \in 1..m : P[n] \subseteq S
    BY <1>12
  <2> QED
    BY <1>15, <2>1, <2>2, <2>3 DEF PartsRight
<1>17. PICK made : made = LeftBlocks(first)
  OBVIOUS
<1>18. /\ made = [n \in 1..m |-> made[n]] /\ DOMAIN made = 1..m
       /\ \A n \in 1..m : made[n] = MakeBlock(K, P[n], f[n], blockOf)
  BY <1>13, <1>14, <1>17 DEF LeftBlocks
<1>19. PartBlocks(l, m, P, made) /\ PartsCut(l, K, m, P, made)
  <2>1. CASE S = {}
    <3>1. m = 0
      <4>1. I = {}
        BY <1>4, <2>1
      <4> QED
        BY <1>10, <4>1, FS_EmptySet
    <3>2. \A n \in 1..m : FALSE
      BY <3>1
    <3> QED
      BY Zenon, <3>2 DEF PartBlocks, PartsCut
  <2>2. CASE S # {}
    <3>1. l \in 1..K /\ l - 1 <= BlocksMade /\ pc # "built"
      BY <1>1, <1>2, <1>5, <1>7, <2>2
    <3>2. PICK k : k = K
      OBVIOUS
    <3>3. \A n \in 1..m : made[n] = MakeBlock(k, P[n], f[n], blockOf)
      BY <1>18, <3>2
    <3>4. m \in Nat
      BY <1>11
    <3>5. PartBlocks(l, m, P, made) /\ PartsCut(l, k, m, P, made)
      BY <1>6, <1>16, <3>1, <3>3, <3>4, PartsMake
    <3> QED
      BY <3>2, <3>5
  <2> QED
    BY <2>1, <2>2
<1>20. PICK d, at : d = Len(blocks[K]) /\ at = Put(LeftPlaces, blockOf)
  OBVIOUS
<1>21. /\ DOMAIN at = DOMAIN blockOf \cup S
       /\ \A r \in DOMAIN blockOf : r \notin S => at[r] = blockOf[r]
       /\ \A r \in S : at[r] = LeftPlaces[r]
  <2>1. DOMAIN LeftPlaces = S
    BY <1>4 DEF LeftPlaces
  <2>2. PICK e : e = LeftPlaces
    OBVIOUS
  <2> QED
    BY <1>20, <2>1, <2>2 DEF Put
<1>22. \A r \in S : \E n \in 1..m : at[r] = <<K, d + n>> /\ r \in P[n]
  <2> TAKE r \in S
  <2>1. PICK n : n = CHOOSE i \in DOMAIN LeftIds : r \in LeftPart(i)
    OBVIOUS
  <2>2. \E i \in 1..m : r \in P[i]
    BY <1>16 DEF PartsRight
  <2>3. n \in 1..m /\ r \in P[n]
    BY <1>13, <2>1, <2>2
  <2>4. at[r] = <<K, d + n>>
    BY <1>4, <1>20, <1>21, <2>1 DEF LeftPlaces
  <2> QED
    BY <2>3, <2>4
<1>23. \A n \in 1..m : P[n] \subseteq S
  BY <1>12
<1>24. LeftMade(d, m, P, made, at)
  BY <1>4, <1>5, <1>18, <1>19, <1>21, <1>22, <1>23 DEF LeftMade
<1> QED
  BY <1>1, <1>3, <1>9, <1>10, <1>17, <1>20, <1>24

\* u is made of c elements of s and m elements of t behind them.
Behind(c, m, s, t, u) ==
    /\ Len(s) = c /\ u = [n \in 1..(c + m) |-> u[n]]
    /\ \A n \in 1..c : n \in 1..(c + m) /\ u[n] = s[n]
    /\ \A n \in 1..m : c + n \in 1..(c + m) /\ u[c + n] = t[n]
    /\ \A n \in 1..(c + m) : n \in 1..c \/ \E k \in 1..m : n = c + k

\* One sequence put behind another.
LEMMA PutBehind ==
    ASSUME NEW c \in Nat, NEW m \in Nat, NEW s, s = [n \in 1..c |-> s[n]],
           NEW t, t = [n \in 1..m |-> t[n]], NEW u, u = s \o t
    PROVE  Behind(c, m, s, t, u)
<1>1. PICK T : T = {s[n] : n \in 1..c} \cup {t[n] : n \in 1..m}
  OBVIOUS
<1>2. s \in [1..c -> T] /\ t \in [1..m -> T]
  BY <1>1
<1>3. s \in Seq(T) /\ t \in Seq(T) /\ Len(s) = c /\ Len(t) = m
  BY <1>2
<1>4. u \in Seq(T) /\ Len(u) = c + m
  BY <1>3
<1>5. u = [n \in 1..(c + m) |-> u[n]]
  BY <1>4
<1>6. \A n \in 1..c : n \in 1..(c + m) /\ u[n] = s[n]
  BY <1>3
<1>7. \A n \in 1..m : c + n \in 1..(c + m) /\ u[c + n] = t[n]
  <2> TAKE n \in 1..m
  <2>1. PICK i : i = c + n
    OBVIOUS
  <2>2. i \in 1..(c + m) /\ i > c /\ i - c = n
    BY <2>1
  <2>3. u[i] = t[i - c]
    BY <1>3, <2>2
  <2> QED
    BY <2>1, <2>2, <2>3
<1>8. ASSUME NEW n \in 1..(c + m), n \notin 1..c PROVE \E k \in 1..m : n = c + k
  <2>1. PICK k : k = n - c
    OBVIOUS
  <2>2. k \in 1..m /\ n = c + k
    BY <1>8, <2>1
  <2> QED
    BY <2>2
<1> QED
  BY <1>3, <1>5, <1>6, <1>7, <1>8 DEF Behind

\* The blocks of what is left over keep what is known of the blocks.
LEMMA RemainingKeeps ==
    ASSUME AllNumbered, BlockInv, Remaining, PathInv'
    PROVE  BlockInv'
<1>1. /\ pc = "remaining" /\ pc' = "built" /\ layer' = layer /\ graph' = graph /\ path' = path
      /\ unused' = unused
  BY RemainingExpanded
<1>2. K \in Nat \ {0} /\ BlocksMade = K /\ BlocksMade' = K /\ Waiting' = Waiting /\ Waiting = K - 1
  <2>1. BlocksMade = K /\ BlocksMade' = K
    BY <1>1 DEF BlocksMade
  <2> QED
    BY <2>1, DiameterAssumption DEF Waiting
<1>3. PICK m \in 0..Cardinality(Pairs) : \E P, made :
          blocks' = [blocks EXCEPT ![K] = @ \o made] /\ LeftMade(Len(blocks[K]), m, P, made, blockOf')
  BY RemainingIs
<1>4. PICK P, made :
          blocks' = [blocks EXCEPT ![K] = @ \o made] /\ LeftMade(Len(blocks[K]), m, P, made, blockOf')
  BY <1>3
<1>5. PICK last, u : last = blocks[K] /\ u = last \o made
  OBVIOUS
<1>6. DOMAIN blocks = 1..K /\ DOMAIN blocks' = 1..K /\ blocks'[K] = u
      /\ \A i \in 1..K : i # K => blocks'[i] = blocks[i]
  BY <1>2, <1>4, <1>5 DEF BlockInv, BlocksFew
<1>7. Cardinality(Pairs) \in Nat /\ m \in Nat
  BY PairsFinite, FS_CardinalityType
<1>8. PICK c \in 0..Cardinality(Pairs) : last = [n \in 1..c |-> last[n]] /\ c > 0
  <2>1. K \in 1..K /\ pc # "built" /\ K <= BlocksMade
    BY <1>1, <1>2
  <2>2. PICK c \in 0..Cardinality(Pairs) : blocks[K] = [n \in 1..c |-> blocks[K][n]] /\ (c > 0 <=> K <= BlocksMade)
    BY <2>1 DEF BlockInv, BlocksFew
  <2> QED
    BY <1>5, <2>1, <2>2
<1>9. c \in Nat /\ DOMAIN last = 1..c
  BY <1>7, <1>8
<1>10. made = [n \in 1..m |-> made[n]]
  BY <1>4 DEF LeftMade
<1>11. /\ Len(last) = c /\ u = [n \in 1..(c + m) |-> u[n]]
       /\ \A n \in 1..c : n \in 1..(c + m) /\ u[n] = last[n]
       /\ \A n \in 1..m : c + n \in 1..(c + m) /\ u[c + n] = made[n]
       /\ \A n \in 1..(c + m) : n \in 1..c \/ \E k \in 1..m : n = c + k
  <2>1. c \in Nat /\ m \in Nat /\ last = [n \in 1..c |-> last[n]] /\ made = [n \in 1..m |-> made[n]] /\ u = last \o made
    BY <1>5, <1>7, <1>8, <1>9, <1>10
  <2>2. Behind(c, m, last, made, u)
    BY Zenon, <2>1, PutBehind
  <2> QED
    BY <2>2 DEF Behind
<1>12. DOMAIN u = 1..(c + m)
  BY <1>11
<1>13. LeftMade(c, m, P, made, blockOf')
  BY <1>4, <1>5, <1>11
<1>14. /\ \A n \in 1..m : BlockRight(K - 1, made[n]) /\ made[n].paths = {r[2] : r \in P[n]}
       /\ \A n, k \in 1..m : n # k => made[n].paths \cap made[k].paths = {}
       /\ \A n \in 1..m : P[n] \subseteq LeftPaths
       /\ \A r \in LeftPaths : \E n \in 1..m : blockOf'[r] = <<K, c + n>> /\ r \in P[n]
       /\ DOMAIN blockOf' = DOMAIN blockOf \cup LeftPaths
       /\ \A r \in DOMAIN blockOf : r \notin LeftPaths => blockOf'[r] = blockOf[r]
  BY <1>13 DEF LeftMade, PartBlocks
<1>15. \A r \in LeftPaths : r[2] \notin W(graph)[K] /\ r[2] \in W(graph)[K - 1] /\ r = <<K - 1, r[2]>> /\ K - 1 \in 1..K
  <2> TAKE r \in LeftPaths
  <2>1. PICK p \in DOMAIN unused : r = unused[p]
    BY DEF LeftPaths
  <2> QED
    BY <1>2, <2>1, LeftOver
<1>16. \A n \in 1..m : made[n].paths \cap W(graph)[K] = {}
  BY <1>14, <1>15
<1>17. \A n \in 1..c : BlockRight(K, last[n])
  BY <1>1, <1>2, <1>5, <1>9 DEF BlockInv, BlocksRight
<1>18. ASSUME NEW CONSTANT i \in 1..K, NEW CONSTANT b, BlockRight(i, b) PROVE BlockRight(i, b)'
  <2>1. \A j \in 1..(i - 1) : DOMAIN blocks'[j] = DOMAIN blocks[j]
    BY <1>2, <1>6
  <2> QED
    BY <1>1, <1>18, <2>1, BlockRightKept
<1>19. BlocksRight'
  <2>1. ASSUME NEW CONSTANT i \in 1..K, NEW CONSTANT n \in DOMAIN blocks'[i]
        PROVE  BlockRight(i, blocks[i][n])' \/ (i = K /\ LeftRight(blocks[i][n])')
    <3>1. PICK b : b = blocks'[i][n]
      OBVIOUS
    <3>2. CASE i # K
      <4>1. BlockRight(i, b)
        BY <1>1, <1>2, <1>6, <3>1, <3>2 DEF BlockInv, BlocksRight
      <4>2. BlockRight(i, b)'
        BY <1>18, <4>1
      <4> QED
        BY <3>1, <4>2 DEF BlockRight
    <3>3. CASE i = K /\ n \in 1..c
      <4>1. BlockRight(i, b)
        BY <1>6, <1>11, <1>17, <3>1, <3>3
      <4>2. BlockRight(i, b)'
        BY <1>18, <4>1
      <4> QED
        BY <3>1, <4>2 DEF BlockRight
    <3>4. CASE i = K /\ \E k \in 1..m : n = c + k
      <4>1. PICK k \in 1..m : n = c + k
        BY <3>4
      <4>2. b = made[k]
        BY <1>6, <1>11, <3>1, <3>4, <4>1
      <4>3. BlockRight(K - 1, b) /\ b.paths \cap W(graph)[K] = {} /\ b.paths # {}
        BY <1>14, <1>16, <4>2 DEF BlockRight
      <4>4. K - 1 \in 1..K
        <5>1. PICK r \in P[k] : TRUE
          BY <1>14, <4>2, <4>3
        <5>2. r \in LeftPaths
          BY <1>14, <5>1
        <5> QED
          BY <1>15, <5>2
      <4>5. PICK l : l = K - 1
        OBVIOUS
      <4>6. BlockRight(l, b)'
        BY <1>18, <4>3, <4>4, <4>5
      <4>7. LeftRight(b)'
        BY <1>1, <1>2, <4>3, <4>4, <4>5, <4>6 DEF LeftRight
      <4> QED
        BY <3>1, <3>4, <4>7 DEF LeftRight, BlockRight
    <3> QED
      BY <1>6, <1>11, <1>12, <2>1, <3>2, <3>3, <3>4
  <2>2. ASSUME NEW CONSTANT i \in 1..K, NEW n \in DOMAIN blocks'[i], NEW k \in DOMAIN blocks'[i], n # k
        PROVE  blocks'[i][n].paths \cap blocks'[i][k].paths = {}
    <3>1. \A x, y \in DOMAIN blocks[i] : x # y => blocks[i][x].paths \cap blocks[i][y].paths = {}
      BY <1>2 DEF BlockInv, BlocksRight
    <3>2. CASE i # K
      BY <1>6, <2>2, <3>1, <3>2
    <3>3. CASE i = K
      <4>1. n \in 1..(c + m) /\ k \in 1..(c + m)
        BY <1>6, <1>12, <2>2, <3>3
      <4>2. \A x \in 1..c, y \in 1..m : u[x].paths \cap u[c + y].paths = {}
        <5> TAKE x \in 1..c, y \in 1..m
        <5>1. u[x] = last[x] /\ last[x].paths \subseteq W(graph)[K]
          BY <1>11, <1>17 DEF BlockRight
        <5>2. u[c + y] = made[y] /\ made[y].paths \cap W(graph)[K] = {}
          BY <1>11, <1>16
        <5> QED
          BY <5>1, <5>2
      <4>3. CASE n \in 1..c /\ k \in 1..c
        <5>1. last[n].paths \cap last[k].paths = {}
          BY <1>5, <1>9, <2>2, <3>1, <3>3, <4>3
        <5> QED
          BY <1>6, <1>11, <3>3, <4>3, <5>1
      <4>4. CASE n \in 1..c /\ \E y \in 1..m : k = c + y
        BY <1>6, <3>3, <4>2, <4>4
      <4>5. CASE k \in 1..c /\ \E y \in 1..m : n = c + y
        BY <1>6, <3>3, <4>2, <4>5
      <4>6. CASE (\E x \in 1..m : n = c + x) /\ \E y \in 1..m : k = c + y
        <5>1. PICK x \in 1..m : n = c + x
          BY <4>6
        <5>2. PICK y \in 1..m : k = c + y
          BY <4>6
        <5>3. x # y
          BY <2>2, <5>1, <5>2
        <5>4. made[x].paths \cap made[y].paths = {}
          BY <1>14, <5>3
        <5> QED
          BY <1>6, <1>11, <3>3, <5>1, <5>2, <5>4
      <4> QED
        BY <1>11, <4>1, <4>3, <4>4, <4>5, <4>6
    <3> QED
      BY <3>2, <3>3
  <2> QED
    BY <1>1, <1>2, <2>1, <2>2 DEF BlocksRight
<1>20. BlocksFew'
  <2>1. ASSUME NEW CONSTANT i \in 1..K
        PROVE  \E e \in 0..(2 * Cardinality(Pairs)) :
                   blocks'[i] = [n \in 1..e |-> blocks'[i][n]] /\ (e > 0 <=> i <= BlocksMade')
    <3>1. i <= BlocksMade' /\ i <= BlocksMade
      BY <1>2
    <3>2. CASE i = K
      <4>1. PICK e : e = c + m
        OBVIOUS
      <4>2. e \in 0..(2 * Cardinality(Pairs)) /\ e > 0
        BY <1>7, <1>8, <4>1
      <4>3. blocks'[i] = [n \in 1..e |-> blocks'[i][n]]
        BY <1>6, <1>11, <3>2, <4>1
      <4> QED
        BY <3>1, <4>2, <4>3
    <3>3. CASE i # K
      <4>1. PICK e \in 0..Cardinality(Pairs) :
                blocks[i] = [n \in 1..e |-> blocks[i][n]] /\ (e > 0 <=> i <= BlocksMade)
        BY <1>1 DEF BlockInv, BlocksFew
      <4>2. e \in 0..(2 * Cardinality(Pairs))
        BY <1>7
      <4>3. blocks'[i] = blocks[i]
        BY <1>6, <3>3
      <4> QED
        BY <3>1, <4>1, <4>2, <4>3
    <3> QED
      BY <3>2, <3>3
  <2> QED
    BY <1>1, <1>6, <2>1 DEF BlocksFew, Pairs
<1>21. PlacesRight'
  <2>1. DOMAIN blockOf = DOMAIN path
    <3>1. \A r \in DOMAIN path : r[1] <= K
      <4>1. Made = K
        BY <1>1 DEF Made
      <4> QED
        BY <1>2, <4>1 DEF AllNumbered, PathInv, PathsThere
    <3> QED
      BY <1>2, <3>1 DEF BlockInv, PlacesRight
  <2>2. DOMAIN blockOf' = {r \in DOMAIN path' : r[1] <= BlocksMade'}
    <3>1. \A r \in LeftPaths : r \in DOMAIN blockOf
      <4> TAKE r \in LeftPaths
      <4>1. PICK l, p : l = K - 1 /\ p = r[2]
        OBVIOUS
      <4>2. l \in 1..K /\ p \in W(graph)[l] /\ r = <<l, p>>
        BY <1>15, <4>1
      <4>3. <<l, p>> \in DOMAIN path
        BY <4>2, NumberedPath
      <4> QED
        BY <2>1, <4>2, <4>3
    <3>2. DOMAIN blockOf = {r \in DOMAIN path : r[1] <= BlocksMade}
      BY DEF BlockInv, PlacesRight
    <3> QED
      BY <1>1, <1>2, <1>14, <3>1, <3>2
  <2>3. \A r \in LeftPaths : \E n \in DOMAIN blocks'[K] :
            blockOf'[r] = <<K, n>> /\ r[2] \in blocks'[K][n].paths
    <3> TAKE r \in LeftPaths
    <3>1. PICK n \in 1..m : blockOf'[r] = <<K, c + n>> /\ r \in P[n]
      BY <1>14
    <3>2. PICK k : k = c + n
      OBVIOUS
    <3>3. k \in DOMAIN u /\ u[k] = made[n]
      BY <1>11, <1>12, <3>2
    <3>4. r[2] \in made[n].paths
      BY <1>14, <3>1
    <3> QED
      BY <1>6, <3>1, <3>2, <3>3, <3>4
  <2>4. ASSUME NEW r \in DOMAIN blockOf'
        PROVE  \E i \in 1..K : \E n \in DOMAIN blocks'[i] :
                   blockOf'[r] = <<i, n>> /\ r[2] \in blocks'[i][n].paths /\ (i = r[1] \/ i = K)
    <3>1. CASE r \in LeftPaths
      <4>1. K \in 1..K
        BY <1>2
      <4> QED
        BY <2>3, <3>1, <4>1
    <3>2. CASE r \notin LeftPaths
      <4>1. r \in DOMAIN blockOf /\ blockOf'[r] = blockOf[r]
        BY <1>14, <2>4, <3>2
      <4>2. PICK i \in 1..K : \E n \in DOMAIN blocks[i] :
                blockOf[r] = <<i, n>> /\ r[2] \in blocks[i][n].paths /\ i = r[1]
        BY <1>1, <4>1 DEF BlockInv, PlacesRight
      <4>3. PICK n \in DOMAIN blocks[i] : blockOf[r] = <<i, n>> /\ r[2] \in blocks[i][n].paths /\ i = r[1]
        BY <4>2
      <4>4. n \in DOMAIN blocks'[i] /\ blocks'[i][n] = blocks[i][n]
        <5>1. CASE i # K
          BY <1>6, <4>3, <5>1
        <5>2. CASE i = K
          <6>1. n \in 1..c
            BY <1>5, <1>9, <4>3, <5>2
          <6>2. n \in DOMAIN u /\ u[n] = last[n]
            BY <1>11, <1>12, <6>1
          <6> QED
            BY <1>5, <1>6, <5>2, <6>2
        <5> QED
          BY <5>1, <5>2
      <4> QED
        BY <4>1, <4>3, <4>4
    <3> QED
      BY <3>1, <3>2
  <2>5. \A p \in DOMAIN unused' : blockOf'[unused'[p]][1] = K
    <3> TAKE p \in DOMAIN unused'
    <3>1. unused'[p] \in LeftPaths
      BY <1>1 DEF LeftPaths
    <3> QED
      BY <2>3, <3>1
  <2> QED
    BY <1>1, <2>2, <2>4, <2>5 DEF PlacesRight
<1>22. UnusedRight'
  BY <1>1, <1>2 DEF BlockInv, UnusedRight, IsLast
<1>23. EdgesThere'
  BY <1>1, <1>2 DEF BlockInv, EdgesThere
<1> QED
  BY <1>19, <1>20, <1>21, <1>22, <1>23 DEF BlockInv

-----------------------------------------------------------------------------
(* The blocks at every moment.                                             *)

\* No block is there at first.
LEMMA BlockStart == Init => BlockInv
<1>1. Init => NoBlocks /\ pc = "edges"
  BY DEF Init, NoBlocks
<1> QED
  BY <1>1, PathStart, BlocksBegin DEF Beginning

\* No step of the construction breaks what is known of the blocks.
LEMMA BlockStep == PathInv /\ PathInv' /\ BlockInv /\ [Next]_vars => BlockInv'
<1>1. PathInv' /\ NoBlocks' /\ Beginning' => BlockInv'
  BY BlocksBegin, PTL
<1> SUFFICES ASSUME PathInv, PathInv', BlockInv, [Next]_vars PROVE BlockInv'
  OBVIOUS
<1>2. CASE CollectEdges \/ Number \/ Join
  <2>1. /\ pc \in {"edges", "number", "join"}
        /\ pc' \in {"edges", "number", "join"} \/ (pc' = "blocks" /\ layer' = 1)
        /\ UNCHANGED blockVars
    <3>1. CASE CollectEdges
      BY <3>1 DEF CollectEdges
    <3>2. CASE Number
      BY <3>2 DEF Number, NextLayer
    <3>3. CASE Join
      <4>1. pc = "join" /\ pc' = (IF split = 1 THEN "number" ELSE "join") /\ UNCHANGED blockVars
        BY <3>3, Zenon DEF Join
      <4> QED
        BY <4>1
    <3> QED
      BY <1>2, <3>1, <3>2, <3>3
  <2>2. NoBlocks
    BY <2>1, BlocksNotBegun
  <2>3. NoBlocks'
    BY <2>1, <2>2 DEF NoBlocks, blockVars
  <2>4. Beginning'
    BY <2>1 DEF Beginning
  <2> QED
    BY <1>1, <2>3, <2>4
<1>3. CASE BlocksOfLayer
  <2>1. AllNumbered
    BY <1>3 DEF BlocksOfLayer, AllNumbered
  <2> QED
    BY <1>3, <2>1, BlocksOfLayerKeeps
<1>4. CASE EmptyLayer
  <2>1. AllNumbered
    BY <1>4 DEF EmptyLayer, AllNumbered
  <2> QED
    BY <1>4, <2>1, EmptyLayerKeeps
<1>5. CASE Remaining
  <2>1. AllNumbered
    <3>1. pc = "remaining"
      BY <1>5, RemainingExpanded
    <3> QED
      BY <3>1 DEF AllNumbered
  <2> QED
    BY <1>5, <2>1, RemainingKeeps
<1>6. CASE UNCHANGED vars
  <2>1. /\ graph' = graph /\ pc' = pc /\ layer' = layer /\ path' = path
        /\ blocks' = blocks /\ blockOf' = blockOf /\ unused' = unused
    BY <1>6 DEF vars, partitionVars, blockVars
  <2>2. BlocksMade' = BlocksMade /\ Waiting' = Waiting
    BY <2>1 DEF BlocksMade, Waiting
  <2>3. \A l, b : BlockRight(l, b)' <=> BlockRight(l, b)
    BY <2>1 DEF BlockRight, LabelsUpTo, LabelsOf
  <2>4. \A b : LeftRight(b)' <=> LeftRight(b)
    BY <2>1 DEF LeftRight, BlockRight, LabelsUpTo, LabelsOf
  <2>5. BlocksRight'
    BY <2>1, <2>2, <2>3, <2>4 DEF BlockInv, BlocksRight
  <2>6. BlocksFew' /\ PlacesRight'
    BY <2>1, <2>2 DEF BlockInv, BlocksFew, PlacesRight
  <2>7. UnusedRight' /\ EdgesThere'
    BY <2>1, <2>2 DEF BlockInv, UnusedRight, IsLast, EdgesThere
  <2> QED
    BY <2>5, <2>6, <2>7 DEF BlockInv
<1> QED
  BY <1>2, <1>3, <1>4, <1>5, <1>6 DEF Next, Done

(***************************************************************************)
(* At every moment each block holds pairs of one id with all their labels, *)
(* is made of blocks of shorter paths, and each path is in one block.      *)
(***************************************************************************)
THEOREM BlocksAreRight == Spec => []BlockInv
<1>1. Init => PathInv /\ BlockInv
  BY PathStart, BlockStart
<1>2. PathInv /\ PathInv' /\ BlockInv /\ [Next]_vars => BlockInv'
  BY BlockStep
<1> QED
  BY <1>1, <1>2, PathsRight, PTL DEF Spec

-----------------------------------------------------------------------------
(* What the blocks are made of.                                            *)

\* The length of the paths that b of layer l was made of, that before l if b was left over.
Home(g, l, b) == IF b.paths \subseteq W(g)[l] THEN l ELSE l - 1

\* o names the block of layer i that the path of q is in, by its id; bl are the blocks and at
\* the paths.
IsPlace(bl, at, i, q, o) == \E n \in DOMAIN bl[i] : o = <<i, n>> /\ bl[i][n].id = at[<<i, q>>].id

\* A path of length h of p goes through m after j edges, and c names the blocks of its parts.
Through(g, h, p, j, m) == <<p[1], m>> \in W(g)[j] /\ <<m, p[2]>> \in W(g)[h - j]
PartPlaces(bl, at, h, p, j, m, c) ==
    /\ c = <<c[1], c[2]>>
    /\ IsPlace(bl, at, j, <<p[1], m>>, c[1])
    /\ IsPlace(bl, at, h - j, <<m, p[2]>>, c[2])

\* C holds the blocks of the parts of every path of length h of p, and nothing else.
PartsFound(bl, at, g, h, p, C) ==
    /\ \A c \in C : \E j \in 1..(h - 1), m \in Vertex :
           Through(g, h, p, j, m) /\ PartPlaces(bl, at, h, p, j, m, c)
    /\ \A j \in 1..(h - 1), m \in Vertex :
           Through(g, h, p, j, m) => \E c \in C : PartPlaces(bl, at, h, p, j, m, c)

\* a names the block of the last shorter path of p, if there is one.
AncestorFound(bl, at, g, h, p, a) ==
    IF Earlier(g, p, h) = {} THEN a = None ELSE IsPlace(bl, at, Max(Earlier(g, p, h)), p, a)

\* b is the block of each of its pairs.
Contents(bl, at, g, h, b) ==
    \A p \in b.paths :
        /\ b.id = at[<<h, p>>].id
        /\ h = 1 => b.combinations = {} /\ \A t : t \in b.labels <=> <<p, t>> \in LW(g)[1]
        /\ AncestorFound(bl, at, g, h, p, b.ancestor)
        /\ PartsFound(bl, at, g, h, p, b.combinations)

\* Every block has the contents of each of its pairs and an id of its own in its layer, whose
\* blocks left over come last.
LayerExact(bl, at, g, l) ==
    \A n \in DOMAIN bl[l] :
        /\ bl[l][n].k = l
        /\ Contents(bl, at, g, Home(g, l, bl[l][n]), bl[l][n])
        /\ \A m \in DOMAIN bl[l] :
               /\ bl[l][m].id = bl[l][n].id => m = n
               /\ Home(g, l, bl[l][m]) < Home(g, l, bl[l][n]) => n < m
BlocksExact == \A l \in 1..BlocksMade : LayerExact(blocks, path, graph, l)

\* Contents depend on the blocks of lower layers only.
LEMMA ContentsKept ==
    ASSUME NEW h \in Nat, NEW at, NEW g \in Graphs, NEW b, NEW bl, NEW f, \A i \in 1..(h - 1) : f[i] = bl[i],
           Contents(bl, at, g, h, b)
    PROVE  Contents(f, at, g, h, b)
<1> SUFFICES ASSUME NEW p \in b.paths
             PROVE  /\ AncestorFound(f, at, g, h, p, b.ancestor)
                    /\ PartsFound(f, at, g, h, p, b.combinations)
  BY DEF Contents
<1>1. AncestorFound(bl, at, g, h, p, b.ancestor) /\ PartsFound(bl, at, g, h, p, b.combinations)
  BY DEF Contents
<1>2. \A i \in 1..(h - 1) : \A q, o : IsPlace(bl, at, i, q, o) <=> IsPlace(f, at, i, q, o)
  BY DEF IsPlace
<1>3. AncestorFound(f, at, g, h, p, b.ancestor)
  <2>1. CASE Earlier(g, p, h) = {}
    BY <1>1, <2>1 DEF AncestorFound
  <2>2. CASE Earlier(g, p, h) # {}
    <3>1. PICK S : S = Earlier(g, p, h)
      OBVIOUS
    <3>2. S \in SUBSET (1..(h - 1))
      BY <3>1 DEF Earlier
    <3>3. Max(S) \in 1..(h - 1)
      <4>1. CASE h = 0
        BY <2>2, <3>1, <3>2, <4>1
      <4>2. CASE h # 0
        <5>1. h - 1 \in Nat
          BY <4>2
        <5> QED
          BY <2>2, <3>1, <3>2, <5>1, MaxIs
      <4> QED
        BY <4>1, <4>2
    <3>4. PICK e : e = Max(S)
      OBVIOUS
    <3>5. IsPlace(bl, at, e, p, b.ancestor)
      BY <1>1, <2>2, <3>1, <3>4 DEF AncestorFound
    <3>6. IsPlace(f, at, e, p, b.ancestor)
      BY <1>2, <3>3, <3>4, <3>5
    <3> QED
      BY <2>2, <3>1, <3>4, <3>6 DEF AncestorFound
  <2> QED
    BY <2>1, <2>2
<1>4. \A j \in 1..(h - 1) : \A m, c : PartPlaces(bl, at, h, p, j, m, c) <=> PartPlaces(f, at, h, p, j, m, c)
  <2> TAKE j \in 1..(h - 1)
  <2> TAKE m, c
  <2>1. PICK i : i = h - j
    OBVIOUS
  <2>2. i \in 1..(h - 1)
    BY <2>1
  <2> QED
    BY <1>2, <2>1, <2>2 DEF PartPlaces
<1>5. PartsFound(f, at, g, h, p, b.combinations)
  BY <1>1, <1>4 DEF PartsFound
<1> QED
  BY <1>3, <1>5

\* A block of pairs of paths of length l is at home there.
LEMMA HomeIs ==
    ASSUME NEW l, NEW b, BlockRight(l, b)
    PROVE  Home(graph, l, b) = l
BY DEF BlockRight, Home

\* The block a path was put in has its id, and so has the block its id leads to.
LEMMA PlaceFound ==
    ASSUME AllNumbered, BlockInv, BlocksExact, pc # "built",
           NEW i \in 1..K, i <= BlocksMade, NEW p \in W(graph)[i]
    PROVE  /\ IsPlace(blocks, path, i, p, blockOf[<<i, p>>])
           /\ IsPlace(blocks, path, i, p, Lookup(path[<<i, p>>].id))
<1>1. i \in 1..BlocksMade
  <2>1. BlocksMade \in Nat
    BY DiameterAssumption DEF BlocksMade, AllNumbered, PathInv, Control
  <2> QED
    BY <2>1
<1>2. ASSUME NEW z \in W(graph)[i]
      PROVE  <<i, z>> \in DOMAIN blockOf /\ IsPlace(blocks, path, i, z, blockOf[<<i, z>>])
  <2>1. PICK n \in DOMAIN blocks[i] :
            blockOf[<<i, z>>] = <<i, n>> /\ z \in blocks[i][n].paths /\ BlockRight(i, blocks[i][n])
    BY PlaceIs
  <2>2. PICK b : b = blocks[i][n]
    OBVIOUS
  <2>3. Home(graph, i, b) = i
    BY <2>1, <2>2, HomeIs
  <2>4. Contents(blocks, path, graph, i, b)
    BY <1>1, <2>1, <2>2, <2>3 DEF BlocksExact, LayerExact
  <2>5. b.id = path[<<i, z>>].id
    BY <2>1, <2>2, <2>4 DEF Contents
  <2> QED
    BY <2>1, <2>2, <2>5, PlaceIs DEF IsPlace
<1>3. PICK s, q : s = path[<<i, p>>].id /\ q = CHOOSE r \in DOMAIN blockOf : path[r].id = s
  OBVIOUS
<1>4. q \in DOMAIN blockOf /\ path[q].id = s
  BY <1>2, <1>3
<1>5. q \in DOMAIN path
  BY <1>4 DEF BlockInv, PlacesRight
<1>6. Made = K /\ DOMAIN path = {r \in (1..Made) \X Pairs : r[2] \in W(graph)[r[1]]}
  BY DEF AllNumbered, PathInv, Made, PathsThere
<1>7. PICK j \in 1..K, z \in Pairs : q = <<j, z>> /\ z \in W(graph)[j]
  BY <1>5, <1>6
<1>8. j = i
  BY <1>3, <1>4, <1>7, IdsApart
<1>9. z \in W(graph)[i] /\ q = <<i, z>>
  BY <1>7, <1>8
<1>10. IsPlace(blocks, path, i, z, blockOf[q])
  BY <1>2, <1>9
<1>11. IsPlace(blocks, path, i, p, blockOf[q])
  BY <1>3, <1>4, <1>9, <1>10 DEF IsPlace
<1>12. blockOf[q] = Lookup(s)
  BY <1>3 DEF Lookup
<1> QED
  BY <1>2, <1>3, <1>11, <1>12

\* The block made of paths of length l that share an id has the contents of each of them.
LEMMA ContentsMade ==
    ASSUME AllNumbered, BlockInv, BlocksExact, pc # "built", NEW k, NEW l \in 1..K, l - 1 <= BlocksMade,
           NEW slice, NEW range \in slice, \A r \in slice : \E p \in W(graph)[l] : r = <<l, p>>,
           \A q, r \in slice : path[q].id = path[r].id
    PROVE  /\ MakeBlock(k, slice, range, blockOf).k = k
           /\ MakeBlock(k, slice, range, blockOf).id = path[range].id
           /\ Contents(blocks, path, graph, l, MakeBlock(k, slice, range, blockOf))
<1>1. PICK o \in W(graph)[l] : range = <<l, o>>
  OBVIOUS
<1>2. PICK a, segs : a = path[range].anc /\ segs = path[range].segs
  OBVIOUS
<1>3. PICK b : b = MakeBlock(k, slice, range, blockOf)
  OBVIOUS
<1>4. /\ b.k = k /\ b.id = path[range].id
      /\ b.paths = {r[2] : r \in slice}
      /\ b.combinations = {<<Lookup(s[1]), Lookup(s[2])>> : s \in segs}
      /\ b.ancestor = IF a = None THEN None ELSE blockOf[a]
      /\ b.labels = (IF ComputeLabels \/ segs = {} THEN path[range].labels ELSE {})
                        \cup InheritedLabels(b.ancestor)
  BY <1>2, <1>3 DEF MakeBlock, Lookup
<1>5. \A j \in 1..(l - 1) : j \in 1..K /\ l - j \in 1..(l - 1) /\ j <= BlocksMade
  <2>1. BlocksMade \in Int
    BY DiameterAssumption DEF BlocksMade, AllNumbered, PathInv, Control
  <2>2. K \in Nat /\ l \in Nat /\ l <= K
    BY DiameterAssumption
  <2> QED
    BY <2>1, <2>2
<1>6. SUFFICES ASSUME NEW p \in b.paths
      PROVE  /\ b.id = path[<<l, p>>].id
             /\ l = 1 => b.combinations = {} /\ \A t : t \in b.labels <=> <<p, t>> \in LW(graph)[1]
             /\ AncestorFound(blocks, path, graph, l, p, b.ancestor)
             /\ PartsFound(blocks, path, graph, l, p, b.combinations)
  BY <1>3, <1>4 DEF Contents
<1>7. PICK r \in slice : r = <<l, p>> /\ p \in W(graph)[l]
  <2>1. \A r \in slice : r = <<l, r[2]>> /\ r[2] \in W(graph)[l]
    OBVIOUS
  <2> QED
    BY <1>4, <2>1
<1>8. path[r].id = path[range].id
  OBVIOUS
<1>9. r \in DOMAIN path /\ range \in DOMAIN path /\ graph \in Graphs /\ p \in Pairs /\ r[1] = l /\ range[1] = l
  BY <1>1, <1>7, NumberedPath
<1>10. Alike(range, r)
  <2>1. Numbered = K /\ l <= K
    BY DEF AllNumbered, PathInv, Numbered
  <2>2. IdsAlike
    BY DEF AllNumbered, PathInv
  <2> QED
    BY <1>8, <1>9, <2>1, <2>2 DEF IdsAlike
<1>11. CASE l = 1
  <2>1. PICK S : S = Earlier(graph, p, l)
    OBVIOUS
  <2>2. S = {}
    BY <1>11, <2>1 DEF Earlier
  <2>3. a = None
    <3>1. PICK T : T = Earlier(graph, o, l)
      OBVIOUS
    <3>2. T = {}
      BY <1>11, <3>1 DEF Earlier
    <3> QED
      BY <1>1, <1>2, <3>1, <3>2, AncestorIs
  <2>4. segs = {}
    <3>1. ASSUME NEW s \in segs PROVE FALSE
      <4>1. \E j \in 1..(l - 1) : \E w \in FirstParts(graph, o, l, j) : s = SegmentOf(w, o, l, j)
        BY <1>1, <1>2, <3>1, SegmentsAre
      <4> QED
        BY <1>11, <4>1
    <3> QED
      BY <3>1
  <2>5. b.combinations = {} /\ b.ancestor = None
    BY <1>4, <2>3, <2>4
  <2>6. b.labels = path[range].labels
    BY <1>4, <2>4, <2>5 DEF InheritedLabels
  <2>7. path[range].labels = path[r].labels
    BY <1>9, <1>10, <1>11 DEF Alike
  <2>8. path[r].labels = LabelsOf(1, p)
    BY <1>7, <1>9, <1>11 DEF AllNumbered, PathInv, LabelsRight
  <2>9. \A t : t \in LabelsOf(1, p) <=> <<p, t>> \in LW(graph)[1]
    <3>1. PICK u \in Vertex, v \in Vertex : p = <<u, v>>
      BY <1>9 DEF Pairs
    <3>2. 1 \in 1..K
      BY DiameterAssumption
    <3> QED
      BY <1>9, <3>1, <3>2, LabelsOfIs
  <2>10. PartsFound(blocks, path, graph, l, p, b.combinations)
    BY <1>11, <2>5 DEF PartsFound
  <2>11. AncestorFound(blocks, path, graph, l, p, b.ancestor)
    BY <2>1, <2>2, <2>5 DEF AncestorFound
  <2> QED
    BY <1>4, <1>7, <1>8, <2>5, <2>6, <2>7, <2>8, <2>9, <2>10, <2>11
<1>12. CASE l # 1
  <2>1. path[r].segs = segs /\ SameAncestor(range, r)
    BY <1>2, <1>9, <1>10, <1>12 DEF Alike
  <2>2. AncestorFound(blocks, path, graph, l, p, b.ancestor)
    <3>1. PICK e, f : e = Max(Earlier(graph, p, l)) /\ f = Max(Earlier(graph, o, l))
      OBVIOUS
    <3>2. /\ path[r].anc = None <=> Earlier(graph, p, l) = {}
          /\ Earlier(graph, p, l) # {} =>
                 e \in 1..(l - 1) /\ p \in W(graph)[e] /\ path[r].anc = <<e, p>>
      BY <1>7, <3>1, AncestorIs
    <3>3. /\ a = None <=> Earlier(graph, o, l) = {}
          /\ Earlier(graph, o, l) # {} =>
                 f \in 1..(l - 1) /\ o \in W(graph)[f] /\ a = <<f, o>>
      BY <1>1, <1>2, <3>1, AncestorIs
    <3>4. a = None <=> path[r].anc = None
      BY <1>2, <2>1 DEF SameAncestor
    <3>5. CASE a = None
      BY <1>4, <3>2, <3>4, <3>5 DEF AncestorFound
    <3>6. CASE a # None
      <4>1. path[a].id = path[path[r].anc].id
        BY <1>2, <2>1, <3>6 DEF SameAncestor
      <4>2. /\ e \in 1..(l - 1) /\ p \in W(graph)[e] /\ path[r].anc = <<e, p>>
            /\ f \in 1..(l - 1) /\ o \in W(graph)[f] /\ a = <<f, o>>
        BY <3>2, <3>3, <3>4, <3>6
      <4>3. path[<<f, o>>].id = path[<<e, p>>].id
        BY <4>1, <4>2
      <4>4. e \in 1..K /\ f \in 1..K /\ f <= BlocksMade
        BY <1>5, <4>2
      <4>5. e = f
        BY <4>2, <4>3, <4>4, IdsApart
      <4>6. IsPlace(blocks, path, f, o, blockOf[<<f, o>>])
        BY <4>2, <4>4, PlaceFound
      <4>7. IsPlace(blocks, path, e, p, b.ancestor)
        BY <1>4, <3>6, <4>2, <4>3, <4>5, <4>6 DEF IsPlace
      <4> QED
        BY <3>1, <3>2, <3>4, <3>6, <4>7 DEF AncestorFound
    <3> QED
      BY <3>5, <3>6
  <2>3. \A c \in b.combinations : \E j \in 1..(l - 1), m \in Vertex :
            Through(graph, l, p, j, m) /\ PartPlaces(blocks, path, l, p, j, m, c)
    <3> TAKE c \in b.combinations
    <3>1. PICK s \in segs : c = <<Lookup(s[1]), Lookup(s[2])>>
      BY <1>4
    <3>2. PICK j \in 1..(l - 1) : \E w \in FirstParts(graph, p, l, j) : s = SegmentOf(w, p, l, j)
      BY <1>7, <2>1, <3>1, SegmentsAre
    <3>3. PICK w \in FirstParts(graph, p, l, j) : s = SegmentOf(w, p, l, j)
      BY <3>2
    <3>4. PICK i, m : i = l - j /\ m = w[2]
      OBVIOUS
    <3>5. i \in 1..(l - 1) /\ i \in 1..K /\ j \in 1..K /\ i <= BlocksMade /\ j <= BlocksMade
      BY <1>5, <3>2, <3>4
    <3>6. w \in W(graph)[j] /\ w[1] = p[1] /\ <<m, p[2]>> \in W(graph)[i]
      BY <3>4 DEF FirstParts
    <3>7. m \in Vertex /\ w = <<p[1], m>>
      <4>1. w \in Pairs
        BY <1>9, <3>5, <3>6, WalkTypes
      <4> QED
        BY <3>4, <3>6, <4>1 DEF Pairs
    <3>8. s[1] = path[<<j, <<p[1], m>>>>].id /\ s[2] = path[<<i, <<m, p[2]>>>>].id
      BY <3>3, <3>4, <3>7 DEF SegmentOf
    <3>9. IsPlace(blocks, path, j, <<p[1], m>>, c[1])
      BY <3>1, <3>5, <3>6, <3>7, <3>8, PlaceFound
    <3>10. IsPlace(blocks, path, i, <<m, p[2]>>, c[2])
      BY <3>1, <3>5, <3>6, <3>8, PlaceFound
    <3> QED
      BY <3>1, <3>4, <3>6, <3>7, <3>9, <3>10 DEF Through, PartPlaces
  <2>4. \A j \in 1..(l - 1), m \in Vertex :
            Through(graph, l, p, j, m) => \E c \in b.combinations : PartPlaces(blocks, path, l, p, j, m, c)
    <3> SUFFICES ASSUME NEW j \in 1..(l - 1), NEW m \in Vertex, Through(graph, l, p, j, m)
                 PROVE  \E c \in b.combinations : PartPlaces(blocks, path, l, p, j, m, c)
      OBVIOUS
    <3>1. PICK i, w : i = l - j /\ w = <<p[1], m>>
      OBVIOUS
    <3>2. i \in 1..K /\ j \in 1..K /\ i <= BlocksMade /\ j <= BlocksMade
      BY <1>5, <3>1
    <3>3. w \in W(graph)[j] /\ <<m, p[2]>> \in W(graph)[i] /\ w[1] = p[1] /\ w[2] = m
      BY <3>1 DEF Through
    <3>4. PICK s : s = SegmentOf(w, p, l, j)
      OBVIOUS
    <3>5. s \in segs
      <4>1. w \in FirstParts(graph, p, l, j)
        BY <3>1, <3>3 DEF FirstParts
      <4> QED
        BY <1>7, <2>1, <3>4, <4>1, SegmentsAre
    <3>6. s[1] = path[<<j, w>>].id /\ s[2] = path[<<i, <<m, p[2]>>>>].id
      BY <3>1, <3>3, <3>4 DEF SegmentOf
    <3>7. PICK c : c = <<Lookup(s[1]), Lookup(s[2])>>
      OBVIOUS
    <3>8. c \in b.combinations
      BY <1>4, <3>5, <3>7
    <3>9. IsPlace(blocks, path, j, w, c[1]) /\ IsPlace(blocks, path, i, <<m, p[2]>>, c[2])
      BY <3>2, <3>3, <3>6, <3>7, PlaceFound
    <3>10. PartPlaces(blocks, path, l, p, j, m, c)
      BY <3>1, <3>7, <3>9 DEF PartPlaces
    <3> QED
      BY <3>8, <3>10
  <2>5. PartsFound(blocks, path, graph, l, p, b.combinations)
    BY <2>3, <2>4 DEF PartsFound
  <2> QED
    BY <1>4, <1>7, <1>8, <1>12, <2>2, <2>5
<1> QED
  BY <1>11, <1>12

\* A layer stays exact if it and those below are left alone.
LEMMA LayerExactKept ==
    ASSUME NEW l \in Nat \ {0}, NEW at, NEW g \in Graphs, NEW bl, NEW f, \A i \in 1..l : f[i] = bl[i],
           LayerExact(bl, at, g, l)
    PROVE  LayerExact(f, at, g, l)
<1>1. f[l] = bl[l]
  OBVIOUS
<1>2. ASSUME NEW n \in DOMAIN bl[l]
      PROVE  Contents(f, at, g, Home(g, l, bl[l][n]), bl[l][n])
  <2>1. PICK h, b : h = Home(g, l, bl[l][n]) /\ b = bl[l][n]
    OBVIOUS
  <2>2. h \in Nat /\ h <= l
    BY <2>1 DEF Home
  <2>3. Contents(bl, at, g, h, b)
    BY <1>2, <2>1 DEF LayerExact
  <2>4. \A i \in 1..(h - 1) : f[i] = bl[i]
    BY <2>2
  <2>5. Contents(f, at, g, h, b)
    BY <2>2, <2>3, <2>4, ContentsKept
  <2> QED
    BY <2>1, <2>5
<1> QED
  BY <1>1, <1>2 DEF LayerExact

\* The n-th of m blocks of layer k has the contents of its part, and an id of its own.
PartExact(l, k, m, P, made, n) ==
    /\ made[n].k = k
    /\ Contents(blocks, path, graph, l, made[n])
    /\ \E p \in W(graph)[l] : <<l, p>> \in P[n] /\ made[n].id = path[<<l, p>>].id
    /\ \A i \in 1..m : made[i].id = made[n].id => i = n

\* The blocks made of the parts of some paths of length l, one for each id.
LEMMA PartsExact ==
    ASSUME AllNumbered, BlockInv, BlocksExact, pc # "built", NEW k, NEW l \in 1..K, l - 1 <= BlocksMade,
           NEW m \in Nat, NEW P, NEW made, PartsCut(l, k, m, P, made), NEW n \in 1..m
    PROVE  PartExact(l, k, m, P, made, n)
<1>1. ASSUME NEW i \in 1..m
      PROVE  /\ made[i].k = k
             /\ Contents(blocks, path, graph, l, made[i])
             /\ \E r \in P[i] : made[i].id = path[r].id
  <2>1. PICK range \in P[i] : made[i] = MakeBlock(k, P[i], range, blockOf)
    BY DEF PartsCut
  <2>2. PICK slice : slice = P[i]
    OBVIOUS
  <2>3. /\ \A r \in slice : \E p \in W(graph)[l] : r = <<l, p>>
        /\ \A q, r \in slice : path[q].id = path[r].id
    BY <2>2 DEF PartsCut
  <2>4. range \in slice
    BY <2>1, <2>2
  <2>5. /\ MakeBlock(k, slice, range, blockOf).k = k
        /\ MakeBlock(k, slice, range, blockOf).id = path[range].id
        /\ Contents(blocks, path, graph, l, MakeBlock(k, slice, range, blockOf))
    BY <2>3, <2>4, ContentsMade
  <2> QED
    BY <2>1, <2>2, <2>5
<1>2. \E p \in W(graph)[l] : <<l, p>> \in P[n] /\ made[n].id = path[<<l, p>>].id
  <2>1. PICK r \in P[n] : made[n].id = path[r].id
    BY <1>1
  <2>2. PICK p \in W(graph)[l] : r = <<l, p>>
    BY DEF PartsCut
  <2> QED
    BY <2>1, <2>2
<1>3. ASSUME NEW i \in 1..m, made[i].id = made[n].id PROVE i = n
  <2>1. PICK q \in P[i], r \in P[n] : path[q].id = path[r].id
    BY <1>1, <1>3
  <2> QED
    BY <2>1 DEF PartsCut
<1> QED
  BY <1>1, <1>2, <1>3 DEF PartExact

\* A layer is turned into blocks with the contents of their pairs.
LEMMA BlocksOfLayerExact ==
    ASSUME AllNumbered, BlockInv, BlocksExact, BlocksOfLayer
    PROVE  BlocksExact'
<1>1. /\ pc = "blocks" /\ layer \in 1..K /\ segments[layer] # <<>>
      /\ unused' = UnusedAfter(W(graph)[layer])
      /\ layer' = (IF layer < K THEN layer + 1 ELSE layer)
      /\ pc' = (IF layer < K THEN pc ELSE "remaining")
      /\ graph' = graph /\ path' = path
      /\ \E m \in 1..Cardinality(Pairs) : \E P, made :
             blocks' = [blocks EXCEPT ![layer] = made] /\ LayerMade(layer, m, P, made, blockOf')
  BY BlocksOfLayerIs
<1>2. PICK l : l = layer
  OBVIOUS
<1>3. PICK m \in 1..Cardinality(Pairs) : \E P, made :
          blocks' = [blocks EXCEPT ![l] = made] /\ LayerMade(l, m, P, made, blockOf')
  BY <1>1, <1>2
<1>4. PICK P, made : blocks' = [blocks EXCEPT ![l] = made] /\ LayerMade(l, m, P, made, blockOf')
  BY <1>3
<1>5. K \in Nat \ {0} /\ l \in 1..K /\ l \in Nat /\ graph \in Graphs /\ m \in Nat
  BY <1>1, <1>2, DiameterAssumption DEF AllNumbered, PathInv, Control
<1>6. BlocksMade = l - 1 /\ BlocksMade' = l
  BY <1>1, <1>2, <1>5 DEF BlocksMade
<1>7. PICK f : f = blocks'
  OBVIOUS
<1>8. f[l] = made /\ \A i \in 1..K : i # l => f[i] = blocks[i]
  BY <1>4, <1>5, <1>7 DEF BlockInv, BlocksFew
<1>9. /\ PartsCut(l, l, m, P, made) /\ DOMAIN made = 1..m
      /\ \A n \in 1..m : BlockRight(l, made[n])
  BY <1>4 DEF LayerMade, PartBlocks
<1>10. LayerExact(f, path, graph, l)
  <2>1. \A n \in 1..m : /\ made[n].k = l
                        /\ Contents(blocks, path, graph, l, made[n])
                        /\ \A i \in 1..m : made[i].id = made[n].id => i = n
    <3> TAKE n \in 1..m
    <3>1. l - 1 <= BlocksMade /\ pc # "built"
      BY <1>1, <1>5, <1>6
    <3>2. PartsCut(l, l, m, P, made)
      BY <1>9
    <3>3. PartExact(l, l, m, P, made, n)
      BY <1>5, <3>1, <3>2, PartsExact
    <3> QED
      BY <3>3 DEF PartExact
  <2>2. \A n \in 1..m : Home(graph, l, made[n]) = l
    BY <1>9, HomeIs
  <2>3. \A n \in 1..m : Contents(f, path, graph, l, made[n])
    <3>1. \A i \in 1..(l - 1) : f[i] = blocks[i]
      BY <1>5, <1>8
    <3> QED
      BY <1>5, <2>1, <3>1, ContentsKept
  <2> QED
    BY <1>5, <1>8, <1>9, <2>1, <2>2, <2>3 DEF LayerExact
<1>11. ASSUME NEW i \in 1..(l - 1) PROVE LayerExact(f, path, graph, i)
  <2>1. i \in Nat \ {0} /\ \A j \in 1..i : f[j] = blocks[j]
    BY <1>5, <1>8
  <2>2. LayerExact(blocks, path, graph, i)
    BY <1>6 DEF BlocksExact
  <2> QED
    BY <1>5, <2>1, <2>2, LayerExactKept
<1>12. \A i \in 1..l : i = l \/ i \in 1..(l - 1)
  BY <1>5
<1> QED
  BY <1>1, <1>6, <1>7, <1>10, <1>11, <1>12 DEF BlocksExact

\* So are the pairs left over, whose blocks have ids of the layer before and come last.
LEMMA RemainingExact ==
    ASSUME AllNumbered, BlockInv, BlocksExact, Remaining
    PROVE  BlocksExact'
<1>1. pc = "remaining" /\ pc' = "built" /\ graph' = graph /\ path' = path
  BY RemainingExpanded
<1>2. K \in Nat \ {0} /\ BlocksMade = K /\ BlocksMade' = K /\ graph \in Graphs
  BY <1>1, DiameterAssumption DEF BlocksMade, AllNumbered, PathInv, Control
<1>3. PICK m \in 0..Cardinality(Pairs) : \E P, made :
          blocks' = [blocks EXCEPT ![K] = @ \o made] /\ LeftMade(Len(blocks[K]), m, P, made, blockOf')
  BY RemainingIs
<1>4. PICK P, made :
          blocks' = [blocks EXCEPT ![K] = @ \o made] /\ LeftMade(Len(blocks[K]), m, P, made, blockOf')
  BY <1>3
<1>5. PICK last, u : last = blocks[K] /\ u = last \o made
  OBVIOUS
<1>6. PICK f : f = blocks'
  OBVIOUS
<1>7. f[K] = u /\ \A i \in 1..K : i # K => f[i] = blocks[i]
  BY <1>2, <1>4, <1>5, <1>6 DEF BlockInv, BlocksFew
<1>8. Cardinality(Pairs) \in Nat /\ m \in Nat
  BY PairsFinite, FS_CardinalityType
<1>9. PICK c \in 0..Cardinality(Pairs) : last = [n \in 1..c |-> last[n]]
  <2>1. K \in 1..K /\ pc # "built"
    BY <1>1, <1>2
  <2>2. PICK c \in 0..Cardinality(Pairs) : blocks[K] = [n \in 1..c |-> blocks[K][n]]
    BY <2>1 DEF BlockInv, BlocksFew
  <2> QED
    BY <1>5, <2>2
<1>10. c \in Nat /\ DOMAIN last = 1..c
  BY <1>8, <1>9
<1>11. made = [n \in 1..m |-> made[n]] /\ PartsCut(K - 1, K, m, P, made)
       /\ \A n \in 1..m : BlockRight(K - 1, made[n]) /\ made[n].paths = {r[2] : r \in P[n]} /\ P[n] \subseteq LeftPaths
  BY <1>4 DEF LeftMade, PartBlocks
<1>12. /\ u = [n \in 1..(c + m) |-> u[n]]
       /\ \A n \in 1..c : n \in 1..(c + m) /\ u[n] = last[n]
       /\ \A n \in 1..m : c + n \in 1..(c + m) /\ u[c + n] = made[n]
       /\ \A n \in 1..(c + m) : n \in 1..c \/ \E k \in 1..m : n = c + k
  <2>1. last = [n \in 1..c |-> last[n]] /\ made = [n \in 1..m |-> made[n]] /\ u = last \o made
    BY <1>5, <1>9, <1>11
  <2>2. Behind(c, m, last, made, u)
    BY Zenon, <1>8, <1>10, <2>1, PutBehind
  <2> QED
    BY <2>2 DEF Behind
<1>13. DOMAIN u = 1..(c + m)
  BY <1>12
<1>14. \A r \in LeftPaths : r[2] \notin W(graph)[K] /\ K - 1 \in 1..K
  <2> TAKE r \in LeftPaths
  <2>1. PICK p \in DOMAIN unused : r = unused[p]
    BY DEF LeftPaths
  <2> QED
    BY <1>2, <2>1, LeftOver
<1>15. ASSUME NEW n \in 1..m
       PROVE  /\ K - 1 \in 1..K /\ Home(graph, K, made[n]) = K - 1
              /\ made[n].k = K
              /\ Contents(f, path, graph, K - 1, made[n])
              /\ \E p \in W(graph)[K - 1] : made[n].id = path[<<K - 1, p>>].id
              /\ \A i \in 1..m : made[i].id = made[n].id => i = n
  <2>1. made[n].paths # {} /\ \A p \in made[n].paths : p \notin W(graph)[K]
    BY <1>11, <1>14 DEF BlockRight
  <2>2. K - 1 \in 1..K
    BY <1>11, <1>14, <2>1
  <2>3. Home(graph, K, made[n]) = K - 1
    BY <2>1 DEF Home
  <2>4. PICK l, k : l = K - 1 /\ k = K
    OBVIOUS
  <2>5. l \in 1..K /\ l - 1 <= BlocksMade /\ l \in Nat /\ pc # "built"
    BY <1>1, <1>2, <2>2, <2>4
  <2>6. PartsCut(l, k, m, P, made)
    BY <1>11, <2>4
  <2>7. /\ made[n].k = k
        /\ Contents(blocks, path, graph, l, made[n])
        /\ \E p \in W(graph)[l] : <<l, p>> \in P[n] /\ made[n].id = path[<<l, p>>].id
        /\ \A i \in 1..m : made[i].id = made[n].id => i = n
    <3>1. m \in Nat /\ l \in 1..K /\ l - 1 <= BlocksMade /\ pc # "built"
      BY <1>8, <2>5
    <3>2. PartExact(l, k, m, P, made, n)
      BY <2>6, <3>1, PartsExact
    <3> QED
      BY <3>2 DEF PartExact
  <2>8. \A i \in 1..(l - 1) : f[i] = blocks[i]
    BY <1>2, <1>7, <2>4
  <2>9. Contents(f, path, graph, l, made[n])
    BY <1>2, <2>5, <2>7, <2>8, ContentsKept
  <2> QED
    BY <2>2, <2>3, <2>4, <2>7, <2>9
<1>16. ASSUME NEW n \in 1..c
       PROVE  /\ Home(graph, K, last[n]) = K
              /\ last[n].k = K
              /\ Contents(f, path, graph, K, last[n])
              /\ \E p \in W(graph)[K] : last[n].id = path[<<K, p>>].id
              /\ \A i \in 1..c : last[i].id = last[n].id => i = n
  <2>1. BlockRight(K, last[n])
    BY <1>1, <1>2, <1>5, <1>10 DEF BlockInv, BlocksRight
  <2>2. Home(graph, K, last[n]) = K
    BY <2>1, HomeIs
  <2>3. LayerExact(blocks, path, graph, K)
    BY <1>2 DEF BlocksExact
  <2>4. /\ last[n].k = K
        /\ Contents(blocks, path, graph, K, last[n])
        /\ \A i \in 1..c : last[i].id = last[n].id => i = n
    BY <1>5, <1>10, <2>2, <2>3 DEF LayerExact
  <2>5. Contents(f, path, graph, K, last[n])
    <3>1. \A i \in 1..(K - 1) : f[i] = blocks[i]
      BY <1>2, <1>7
    <3> QED
      BY <1>2, <2>4, <3>1, ContentsKept
  <2>6. \E p \in W(graph)[K] : last[n].id = path[<<K, p>>].id
    BY <2>1, <2>4 DEF BlockRight, Contents
  <2> QED
    BY <2>2, <2>4, <2>5, <2>6
<1>17. ASSUME NEW n \in 1..c, NEW i \in 1..m, last[n].id = made[i].id PROVE FALSE
  <2>1. PICK p \in W(graph)[K] : last[n].id = path[<<K, p>>].id
    BY <1>16
  <2>2. PICK q \in W(graph)[K - 1] : made[i].id = path[<<K - 1, q>>].id
    BY <1>15
  <2>3. PICK l : l = K - 1
    OBVIOUS
  <2>4. l \in 1..K /\ K \in 1..K
    BY <1>2, <1>15, <2>3
  <2>5. q \in W(graph)[l] /\ path[<<K, p>>].id = path[<<l, q>>].id
    BY <1>17, <2>1, <2>2, <2>3
  <2>6. K = l
    BY <2>4, <2>5, IdsApart
  <2> QED
    BY <1>2, <2>3, <2>6
<1>18. ASSUME NEW n \in 1..(c + m)
       PROVE  /\ u[n].k = K
              /\ Contents(f, path, graph, Home(graph, K, u[n]), u[n])
              /\ \A i \in 1..(c + m) :
                     /\ u[i].id = u[n].id => i = n
                     /\ Home(graph, K, u[i]) < Home(graph, K, u[n]) => n < i
  <2>1. CASE n \in 1..c
    <3>1. u[n] = last[n]
      BY <1>12, <2>1
    <3>2. ASSUME NEW i \in 1..(c + m)
          PROVE  /\ u[i].id = u[n].id => i = n
                 /\ Home(graph, K, u[i]) < Home(graph, K, u[n]) => n < i
      <4>1. CASE i \in 1..c
        <5>1. u[i] = last[i]
          BY <1>12, <4>1
        <5> QED
          BY <1>2, <1>16, <2>1, <3>1, <4>1, <5>1
      <4>2. CASE \E k \in 1..m : i = c + k
        <5>1. PICK k \in 1..m : i = c + k
          BY <4>2
        <5>2. u[i] = made[k]
          BY <1>12, <5>1
        <5>3. n < i
          BY <1>8, <1>10, <2>1, <5>1
        <5> QED
          BY <1>17, <2>1, <3>1, <5>1, <5>2, <5>3
      <4> QED
        BY <1>12, <4>1, <4>2
    <3> QED
      BY <1>16, <2>1, <3>1, <3>2
  <2>2. CASE \E k \in 1..m : n = c + k
    <3>1. PICK k \in 1..m : n = c + k
      BY <2>2
    <3>2. u[n] = made[k]
      BY <1>12, <3>1
    <3>3. ASSUME NEW i \in 1..(c + m)
          PROVE  /\ u[i].id = u[n].id => i = n
                 /\ Home(graph, K, u[i]) < Home(graph, K, u[n]) => n < i
      <4>1. CASE i \in 1..c
        <5>1. u[i] = last[i]
          BY <1>12, <4>1
        <5>2. u[i].id # u[n].id
          BY <1>17, <3>1, <3>2, <4>1, <5>1
        <5>3. Home(graph, K, u[i]) = K /\ Home(graph, K, u[n]) = K - 1
          BY <1>15, <1>16, <3>2, <4>1, <5>1
        <5> QED
          BY <1>2, <5>2, <5>3
      <4>2. CASE \E j \in 1..m : i = c + j
        <5>1. PICK j \in 1..m : i = c + j
          BY <4>2
        <5>2. u[i] = made[j]
          BY <1>12, <5>1
        <5>3. Home(graph, K, u[i]) = K - 1 /\ Home(graph, K, u[n]) = K - 1
          BY <1>15, <3>2, <5>2
        <5>4. u[i].id = u[n].id => j = k
          BY <1>15, <3>2, <5>2
        <5> QED
          BY <1>2, <3>1, <5>1, <5>3, <5>4
      <4> QED
        BY <1>12, <4>1, <4>2
    <3> QED
      BY <1>15, <3>2, <3>3
  <2> QED
    BY <1>12, <2>1, <2>2
<1>19. LayerExact(f, path, graph, K)
  BY <1>7, <1>13, <1>18 DEF LayerExact
<1>20. ASSUME NEW i \in 1..K, i # K PROVE LayerExact(f, path, graph, i)
  <2>1. i \in Nat \ {0} /\ \A j \in 1..i : f[j] = blocks[j]
    BY <1>2, <1>7, <1>20
  <2>2. LayerExact(blocks, path, graph, i)
    BY <1>2 DEF BlocksExact
  <2> QED
    BY <1>2, <2>1, <2>2, LayerExactKept
<1> QED
  BY <1>1, <1>2, <1>6, <1>19, <1>20 DEF BlocksExact

\* No step of the construction breaks the contents of a block.
LEMMA ExactStep == PathInv /\ BlockInv /\ BlocksExact /\ [Next]_vars => BlocksExact'
<1> SUFFICES ASSUME PathInv, BlockInv, BlocksExact, [Next]_vars PROVE BlocksExact'
  OBVIOUS
<1>1. CASE CollectEdges \/ Number \/ Join
  <2>1. \/ pc' \in {"edges", "number", "join"}
        \/ pc' = "blocks" /\ layer' = 1
    <3>1. CASE CollectEdges
      BY <3>1 DEF CollectEdges
    <3>2. CASE Number
      BY <3>2 DEF Number, NextLayer
    <3>3. CASE Join
      <4>1. pc' = (IF split = 1 THEN "number" ELSE "join")
        BY <3>3, Zenon DEF Join
      <4> QED
        BY <4>1
    <3> QED
      BY <1>1, <3>1, <3>2, <3>3
  <2>2. BlocksMade' = 0
    BY <2>1 DEF BlocksMade
  <2> QED
    BY <2>2 DEF BlocksExact
<1>2. CASE BlocksOfLayer
  <2>1. AllNumbered
    BY <1>2 DEF BlocksOfLayer, AllNumbered
  <2> QED
    BY <1>2, <2>1, BlocksOfLayerExact
<1>3. CASE Remaining
  <2>1. AllNumbered
    <3>1. pc = "remaining"
      BY <1>3, RemainingExpanded
    <3> QED
      BY <3>1 DEF AllNumbered
  <2> QED
    BY <1>3, <2>1, RemainingExact
<1>4. CASE EmptyLayer \/ UNCHANGED vars
  <2>1. graph' = graph /\ path' = path /\ blocks' = blocks /\ BlocksMade' = BlocksMade
    <3>1. CASE EmptyLayer
      BY <3>1 DEF EmptyLayer, partitionVars, blockVars, BlocksMade
    <3>2. CASE UNCHANGED vars
      BY <3>2 DEF vars, partitionVars, blockVars, BlocksMade
    <3> QED
      BY <1>4, <3>1, <3>2
  <2> QED
    BY <2>1 DEF BlocksExact
<1> QED
  BY <1>1, <1>2, <1>3, <1>4 DEF Next, Done

(***************************************************************************)
(* At every moment each block has the id, the ancestor and the parts of    *)
(* each of its pairs, whichever of them stood for the others, and an id of *)
(* its own in its layer; the blocks left over, whose ids are those of the  *)
(* layer before, come last.                                                *)
(***************************************************************************)
THEOREM BlocksAreExact == Spec => []BlocksExact
<1>1. Init => BlocksExact
  BY DEF Init, BlocksExact, BlocksMade
<1> QED
  BY <1>1, ExactStep, PathsRight, BlocksAreRight, PTL DEF Spec

-----------------------------------------------------------------------------
(* What is built is well formed.                                           *)

\* The paths and blocks have their types.
LEMMA Typed == PathInv /\ BlockInv => TypeOK
<1> SUFFICES ASSUME PathInv, BlockInv PROVE TypeOK
  OBVIOUS
<1>1. Control /\ PathsThere /\ K \in Nat \ {0} /\ Made \in 0..K
  BY DiameterAssumption DEF PathInv, Control, Made
<1>2. DOMAIN path \subseteq Refs
  BY <1>1 DEF PathsThere, Refs, Pairs
<1>3. ASSUME NEW r \in DOMAIN path
      PROVE  /\ path[r].anc \in DOMAIN path \cup {None}
             /\ path[r].id \in 1..lastId \cup {-1}
             /\ path[r].segs \subseteq (1..lastId) \X (1..lastId)
  <2>1. \A s \in path[r].segs : s \in (1..lastId) \X (1..lastId)
    BY PartsThere
  <2>2. path[r].anc # None => path[r].anc \in DOMAIN path
    BY PartsThere
  <2>3. path[r].id \in 1..lastId \/ path[r].id = -1
    BY DEF PathInv, IdsGiven
  <2> QED
    BY <2>1, <2>2, <2>3
<1>4. ASSUME NEW l \in 1..K PROVE Members(segments[l]) \subseteq PathsOf(l)
  <2>1. SequencesRight /\ Numbered \in 0..K
    BY <1>1 DEF PathInv, Control, Numbered
  <2>2. CASE l \in 1..Numbered
    <3>1. segments[l] \in [1..Cardinality(PathsOf(l)) -> PathsOf(l)]
      BY <2>1, <2>2 DEF SequencesRight, InLine
    <3>2. PICK s, S, n : s = segments[l] /\ S = PathsOf(l) /\ n = Cardinality(PathsOf(l))
      OBVIOUS
    <3>3. s \in [1..n -> S]
      BY <3>1, <3>2
    <3>4. Members(s) \subseteq S
      BY <3>3 DEF Members
    <3> QED
      BY <3>2, <3>4
  <2>3. CASE l \notin 1..Numbered
    <3>1. l \in (Numbered + 1)..K
      BY <1>1, <2>1, <2>3
    <3>2. segments[l] = <<>>
      BY <2>1, <3>1 DEF SequencesRight
    <3> QED
      BY <3>2 DEF Members
  <2> QED
    BY <2>2, <2>3
<1>5. ASSUME NEW p, NEW a, NEW n \in 0..K, n <= Made, a # None, IsLast(n + 1, p, a) PROVE a \in DOMAIN path
  <2>0. PICK k : k = n + 1
    OBVIOUS
  <2>1. PICK m \in 1..(k - 1) : a = <<m, p>> /\ p \in W(graph)[m]
    BY <1>5, <2>0 DEF IsLast
  <2>2. m \in 1..Made /\ m \in 1..K
    BY <1>1, <1>5, <2>0, <2>1
  <2>3. p \in Pairs
    BY <1>1, <2>1, <2>2, WalkTypes DEF Control
  <2>4. PICK r : r = <<m, p>>
    OBVIOUS
  <2>5. r \in (1..Made) \X Pairs /\ r[2] \in W(graph)[r[1]]
    BY <2>1, <2>2, <2>3, <2>4
  <2> QED
    BY <1>1, <2>1, <2>4, <2>5 DEF PathsThere
<1>6. ASSUME NEW p \in DOMAIN history PROVE history[p] \in DOMAIN path
  <2>1. PICK a : a = history[p]
    OBVIOUS
  <2>2. a # None /\ IsLast(Made + 1, p, a)
    BY <2>1 DEF PathInv, HistoryRight
  <2> QED
    BY <1>1, <1>5, <2>1, <2>2
<1>7. Waiting \in 0..K /\ Waiting <= Made
  <2>1. CASE pc \in {"edges", "number", "join"}
    <3>1. BlocksMade = 0
      BY <2>1 DEF BlocksMade
    <3> QED
      BY <1>1, <3>1 DEF Waiting
  <2>2. CASE pc \notin {"edges", "number", "join"}
    <3>1. Made = K /\ BlocksMade \in 0..K
      BY <1>1, <2>2 DEF Control, Made, BlocksMade
    <3> QED
      BY <1>1, <3>1 DEF Waiting
  <2> QED
    BY <2>1, <2>2
<1>8. ASSUME NEW p \in DOMAIN unused PROVE unused[p] \in DOMAIN path
  <2>1. PICK a : a = unused[p]
    OBVIOUS
  <2>2. a # None /\ IsLast(Waiting + 1, p, a)
    BY <2>1 DEF BlockInv, UnusedRight
  <2> QED
    BY <1>5, <1>7, <2>1, <2>2
<1>9. ASSUME NEW r \in DOMAIN blockOf PROVE r \in DOMAIN path /\ blockOf[r] \in BlockRefs
  <2>1. r \in DOMAIN path
    BY <1>9 DEF BlockInv, PlacesRight
  <2>2. PICK l \in 1..K : \E n \in DOMAIN blocks[l] : blockOf[r] = <<l, n>>
    BY <1>9 DEF BlockInv, PlacesRight
  <2>3. PICK n \in DOMAIN blocks[l] : blockOf[r] = <<l, n>>
    BY <2>2
  <2>4. PICK c : c = Cardinality(Pairs)
    OBVIOUS
  <2>5. c \in Nat
    BY <2>4, PairsFinite, FS_CardinalityType
  <2>6. PICK m \in 0..(IF pc = "built" THEN 2 * c ELSE c) : blocks[l] = [i \in 1..m |-> blocks[l][i]]
    BY <2>4 DEF BlockInv, BlocksFew
  <2>7. m \in 0..(2 * c)
    BY <2>5, <2>6
  <2>8. DOMAIN blocks[l] = 1..m
    BY <2>6
  <2>9. n \in 1..(2 * c)
    BY <2>5, <2>7, <2>8
  <2>10. n \in 1..(2 * Cardinality(Vertex \X Vertex))
    BY <2>4, <2>9 DEF Pairs
  <2> QED
    BY <2>1, <2>3, <2>10 DEF BlockRefs
<1>10. graph \in Graphs /\ pc \in {"edges", "number", "join", "blocks", "remaining", "built", "failed"}
       /\ layer \in 1..K /\ split \in 0..(K - 1) /\ lastId \in Nat
  BY <1>1 DEF Control
<1>11. DOMAIN blockOf \subseteq DOMAIN path
  BY <1>9
<1> QED
  BY <1>2, <1>3, <1>4, <1>6, <1>8, <1>9, <1>10, <1>11 DEF TypeOK

\* What the last block, and any other, is built from.
LEMMA BuiltFromBelow == PathInv /\ BlockInv => BlocksBuiltFromBelow
<1> SUFFICES ASSUME PathInv, BlockInv PROVE BlocksBuiltFromBelow
  OBVIOUS
<1>1. K \in Nat \ {0} /\ Control
  BY DiameterAssumption DEF PathInv
<1>2. ASSUME pc = "built", NEW l \in 1..K
      PROVE  /\ blocks[l] # <<>>
             /\ \A n \in DOMAIN blocks[l] : \A r \in Reads(blocks[l][n]) :
                    r[1] < l /\ r[2] \in DOMAIN blocks[r[1]]
  <2>1. BlocksMade = K
    BY <1>2 DEF BlocksMade
  <2>2. PICK c : c = 2 * Cardinality(Pairs)
    OBVIOUS
  <2>3. c \in Nat
    BY <2>2, PairsFinite, FS_CardinalityType
  <2>4. PICK m \in 0..c : blocks[l] = [i \in 1..m |-> blocks[l][i]] /\ (m > 0 <=> l <= K)
    BY <1>2, <2>1, <2>2 DEF BlockInv, BlocksFew
  <2>5. DOMAIN blocks[l] = 1..m /\ m > 0
    BY <1>1, <2>4
  <2>6. 1 \in DOMAIN blocks[l]
    <3>1. m \in Nat
      BY <2>3
    <3> QED
      BY <2>5, <3>1
  <2>7. blocks[l] # <<>>
    BY <2>6
  <2>8. ASSUME NEW n \in DOMAIN blocks[l], NEW r \in Reads(blocks[l][n])
        PROVE  r[1] < l /\ r[2] \in DOMAIN blocks[r[1]]
    <3>1. BlockRight(l, blocks[l][n]) \/ (l = K /\ BlockRight(K - 1, blocks[l][n]))
      BY <1>2, <2>1 DEF BlockInv, BlocksRight, LeftRight
    <3>2. PICK b : b = blocks[l][n]
      OBVIOUS
    <3>3. PICK i \in {l, K - 1} : BlockRight(i, b) /\ i <= l
      BY <1>1, <3>1, <3>2
    <3>4. r[1] \in 1..(i - 1) /\ r[2] \in DOMAIN blocks[r[1]]
      BY <3>2, <3>3 DEF BlockRight
    <3>5. i \in Int /\ l \in Int
      BY <1>1
    <3> QED
      BY <3>3, <3>4, <3>5
  <2> QED
    BY <2>7, <2>8
<1>3. pc = "built" => ReadsBelow
  BY <1>2 DEF ReadsBelow, Reads
<1>4. pc = "remaining" => RemainingArePenultimate
  <2> SUFFICES ASSUME pc = "remaining", NEW p \in DOMAIN unused PROVE unused[p][1] = K - 1
    BY DEF RemainingArePenultimate
  <2>1. AllNumbered /\ BlocksMade = K
    BY DEF AllNumbered, BlocksMade
  <2>2. unused[p] = <<K - 1, p>>
    BY <2>1, LeftOver
  <2> QED
    BY <2>2
<1>5. pc = "failed" => graph = {}
  BY DEF BlockInv, EdgesThere
<1> QED
  BY <1>3, <1>4, <1>5 DEF BlocksBuiltFromBelow

\* Once built, every connected pair is in one block of the last layer.
LEMMA Partitioned == PathInv /\ BlockInv => BlocksPartition
<1> SUFFICES ASSUME PathInv, BlockInv, pc = "built"
             PROVE  /\ UNION {blocks[K][n].paths : n \in DOMAIN blocks[K]} = UNION {W(graph)[l] : l \in 1..K}
                    /\ \A m, n \in DOMAIN blocks[K] : m # n => blocks[K][m].paths \cap blocks[K][n].paths = {}
  BY DEF BlocksPartition, W
<1>1. K \in Nat \ {0} /\ Control /\ BlocksMade = K /\ AllNumbered /\ K \in 1..K /\ graph \in Graphs
  BY DiameterAssumption DEF PathInv, Control, BlocksMade, AllNumbered
<1>2. PICK last : last = blocks[K]
  OBVIOUS
<1>3. \A n \in DOMAIN last : BlockRight(K, last[n]) \/ LeftRight(last[n])
  BY <1>1, <1>2 DEF BlockInv, BlocksRight
<1>4. \A m, n \in DOMAIN last : m # n => last[m].paths \cap last[n].paths = {}
  BY <1>1, <1>2 DEF BlockInv, BlocksRight
<1>5. ASSUME NEW n \in DOMAIN last, NEW p \in last[n].paths PROVE \E l \in 1..K : p \in W(graph)[l]
  <2>1. CASE BlockRight(K, last[n])
    BY <1>1, <2>1 DEF BlockRight
  <2>2. CASE LeftRight(last[n])
    <3>1. BlockRight(K - 1, last[n]) /\ last[n].paths # {}
      BY <2>2 DEF LeftRight, BlockRight
    <3>2. p \notin W(graph)[K]
      BY <2>2 DEF LeftRight
    <3>3. p \in W(graph)[K - 1]
      BY <3>1 DEF BlockRight
    <3>4. K - 1 \in 1..K
      BY <1>1, <2>2 DEF LeftRight
    <3> QED
      BY <3>3, <3>4
  <2> QED
    BY <1>3, <2>1, <2>2
<1>6. ASSUME NEW l \in 1..K, NEW p \in W(graph)[l] PROVE \E n \in DOMAIN last : p \in last[n].paths
  <2>1. ASSUME NEW r \in DOMAIN blockOf, r[2] = p, blockOf[r][1] = K PROVE \E n \in DOMAIN last : p \in last[n].paths
    <3>1. PICK i \in 1..K : \E n \in DOMAIN blocks[i] : blockOf[r] = <<i, n>> /\ r[2] \in blocks[i][n].paths
      BY <2>1 DEF BlockInv, PlacesRight
    <3>2. PICK n \in DOMAIN blocks[i] : blockOf[r] = <<i, n>> /\ r[2] \in blocks[i][n].paths
      BY <3>1
    <3>3. i = K
      BY <2>1, <3>2
    <3> QED
      BY <1>2, <2>1, <3>2, <3>3
  <2>2. \A i \in 1..K : \A x \in W(graph)[i] : <<i, x>> \in DOMAIN blockOf
    <3> TAKE i \in 1..K
    <3> TAKE x \in W(graph)[i]
    <3>1. PICK r : r = <<i, x>>
      OBVIOUS
    <3>2. r \in DOMAIN path /\ r[1] <= K
      BY <1>1, <3>1, NumberedPath
    <3> QED
      BY <1>1, <3>1, <3>2 DEF BlockInv, PlacesRight
  <2>3. CASE p \in W(graph)[K]
    <3>1. PICK r : r = <<K, p>>
      OBVIOUS
    <3>2. r \in DOMAIN blockOf /\ r[1] = K /\ r[2] = p
      BY <1>1, <2>2, <2>3, <3>1
    <3>3. PICK i \in 1..K : (\E n \in DOMAIN blocks[i] : blockOf[r] = <<i, n>>) /\ (i = r[1] \/ i = K)
      BY <3>2 DEF BlockInv, PlacesRight
    <3>4. blockOf[r][1] = K
      BY <3>2, <3>3
    <3> QED
      BY <2>1, <3>2, <3>4
  <2>4. CASE p \notin W(graph)[K]
    <3>1. Waiting = K - 1 /\ l \in 1..(K - 1)
      BY <1>1, <1>6, <2>4 DEF Waiting
    <3>2. p \in Pairs
      BY <1>1, WalkTypes
    <3>3. p \in DOMAIN unused
      BY <2>4, <3>1, <3>2 DEF BlockInv, UnusedRight
    <3>4. unused[p] = <<K - 1, p>> /\ p \in W(graph)[K - 1] /\ K - 1 \in 1..K
      BY <1>1, <3>3, LeftOver
    <3>5. PICK r : r = <<K - 1, p>>
      OBVIOUS
    <3>6. r \in DOMAIN blockOf /\ r[2] = p /\ blockOf[r][1] = K
      BY <2>2, <3>3, <3>4, <3>5 DEF BlockInv, PlacesRight
    <3> QED
      BY <2>1, <3>6
  <2> QED
    BY <2>3, <2>4
<1>7. UNION {last[n].paths : n \in DOMAIN last} = UNION {W(graph)[l] : l \in 1..K}
  BY <1>5, <1>6
<1> QED
  BY <1>2, <1>4, <1>7

(***************************************************************************)
(* At every moment the types are right, what is built reads lower layers   *)
(* only, and the blocks of the last layer hold every connected pair once:  *)
(* no layer of computeBlocks loses a pair, and neither do the pairs left   *)
(* over that it puts into blocks of another layer.                         *)
(***************************************************************************)
THEOREM WellFormedAlways == Spec => []WellFormed
<1>1. PathInv /\ BlockInv => WellFormed
  BY Typed, BuiltFromBelow, Partitioned DEF WellFormed
<1> QED
  BY <1>1, PathsRight, BlocksAreRight, PTL

-----------------------------------------------------------------------------
(* The labels of the blocks.                                               *)

\* With labels kept, a block has all labels up to the diameter of each of its pairs: those
\* left over have no path of the last length, and so no labels of it.
LEMMA AllLabelled == PathInv /\ BlockInv => LabelsComplete
<1> SUFFICES ASSUME PathInv, BlockInv, pc = "built", ComputeLabels,
                    NEW n \in DOMAIN blocks[K], NEW p \in blocks[K][n].paths
             PROVE  blocks[K][n].labels = LabelsUpTo(K, p)
  BY DEF LabelsComplete, LabelsUpTo, LabelsOf, LW
<1>1. K \in Nat \ {0} /\ BlocksMade = K /\ AllNumbered /\ K \in 1..K /\ graph \in Graphs
  BY DiameterAssumption DEF PathInv, Control, BlocksMade, AllNumbered
<1>2. PICK b : b = blocks[K][n]
  OBVIOUS
<1>3. BlockRight(K, b) \/ LeftRight(b)
  BY <1>1, <1>2 DEF BlockInv, BlocksRight
<1>4. CASE BlockRight(K, b)
  BY <1>2, <1>4 DEF BlockRight
<1>5. CASE LeftRight(b)
  <2>1. PICK l : l = K - 1
    OBVIOUS
  <2>2. l \in 1..K /\ BlockRight(l, b) /\ p \notin W(graph)[K] /\ \A j \in 1..K : j = K \/ j \in 1..l
    BY <1>1, <1>2, <1>5, <2>1 DEF LeftRight
  <2>3. p \in W(graph)[l] /\ b.labels = LabelsUpTo(l, p)
    BY <1>2, <2>2 DEF BlockRight
  <2>4. LabelsOf(K, p) = {}
    <3>1. p \in Pairs
      BY <1>1, <2>2, <2>3, WalkTypes
    <3> QED
      BY <1>1, <2>2, <3>1, NoLabels
  <2>5. LabelsUpTo(K, p) = LabelsUpTo(l, p)
    <3>1. \A j \in 1..l : j \in 1..K
      BY <1>1, <2>1
    <3> QED
      BY <2>2, <2>4, <3>1 DEF LabelsUpTo
  <2> QED
    BY <1>2, <2>3, <2>5
<1> QED
  BY <1>3, <1>4, <1>5

-----------------------------------------------------------------------------
(* The relations that queries denote.                                      *)

\* The intersections of sets of G are in G if those of two are.
LEMMA MeetsStay ==
    ASSUME NEW G, \A r, s \in G : r \cap s \in G, NEW S \in SUBSET G, IsFiniteSet(S)
    PROVE  Ref!MeetClosure(S) \in SUBSET G
<1> DEFINE V == SUBSET G
           meet(r, acc) == acc \cup {r} \cup {r \cap s : s \in acc}
           step == [e \in S \X V |-> meet(e[1], e[2])]
           E(i) == i = [s \in SUBSET S |-> IF s = {} THEN {}
                                            ELSE meet(CHOOSE x \in s : TRUE, i[s \ {CHOOSE x \in s : TRUE}])]
           sum == CHOOSE i : E(i)
<1>1. \A r \in S, acc \in V : meet(r, acc) \in V
  OBVIOUS
<1>2. step \in [S \X V -> V] /\ \A x \in S, v \in V : step[<<x, v>>] = meet(x, v)
  <2> HIDE DEF meet
  <2> QED
    BY <1>1
<1>3. \A s \in SUBSET S : s # {} => (CHOOSE x \in s : TRUE) \in S
  OBVIOUS
<1>4. {} \in V
  OBVIOUS
<1> HIDE DEF step, V
<1>5. PICK it \in [SUBSET S -> V] : Folded(S, V, {}, step, it)
  BY <1>2, <1>4, FoldExists
<1>6. ASSUME NEW s \in SUBSET S
      PROVE  it[s] = IF s = {} THEN {} ELSE meet(CHOOSE x \in s : TRUE, it[s \ {CHOOSE x \in s : TRUE}])
  <2> HIDE DEF meet
  <2>1. CASE s = {}
    BY <1>5, <2>1 DEF Folded
  <2>2. CASE s # {}
    <3>1. PICK x : x = CHOOSE y \in s : TRUE
      OBVIOUS
    <3>2. x \in S /\ it[s \ {x}] \in V
      BY <1>3, <1>5, <2>2, <3>1
    <3>3. it[s] = step[<<x, it[s \ {x}]>>]
      BY <1>5, <2>2, <3>1, <3>2 DEF Folded
    <3> QED
      BY <1>2, <2>2, <3>1, <3>2, <3>3
  <2> QED
    BY <2>1, <2>2
<1>7. Ref!MeetClosure(S) = sum[S]
  BY DEF Ref!MeetClosure, Ref!FoldSet, Ref!MapThenFoldSet
<1> HIDE DEF meet
<1>8. E(it)
  BY <1>5, <1>6
<1>9. E(sum)
  <2> HIDE DEF E
  <2> QED
    BY <1>8
<1> HIDE DEF sum
<1>10. sum[{}] = {}
  <2>1. {} \in SUBSET S
    OBVIOUS
  <2> QED
    BY <1>9, <2>1
<1>11. ASSUME NEW s \in (SUBSET S) \ {{}}, NEW x, x = CHOOSE y \in s : TRUE, sum[s \ {x}] \in V
       PROVE  sum[s] = step[<<x, sum[s \ {x}]>>]
  <2>1. sum[s] = meet(x, sum[s \ {x}])
    BY <1>9, <1>11
  <2> QED
    BY <1>2, <1>3, <1>11, <2>1
<1>12. Folded(S, V, {}, step, sum)
  BY <1>10, <1>11 DEF Folded
<1>13. sum[S] \in V
  <2>1. \A s \in SUBSET S : sum[s] \in V
    BY <1>2, <1>4, <1>12, FoldStays
  <2> QED
    BY <2>1
<1> QED
  BY <1>7, <1>13 DEF V

\* The relations of the queries of each diameter, and those of diameter one.
D(g) == Ref!Definable(g, Vertex, K)
Identity == {<<v, v>> : v \in Vertex}
OfLabel(g, c) == {<<s[1], s[3]>> : s \in {s \in Ref!Steps(g) : s[2] = c}}
OfLabels(g) == {OfLabel(g, c) : c \in {s[2] : s \in Ref!Steps(g)}}

\* The relations of diameter i that are made of those of smaller ones, prev.
Concatenated(prev, i) == UNION {{Ref!Compose(r, s) : r \in prev[j], s \in prev[i - j]} : j \in 1..(i - 1)}
DefinableNext(prev) ==
    Ref!MeetClosure(prev[Len(prev) + 1 - 1] \cup Concatenated(prev, Len(prev) + 1))
DefinableFirst(g) == Ref!MeetClosure(OfLabels(g) \cup {Identity})

\* The reference definition, by these names.
LEMMA DefinableIs ==
    ASSUME NEW g
    PROVE  D(g) = (CHOOSE f : f = [i \in 1..K |-> IF i = 1 THEN <<DefinableFirst(g)>>
                                                  ELSE Append(f[i - 1], DefinableNext(f[i - 1]))])[K]
BY DEF D, DefinableFirst, DefinableNext, Concatenated, OfLabels, OfLabel, Identity, Ref!Definable, Ref!Grow

\* What relations can be made of, and made of them, are finitely many relations on the vertices.
LEMMA RelationTypes ==
    ASSUME NEW S \in SUBSET (SUBSET Pairs)
    PROVE  IsFiniteSet(S) /\ Ref!MeetClosure(S) \in SUBSET (SUBSET Pairs)
<1>1. PICK G : G = SUBSET Pairs
  OBVIOUS
<1>2. IsFiniteSet(SUBSET Pairs)
  BY PairsFinite, FS_SUBSET
<1>3. IsFiniteSet(S)
  BY <1>2, FS_Subset
<1>4. S \in SUBSET G /\ \A r, s \in G : r \cap s \in G
  BY <1>1
<1>5. Ref!MeetClosure(S) \in SUBSET G
  BY <1>3, <1>4, MeetsStay
<1> QED
  BY <1>1, <1>3, <1>5

\* The identity and what the labels denote.
LEMMA RelationsOfLabels ==
    ASSUME NEW g \in Graphs
    PROVE  /\ Identity \in SUBSET Pairs
           /\ \A c : OfLabel(g, c) \in SUBSET Pairs
           /\ OfLabels(g) \cup {Identity} \in SUBSET (SUBSET Pairs)
<1>1. \A s \in Ref!Steps(g) : <<s[1], s[3]>> \in S1(g)
  BY DEF S1, Ref!OneStep
<1>2. S1(g) \in SUBSET Pairs
  BY StepsAre
<1>3. \A c : OfLabel(g, c) \in SUBSET Pairs
  BY <1>1, <1>2 DEF OfLabel
<1>4. Identity \in SUBSET Pairs
  BY DEF Identity, Pairs
<1> QED
  BY <1>3, <1>4 DEF OfLabels

\* A concatenation of relations on the vertices is one.
LEMMA ConcatenatedTypes ==
    ASSUME NEW i \in Nat, NEW prev, \A j \in 1..(i - 1) : prev[j] \in SUBSET (SUBSET Pairs)
    PROVE  Concatenated(prev, i) \in SUBSET (SUBSET Pairs)
<1>1. ASSUME NEW j \in 1..(i - 1), NEW r \in prev[j], NEW s \in prev[i - j]
      PROVE  Ref!Compose(r, s) \in SUBSET Pairs
  <2>1. i - j \in 1..(i - 1)
    OBVIOUS
  <2>2. r \in SUBSET Pairs /\ s \in SUBSET Pairs
    BY <2>1
  <2> QED
    BY <2>2, ComposeIs
<1> QED
  BY <1>1 DEF Concatenated

\* It is made of relations of smaller diameters only.
LEMMA ConcatenatedKept ==
    ASSUME NEW n, NEW e, NEW f, \A j \in 1..(n - 1) : e[j] = f[j] /\ e[n - j] = f[n - j]
    PROVE  Concatenated(e, n) = Concatenated(f, n)
<1>1. ASSUME NEW j \in 1..(n - 1)
      PROVE  {Ref!Compose(r, s) : r \in e[j], s \in e[n - j]} = {Ref!Compose(r, s) : r \in f[j], s \in f[n - j]}
  OBVIOUS
<1> DEFINE E(j) == {Ref!Compose(r, s) : r \in e[j], s \in e[n - j]}
           F(j) == {Ref!Compose(r, s) : r \in f[j], s \in f[n - j]}
<1>2. \A j \in 1..(n - 1) : E(j) = F(j)
  BY <1>1
<1>3. Concatenated(e, n) = UNION {E(j) : j \in 1..(n - 1)} /\ Concatenated(f, n) = UNION {F(j) : j \in 1..(n - 1)}
  BY DEF Concatenated
<1> HIDE DEF E, F
<1> QED
  BY <1>2, <1>3

\* Each diameter looks at the diameters before it.
LEMMA DefinableGrows ==
    ASSUME NEW g \in Graphs
    PROVE  /\ \A i \in 1..K : D(g)[i] \in SUBSET (SUBSET Pairs)
           /\ D(g)[1] = DefinableFirst(g)
           /\ \A i \in 1..(K - 1) : D(g)[i + 1] = Ref!MeetClosure(D(g)[i] \cup Concatenated(D(g), i + 1))
<1> DEFINE T == SUBSET (SUBSET Pairs)
           Q == Begun(T, K)
           first == DefinableFirst(g)
           step == [q \in Q |-> DefinableNext(q)]
           Solves(f) == f = [i \in 1..K |-> IF i = 1 THEN <<first>> ELSE Append(f[i - 1], DefinableNext(f[i - 1]))]
           h == CHOOSE f : Solves(f)
<1>1. K \in Nat \ {0} /\ first \in T
  BY DiameterAssumption, RelationsOfLabels, RelationTypes DEF DefinableFirst
<1>2. step \in [Q -> T]
  <2>1. ASSUME NEW q \in Q PROVE DefinableNext(q) \in T
    <3>1. PICK i : i = Len(q) + 1
      OBVIOUS
    <3>2. i \in Nat /\ i - 1 \in 1..Len(q) /\ \A j \in 1..(i - 1) : j \in 1..Len(q)
      BY <3>1 DEF Begun
    <3>3. \A j \in 1..Len(q) : q[j] \in T
      BY DEF Begun
    <3>4. Concatenated(q, i) \in T
      BY <3>2, <3>3, ConcatenatedTypes
    <3>5. q[i - 1] \cup Concatenated(q, i) \in T
      BY <3>2, <3>3, <3>4
    <3> QED
      BY <3>1, <3>5, RelationTypes DEF DefinableNext
  <2> QED
    BY <2>1
<1>3. \A q \in Q : step[q] = DefinableNext(q)
  OBVIOUS
<1> HIDE DEF step, first
<1>4. PICK e : DOMAIN e = 1..K /\ Grown(K, T, first, step, e)
  BY <1>1, <1>2, GrownExists
<1>5. \A i \in 1..(K - 1) : e[i] \in Q
  BY <1>1, <1>2, <1>4, GrownIs
<1>6. PICK f : f = [i \in 1..K |-> e[i]]
  OBVIOUS
<1>7. Solves(f)
  <2>1. f[1] = <<first>>
    BY <1>1, <1>4, <1>6 DEF Grown
  <2>2. ASSUME NEW i \in 1..K, i # 1
        PROVE  f[i] = Append(f[i - 1], DefinableNext(f[i - 1]))
    <3>1. PICK j : j = i - 1
      OBVIOUS
    <3>2. j \in 1..(K - 1) /\ j + 1 = i /\ j \in 1..K
      BY <1>1, <2>2, <3>1
    <3>3. f[j] = e[j] /\ f[i] = e[i]
      BY <1>6, <3>2
    <3>4. e[j + 1] = Append(e[j], step[e[j]]) /\ e[j] \in Q
      BY <1>4, <1>5, <3>2 DEF Grown
    <3>5. step[e[j]] = DefinableNext(e[j])
      BY <1>3, <3>4
    <3> QED
      BY <3>1, <3>2, <3>3, <3>4, <3>5
  <2> QED
    BY <1>6, <2>1, <2>2
<1>8. Solves(h)
  BY <1>7
<1>9. D(g) = h[K]
  BY DefinableIs DEF first
<1> HIDE DEF h
<1>10. Grown(K, T, first, step, h)
  <2> HIDE DEF T
  <2>1. h[1] = <<first>>
    BY <1>1, <1>8
  <2>2. ASSUME NEW i \in 1..(K - 1), h[i] \in Q
        PROVE  h[i + 1] = Append(h[i], step[h[i]])
    <3>1. PICK j : j = i + 1
      OBVIOUS
    <3>2. j \in 1..K /\ j # 1 /\ j - 1 = i
      BY <1>1, <3>1
    <3>3. h[j] = Append(h[i], DefinableNext(h[i]))
      BY <1>8, <3>2
    <3> QED
      BY <1>3, <2>2, <3>1, <3>3
  <2> QED
    BY <2>1, <2>2 DEF Grown
<1>11. /\ \A i \in 1..K : h[i] \in Seq(T) /\ Len(h[i]) = i
       /\ h[K][1] = first
       /\ \A i \in 1..(K - 1) :
              /\ h[i] \in Q /\ \A j \in 1..i : h[i][j] = h[K][j]
              /\ h[K][i + 1] = step[h[i]]
  <2> HIDE DEF T
  <2> QED
    BY <1>1, <1>2, <1>10, GrownIs
<1>12. ASSUME NEW i \in 1..(K - 1)
       PROVE  D(g)[i + 1] = Ref!MeetClosure(D(g)[i] \cup Concatenated(D(g), i + 1))
  <2>1. h[i] \in Q /\ h[K][i + 1] = step[h[i]] /\ Len(h[i]) = i /\ \A j \in 1..i : h[i][j] = h[K][j]
    <3>1. i \in 1..K
      BY <1>1
    <3> QED
      BY <1>11, <3>1
  <2>2. PICK n : n = i + 1
    OBVIOUS
  <2>3. n - 1 = i /\ i \in 1..i /\ \A j \in 1..(n - 1) : j \in 1..i /\ n - j \in 1..i
    BY <1>1, <2>2
  <2>4. Concatenated(h[i], n) = Concatenated(h[K], n)
    <3>1. \A j \in 1..(n - 1) : h[i][j] = h[K][j] /\ h[i][n - j] = h[K][n - j]
      BY <2>1, <2>3
    <3> QED
      BY <3>1, ConcatenatedKept
  <2>5. D(g)[n] = DefinableNext(h[i])
    BY <1>3, <1>9, <2>1, <2>2
  <2>6. DefinableNext(h[i]) = Ref!MeetClosure(h[i][n - 1] \cup Concatenated(h[i], n))
    BY <2>1, <2>2 DEF DefinableNext
  <2> QED
    BY <1>9, <2>1, <2>2, <2>3, <2>4, <2>5, <2>6
<1>13. \A i \in 1..K : D(g)[i] \in T
  <2>1. h[K] \in Seq(T) /\ Len(h[K]) = K
    <3>1. K \in 1..K
      BY <1>1
    <3> QED
      BY <1>11, <3>1
  <2> HIDE DEF T
  <2> QED
    BY <1>9, <2>1
<1> QED
  BY <1>9, <1>11, <1>12, <1>13 DEF first

-----------------------------------------------------------------------------
(* No query tells bisimilar pairs apart.                                   *)

\* p and q are both loops or neither is, and q is bisimilar to p at each length up to i that
\* p occurs at.
Similar(g, i, p, q) ==
    /\ LoopPair(p) = LoopPair(q)
    /\ \A j \in 1..i : p \in W(g)[j] => <<q, p>> \in B(g)[j]

\* p occurs at a length up to i.
Occurs(g, i, p) == \E j \in 1..i : p \in W(g)[j]

\* With a pair R holds all those similar to it, and each of its pairs occurs or is a loop.
Uniform(g, i, R) ==
    /\ R \in SUBSET Pairs
    /\ \A p \in R : LoopPair(p) \/ Occurs(g, i, p)
    /\ \A p \in R, q \in Pairs : Similar(g, i, p, q) => q \in R

\* What is similar, or occurs, up to a larger and a smaller length.
LEMMA SimilarBelow ==
    ASSUME NEW g, NEW i \in Nat, NEW n \in Nat, i <= n, NEW p
    PROVE  /\ Occurs(g, i, p) => Occurs(g, n, p)
           /\ \A q : Similar(g, n, p, q) => Similar(g, i, p, q)
<1>1. \A j \in 1..i : j \in 1..n
  OBVIOUS
<1> QED
  BY <1>1 DEF Occurs, Similar

\* What a query of a smaller diameter does not tell apart.
LEMMA UniformAbove ==
    ASSUME NEW g, NEW i \in Nat, NEW n \in Nat, i <= n, NEW R, Uniform(g, i, R)
    PROVE  Uniform(g, n, R)
BY SimilarBelow DEF Uniform

\* A conjunction.
LEMMA UniformMeet ==
    ASSUME NEW g, NEW i, NEW R, NEW S, Uniform(g, i, R), Uniform(g, i, S)
    PROVE  Uniform(g, i, R \cap S)
BY DEF Uniform

\* The identity and the labels.
LEMMA UniformFirst ==
    ASSUME NEW g \in Graphs, NEW R \in OfLabels(g) \cup {Identity}
    PROVE  Uniform(g, 1, R)
<1>1. 1 \in 1..1 /\ \A j \in 1..1 : j = 1
  OBVIOUS
<1>2. R \in SUBSET Pairs
  BY RelationsOfLabels
<1>3. CASE R = Identity
  <2>1. \A p \in Pairs : p \in Identity <=> LoopPair(p)
    BY DEF Pairs, Identity, LoopPair
  <2> QED
    BY <1>2, <1>3, <2>1 DEF Uniform, Similar
<1>4. ASSUME NEW c, R = OfLabel(g, c) PROVE Uniform(g, 1, R)
  <2>1. \A p : p \in R <=> c \in StepLabels(g, p)
    BY <1>4 DEF OfLabel, StepLabels
  <2>2. R \subseteq W(g)[1]
    <3>1. \A s \in Ref!Steps(g) : <<s[1], s[3]>> \in S1(g)
      BY DEF S1, Ref!OneStep
    <3>2. W(g)[1] = S1(g)
      BY WalksGrow
    <3> QED
      BY <1>4, <3>1, <3>2 DEF OfLabel
  <2>3. ASSUME NEW p \in R, NEW q \in Pairs, Similar(g, 1, p, q) PROVE q \in R
    <3>1. <<q, p>> \in B(g)[1]
      BY <1>1, <2>2, <2>3 DEF Similar
    <3>2. StepLabels(g, p) = StepLabels(g, q)
      BY <3>1, BisimilarGrows DEF AlikeFirst
    <3> QED
      BY <2>1, <3>2
  <2>4. \A p \in R : Occurs(g, 1, p)
    BY <1>1, <2>2 DEF Occurs
  <2> QED
    BY <1>2, <2>3, <2>4 DEF Uniform
<1> QED
  BY <1>3, <1>4 DEF OfLabels

\* A pair that occurs does so at a last length, and what is bisimilar there is similar.
LEMMA LastOccurs ==
    ASSUME NEW g \in Graphs, NEW i \in 1..K, NEW p, Occurs(g, i, p)
    PROVE  \E a \in 1..i : p \in W(g)[a] /\ \A q : <<q, p>> \in B(g)[a] => Similar(g, i, p, q)
<1>1. PICK S : S = {j \in 1..i : p \in W(g)[j]}
  OBVIOUS
<1>2. S \in SUBSET Nat /\ S # {} /\ i \in Nat /\ \A j \in S : j <= i
  BY <1>1 DEF Occurs
<1>3. PICK a \in S : \A j \in S : j <= a
  BY <1>2, GreatestNat
<1>4. a \in 1..i /\ a \in 1..K /\ p \in W(g)[a] /\ \A j \in 1..i : p \in W(g)[j] => j \in 1..a
  BY <1>1, <1>2, <1>3, DiameterAssumption
<1>5. ASSUME NEW q, <<q, p>> \in B(g)[a] PROVE Similar(g, i, p, q)
  <2>1. LoopPair(p) = LoopPair(q) /\ \A j \in 1..a : p \in W(g)[j] => <<q, p>> \in B(g)[j]
    BY <1>4, <1>5, BisimilarBelow
  <2> QED
    BY <1>4, <2>1 DEF Similar
<1> QED
  BY <1>4, <1>5

\* A relation that holds a loop that does not occur holds all loops.
LEMMA AllLoops ==
    ASSUME NEW g, NEW i, NEW R, Uniform(g, i, R), NEW p \in R, ~Occurs(g, i, p), NEW v \in Vertex
    PROVE  LoopPair(p) /\ <<v, v>> \in R
<1>1. LoopPair(p)
  BY DEF Uniform
<1>2. PICK q : q = <<v, v>>
  OBVIOUS
<1>3. q \in Pairs /\ LoopPair(q)
  BY <1>2 DEF Pairs, LoopPair
<1>4. Similar(g, i, p, q)
  <2>1. LoopPair(p) \in BOOLEAN /\ LoopPair(q) \in BOOLEAN
    BY DEF LoopPair
  <2> QED
    BY <1>1, <1>3, <2>1 DEF Similar, Occurs
<1>5. q \in R
  BY <1>3, <1>4 DEF Uniform
<1> QED
  BY <1>1, <1>2, <1>5

\* The parts of a path of p are matched by parts of a path of q, if q is similar to p.
LEMMA SimilarParts ==
    ASSUME NEW g \in Graphs, NEW a \in 1..K, NEW b \in 1..K, a + b <= K,
           NEW u \in Vertex, NEW m \in Vertex, NEW v \in Vertex, <<u, m>> \in W(g)[a], <<m, v>> \in W(g)[b],
           NEW w \in Vertex, NEW z \in Vertex, <<<<w, z>>, <<u, v>>>> \in B(g)[a + b]
    PROVE  \E t \in Vertex : <<<<w, t>>, <<u, m>>>> \in B(g)[a] /\ <<<<t, z>>, <<m, v>>>> \in B(g)[b]
<1>1. PICK n, k, p, q, x : n = a + b /\ k = n - 1 /\ p = <<u, v>> /\ q = <<w, z>> /\ x = <<u, m>>
  OBVIOUS
<1>2. /\ k \in 1..(K - 1) /\ k + 1 = n /\ n - a = b /\ a \in 1..(n - 1)
      /\ p[1] = u /\ p[2] = v /\ q[1] = w /\ q[2] = z /\ x[1] = u /\ x[2] = m
  BY <1>1, DiameterAssumption
<1>3. Same(g, B(g), n, q, p)
  <2>1. <<q, p>> \in B(g)[k + 1]
    BY <1>1, <1>2
  <2> QED
    BY <1>2, <2>1, BisimilarGrows
<1>4. Matched(g, B(g), n, q, p)
  BY <1>3 DEF Same
<1>5. x \in FirstParts(g, p, n, a)
  BY <1>1, <1>2 DEF FirstParts
<1>6. PICK y \in FirstParts(g, q, n, a) :
          <<y, x>> \in B(g)[a] /\ <<<<y[2], q[2]>>, <<x[2], p[2]>>>> \in B(g)[n - a]
  BY <1>2, <1>4, <1>5 DEF Matched
<1>7. y \in Pairs /\ y[1] = w
  <2>1. y \in W(g)[a] /\ y[1] = q[1]
    BY <1>6 DEF FirstParts
  <2> QED
    BY <1>2, <2>1, WalkTypes
<1>8. PICK t \in Vertex : y = <<w, t>>
  BY <1>7 DEF Pairs
<1>9. y[2] = t
  BY <1>8
<1> QED
  BY <1>1, <1>2, <1>6, <1>8, <1>9

\* A concatenation.
LEMMA UniformCompose ==
    ASSUME NEW g \in Graphs, NEW i \in 1..K, NEW j \in 1..K, i + j <= K,
           NEW R, NEW S, Uniform(g, i, R), Uniform(g, j, S)
    PROVE  Uniform(g, i + j, Ref!Compose(R, S))
<1>1. PICK n, T : n = i + j /\ T = Ref!Compose(R, S)
  OBVIOUS
<1>2. n \in Nat /\ n \in 1..K /\ i \in Nat /\ j \in Nat /\ i <= n /\ j <= n
  BY <1>1, DiameterAssumption
<1>3. R \in SUBSET Pairs /\ S \in SUBSET Pairs
  BY DEF Uniform
<1>4. /\ T \in SUBSET Pairs
      /\ \A u, v \in Vertex : <<u, v>> \in T <=> \E m \in Vertex : <<u, m>> \in R /\ <<m, v>> \in S
  BY <1>1, <1>3, ComposeIs
<1>5. ASSUME NEW u \in Vertex, NEW v \in Vertex, NEW m \in Vertex, <<u, m>> \in R, <<m, v>> \in S
      PROVE  /\ LoopPair(<<u, v>>) \/ Occurs(g, n, <<u, v>>)
             /\ \A w, z \in Vertex : Similar(g, n, <<u, v>>, <<w, z>>) => <<w, z>> \in T
  <2>1. PICK p, x, y : p = <<u, v>> /\ x = <<u, m>> /\ y = <<m, v>>
    OBVIOUS
  <2>2. x \in R /\ y \in S
    BY <1>5, <2>1
  <2>3. CASE ~Occurs(g, i, x)
    <3>1. \A w \in Vertex : <<w, w>> \in R
      BY <2>2, <2>3, AllLoops
    <3>2. LoopPair(x)
      BY <2>2, <2>3 DEF Uniform
    <3>3. p = y
      BY <2>1, <3>2 DEF LoopPair
    <3>4. LoopPair(p) \/ Occurs(g, n, p)
      BY <1>2, <2>2, <3>3, SimilarBelow DEF Uniform
    <3>5. ASSUME NEW w \in Vertex, NEW z \in Vertex, Similar(g, n, p, <<w, z>>) PROVE <<w, z>> \in T
      <4>1. PICK q : q = <<w, z>>
        OBVIOUS
      <4>2. q \in Pairs
        BY <4>1 DEF Pairs
      <4>3. Similar(g, j, y, q)
        BY <1>2, <3>3, <3>5, <4>1, SimilarBelow
      <4>4. q \in S
        BY <2>2, <4>2, <4>3 DEF Uniform
      <4> QED
        BY <1>4, <3>1, <4>1, <4>4
    <3> QED
      BY <2>1, <3>4, <3>5
  <2>4. CASE ~Occurs(g, j, y)
    <3>1. \A w \in Vertex : <<w, w>> \in S
      BY <2>2, <2>4, AllLoops
    <3>2. LoopPair(y)
      BY <2>2, <2>4 DEF Uniform
    <3>3. p = x
      BY <2>1, <3>2 DEF LoopPair
    <3>4. LoopPair(p) \/ Occurs(g, n, p)
      BY <1>2, <2>2, <3>3, SimilarBelow DEF Uniform
    <3>5. ASSUME NEW w \in Vertex, NEW z \in Vertex, Similar(g, n, p, <<w, z>>) PROVE <<w, z>> \in T
      <4>1. PICK q : q = <<w, z>>
        OBVIOUS
      <4>2. q \in Pairs
        BY <4>1 DEF Pairs
      <4>3. Similar(g, i, x, q)
        BY <1>2, <3>3, <3>5, <4>1, SimilarBelow
      <4>4. q \in R
        BY <2>2, <4>2, <4>3 DEF Uniform
      <4> QED
        BY <1>4, <3>1, <4>1, <4>4
    <3> QED
      BY <2>1, <3>4, <3>5
  <2>5. CASE Occurs(g, i, x) /\ Occurs(g, j, y)
    <3>1. PICK a \in 1..i : x \in W(g)[a] /\ \A q : <<q, x>> \in B(g)[a] => Similar(g, i, x, q)
      BY <2>5, LastOccurs
    <3>2. PICK b \in 1..j : y \in W(g)[b] /\ \A q : <<q, y>> \in B(g)[b] => Similar(g, j, y, q)
      BY <2>5, LastOccurs
    <3>3. PICK k : k = a + b
      OBVIOUS
    <3>4. a \in 1..K /\ b \in 1..K /\ k \in 1..n /\ k <= K
      BY <1>1, <1>2, <3>3, DiameterAssumption
    <3>5. p \in W(g)[k]
      <4>1. <<u, v>> \in W(g)[a + b] <=> \E t \in Vertex : <<u, t>> \in W(g)[a] /\ <<t, v>> \in W(g)[b]
        BY <3>3, <3>4, WalksConcat
      <4> QED
        BY <2>1, <3>1, <3>2, <3>3, <4>1
    <3>6. Occurs(g, n, p)
      BY <3>4, <3>5 DEF Occurs
    <3>7. ASSUME NEW w \in Vertex, NEW z \in Vertex, Similar(g, n, p, <<w, z>>) PROVE <<w, z>> \in T
      <4>1. <<<<w, z>>, p>> \in B(g)[k]
        BY <3>4, <3>5, <3>7 DEF Similar
      <4>2. PICK t \in Vertex : <<<<w, t>>, <<u, m>>>> \in B(g)[a] /\ <<<<t, z>>, <<m, v>>>> \in B(g)[b]
        <5>1. a + b <= K /\ <<u, m>> \in W(g)[a] /\ <<m, v>> \in W(g)[b] /\ <<<<w, z>>, <<u, v>>>> \in B(g)[a + b]
          BY <2>1, <3>1, <3>2, <3>3, <3>4, <4>1
        <5> QED
          BY <3>4, <5>1, SimilarParts
      <4>3. Similar(g, i, x, <<w, t>>) /\ Similar(g, j, y, <<t, z>>)
        BY <2>1, <3>1, <3>2, <4>2
      <4>4. <<w, t>> \in Pairs /\ <<t, z>> \in Pairs
        BY DEF Pairs
      <4>5. <<w, t>> \in R /\ <<t, z>> \in S
        BY <2>2, <4>3, <4>4 DEF Uniform
      <4> QED
        BY <1>4, <4>5
    <3> QED
      BY <2>1, <3>6, <3>7
  <2> QED
    BY <2>3, <2>4, <2>5
<1>6. ASSUME NEW p \in T
      PROVE  /\ LoopPair(p) \/ Occurs(g, n, p)
             /\ \A q \in Pairs : Similar(g, n, p, q) => q \in T
  <2>1. PICK u \in Vertex, v \in Vertex : p = <<u, v>>
    BY <1>4 DEF Pairs
  <2>2. PICK m \in Vertex : <<u, m>> \in R /\ <<m, v>> \in S
    BY <1>4, <2>1
  <2>3. \A w, z \in Vertex : Similar(g, n, p, <<w, z>>) => <<w, z>> \in T
    BY <1>5, <2>1, <2>2
  <2>4. \A q \in Pairs : \E w, z \in Vertex : q = <<w, z>>
    BY DEF Pairs
  <2> QED
    BY <1>5, <2>1, <2>2, <2>3, <2>4
<1>7. Uniform(g, n, T)
  BY <1>4, <1>6 DEF Uniform
<1> QED
  BY <1>1, <1>7

\* A query of a diameter holds all or none of the pairs that are similar up to it.
LEMMA DefinableUniform ==
    ASSUME NEW g \in Graphs, NEW i \in 1..K, NEW R \in D(g)[i]
    PROVE  Uniform(g, i, R)
<1> DEFINE Good(n) == \A r \in D(g)[n] : Uniform(g, n, r)
           P == {k \in Nat : \A n \in 1..K : n <= k => Good(n)}
<1>1. K \in Nat \ {0} /\ 1 \in 1..K
  BY DiameterAssumption
<1>2. ASSUME NEW n \in 1..K, NEW S \in SUBSET (SUBSET Pairs), \A r \in S : Uniform(g, n, r)
      PROVE  \A r \in Ref!MeetClosure(S) : Uniform(g, n, r)
  <2>1. PICK G : G = {r \in SUBSET Pairs : Uniform(g, n, r)}
    OBVIOUS
  <2>2. \A r, s \in G : r \cap s \in G
    <3>1. \A r, s \in G : r \cap s \in SUBSET Pairs
      BY <2>1
    <3> QED
      BY <2>1, <3>1, UniformMeet
  <2>3. S \in SUBSET G
    BY <1>2, <2>1
  <2>4. IsFiniteSet(S)
    BY RelationTypes
  <2>5. Ref!MeetClosure(S) \in SUBSET G
    BY <2>2, <2>3, <2>4, MeetsStay
  <2> QED
    BY <2>1, <2>5
<1>3. Good(1)
  <2>1. PICK S, o : S = OfLabels(g) \cup {Identity} /\ o = 1
    OBVIOUS
  <2>2. S \in SUBSET (SUBSET Pairs) /\ \A r \in S : Uniform(g, o, r)
    BY <2>1, RelationsOfLabels, UniformFirst
  <2>3. \A r \in Ref!MeetClosure(S) : Uniform(g, o, r)
    BY <1>1, <1>2, <2>1, <2>2
  <2>4. D(g)[1] = Ref!MeetClosure(S)
    BY <2>1, DefinableGrows DEF DefinableFirst
  <2> QED
    BY <2>1, <2>3, <2>4
<1>4. ASSUME NEW m \in 1..(K - 1), \A n \in 1..m : Good(n) PROVE Good(m + 1)
  <2>1. PICK n : n = m + 1
    OBVIOUS
  <2>2. n \in Nat /\ m \in Nat /\ n \in 1..K /\ m \in 1..m /\ m \in 1..K /\ m <= n /\ n - 1 = m
    BY <1>1, <2>1
  <2>3. PICK S : S = D(g)[m] \cup Concatenated(D(g), n)
    OBVIOUS
  <2>4. \A j \in 1..m : D(g)[j] \in SUBSET (SUBSET Pairs)
    <3>1. \A j \in 1..m : j \in 1..K
      BY <1>1
    <3> QED
      BY <3>1, DefinableGrows
  <2>5. Concatenated(D(g), n) \in SUBSET (SUBSET Pairs)
    <3>1. \A j \in 1..(n - 1) : D(g)[j] \in SUBSET (SUBSET Pairs)
      BY <2>2, <2>4
    <3> QED
      BY <2>2, <3>1, ConcatenatedTypes
  <2>6. S \in SUBSET (SUBSET Pairs)
    BY <2>2, <2>3, <2>4, <2>5
  <2>7. ASSUME NEW r \in D(g)[m] PROVE Uniform(g, n, r)
    <3>1. Uniform(g, m, r)
      BY <1>4, <2>2, <2>7
    <3> QED
      BY <2>2, <3>1, UniformAbove
  <2>8. ASSUME NEW r \in Concatenated(D(g), n) PROVE Uniform(g, n, r)
    <3>1. PICK j \in 1..(n - 1) : r \in {Ref!Compose(x, y) : x \in D(g)[j], y \in D(g)[n - j]}
      BY DEF Concatenated
    <3>2. PICK x \in D(g)[j], y \in D(g)[n - j] : r = Ref!Compose(x, y)
      BY <3>1
    <3>3. PICK k : k = n - j
      OBVIOUS
    <3>4. j \in 1..m /\ k \in 1..m /\ j \in 1..K /\ k \in 1..K /\ j + k = n /\ j + k <= K
      BY <1>1, <2>2, <3>3
    <3>5. Uniform(g, j, x) /\ Uniform(g, k, y)
      BY <1>4, <3>2, <3>3, <3>4
    <3>6. Uniform(g, j + k, Ref!Compose(x, y))
      BY <3>4, <3>5, UniformCompose
    <3> QED
      BY <3>2, <3>4, <3>6
  <2>9. \A r \in Ref!MeetClosure(S) : Uniform(g, n, r)
    BY <1>2, <2>2, <2>3, <2>6, <2>7, <2>8
  <2>10. D(g)[n] = Ref!MeetClosure(S)
    BY <2>1, <2>3, DefinableGrows
  <2> QED
    BY <2>1, <2>9, <2>10
<1> HIDE DEF Good
<1>5. 0 \in P
  OBVIOUS
<1>6. ASSUME NEW k \in P PROVE k + 1 \in P
  <2>1. k \in Nat /\ \A n \in 1..K : n <= k => Good(n)
    OBVIOUS
  <2>2. ASSUME NEW n \in 1..K, n <= k + 1 PROVE Good(n)
    <3>1. CASE n = 1
      BY <1>3, <3>1
    <3>2. CASE n # 1
      <4>1. PICK m : m = n - 1
        OBVIOUS
      <4>2. m \in 1..(K - 1) /\ n = m + 1 /\ \A j \in 1..m : j \in 1..K /\ j <= k
        BY <1>1, <2>1, <2>2, <3>2, <4>1
      <4> QED
        BY <1>4, <2>1, <4>2
    <3> QED
      BY <3>1, <3>2
  <2> QED
    BY <2>1, <2>2
<1>7. P \in SUBSET Nat
  OBVIOUS
<1> HIDE DEF P
<1>8. P = Nat
  BY <1>5, <1>6, <1>7, NatInd
<1>9. Good(i)
  BY <1>1, <1>8 DEF P
<1> QED
  BY <1>9 DEF Good

\* The pairs of one block of the last layer are similar up to the diameter.
LEMMA BlockSimilar ==
    ASSUME PathInv, BlockInv, pc = "built", NEW n \in DOMAIN blocks[K],
           NEW p \in blocks[K][n].paths, NEW q \in blocks[K][n].paths
    PROVE  q \in Pairs /\ Similar(graph, K, p, q)
<1>1. K \in Nat \ {0} /\ BlocksMade = K /\ AllNumbered /\ K \in 1..K /\ graph \in Graphs
  BY DiameterAssumption DEF PathInv, Control, BlocksMade, AllNumbered
<1>2. PICK b : b = blocks[K][n]
  OBVIOUS
<1>3. BlockRight(K, b) \/ LeftRight(b)
  BY <1>1, <1>2 DEF BlockInv, BlocksRight
<1>4. PICK l \in 1..K : BlockRight(l, b) /\ \A j \in 1..K : j \in 1..l \/ p \notin W(graph)[j]
  <2>1. CASE BlockRight(K, b)
    BY <1>1, <2>1
  <2>2. CASE LeftRight(b)
    <3>1. PICK l : l = K - 1
      OBVIOUS
    <3>2. l \in 1..K /\ BlockRight(l, b) /\ p \notin W(graph)[K] /\ \A j \in 1..K : j = K \/ j \in 1..l
      BY <1>1, <1>2, <2>2, <3>1 DEF LeftRight
    <3> QED
      BY <3>2
  <2> QED
    BY <1>3, <2>1, <2>2
<1>5. p \in W(graph)[l] /\ q \in W(graph)[l] /\ path[<<l, q>>].id = path[<<l, p>>].id
  BY <1>2, <1>4 DEF BlockRight
<1>6. <<q, p>> \in B(graph)[l]
  BY <1>1, <1>5, AllFit DEF IdsFit
<1>7. /\ LoopPair(q) = LoopPair(p)
      /\ \A j \in 1..l : (q \in W(graph)[j] <=> p \in W(graph)[j]) /\ (q \in W(graph)[j] => <<q, p>> \in B(graph)[j])
  BY <1>1, <1>6, BisimilarBelow
<1>8. Similar(graph, K, p, q)
  BY <1>4, <1>7 DEF Similar
<1>9. q \in Pairs
  BY <1>1, <1>5, WalkTypes
<1> QED
  BY <1>8, <1>9

(***************************************************************************)
(* No CPQ of diameter at most K tells two pairs of a block of the finished *)
(* index apart, nor do the labels kept: the classes that partition numbers *)
(* from the ids of parts alone, and the blocks that computeBlocks makes of *)
(* them and of what is left over, are fine enough for every query.         *)
(***************************************************************************)
THEOREM QueriesUniform == Spec => []BlocksUniform
<1>1. PathInv /\ BlockInv => BlocksUniform
  <2> SUFFICES ASSUME PathInv, BlockInv PROVE BlocksUniform
    OBVIOUS
  <2>1. LabelsComplete
    BY AllLabelled
  <2>2. ASSUME pc = "built", NEW n \in DOMAIN blocks[K], NEW r \in D(graph)[K], NEW p \in blocks[K][n].paths, p \in r
        PROVE  blocks[K][n].paths \subseteq r
    <3>1. graph \in Graphs /\ K \in 1..K
      BY DiameterAssumption DEF PathInv, Control
    <3>2. Uniform(graph, K, r)
      BY <3>1, DefinableUniform
    <3>3. \A q \in blocks[K][n].paths : q \in Pairs /\ Similar(graph, K, p, q)
      BY <2>2, BlockSimilar
    <3> QED
      BY <2>2, <3>2, <3>3 DEF Uniform
  <2>3. pc = "built" =>
            \A n \in DOMAIN blocks[K] : \A r \in D(graph)[K] :
                blocks[K][n].paths \subseteq r \/ blocks[K][n].paths \cap r = {}
    BY <2>2
  <2> QED
    BY <2>1, <2>3 DEF BlocksUniform, D
<1> QED
  BY <1>1, PathsRight, BlocksAreRight, PTL
=============================================================================
