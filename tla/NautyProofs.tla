----------------------------- MODULE NautyProofs -----------------------------
(***************************************************************************)
(* What the refinement of nauty keeps and reaches, for every graph: the    *)
(* partition is made finer, its cells are numbered by their places, and    *)
(* when doref is done it is equitable, although of the parts of a divided  *)
(* cell one never becomes active.  And what the search tree keeps that     *)
(* rests on it, for every sequence of graphs that a thread canonises one   *)
(* after the other.                                                        *)
(***************************************************************************)
EXTENDS Nauty, DataLemmas

-----------------------------------------------------------------------------
(* Partitions.  A cell starts where the cells before it end: the number of *)
(* a cell is the number of vertices in earlier cells.                      *)

IsPartition(V, part) ==
    /\ part \in [V -> Nat]
    /\ \A x \in V : part[x] = Cardinality({y \in V : part[y] < part[x]})

\* The cells of fine are parts of those of part, in the same order.
Refines(V, fine, part) == \A x, y \in V : part[x] < part[y] => fine[x] < fine[y]

\* The vertices of a weak order, numbered by how many are before them, are a partition.
LEMMA RankPartition ==
    ASSUME NEW V, IsFiniteSet(V), NEW R, WeakOrder(V, R), NEW part, DOMAIN part = V,
           part = [x \in V |-> part[x]], \A x \in V : part[x] = RankIn(V, R, x)
    PROVE  /\ IsPartition(V, part)
           /\ \A x, y \in V : part[x] < part[y] <=> <<x, y>> \in R
<1>1. part \in [V -> Nat]
  <2>1. ASSUME NEW x \in V PROVE part[x] \in Nat
    <3>1. RankIn(V, R, x) \in Nat
      BY RanksOrder
    <3> QED
      BY <3>1
  <2> QED
    BY <2>1
<1>2. ASSUME NEW x \in V, NEW y \in V PROVE part[x] < part[y] <=> <<x, y>> \in R
  <2>1. part[x] = RankIn(V, R, x) /\ part[y] = RankIn(V, R, y)
    OBVIOUS
  <2> QED
    BY <2>1, RanksOrder
<1>3. ASSUME NEW x \in V PROVE part[x] = Cardinality({y \in V : part[y] < part[x]})
  <2>1. {y \in V : part[y] < part[x]} = {y \in V : <<y, x>> \in R}
    BY <1>2
  <2> QED
    BY <2>1 DEF RankIn
<1> QED
  BY <1>1, <1>2, <1>3 DEF IsPartition

\* A cell and the vertices before it are before any later cell.
LEMMA CellsApart ==
    ASSUME NEW V, IsFiniteSet(V), NEW part, IsPartition(V, part)
    PROVE  /\ DOMAIN part = V
           /\ \A c : CellAt(part, c) \subseteq V /\ IsFiniteSet(CellAt(part, c)) /\ CellSize(part, c) \in Nat
           /\ \A x \in V : part[x] \in Nat /\ x \in CellAt(part, part[x]) /\ CellSize(part, part[x]) > 0
           /\ \A x, y \in V : part[x] < part[y] => part[x] + CellSize(part, part[x]) <= part[y]
<1>1. DOMAIN part = V /\ \A x \in V : part[x] \in Nat
  BY DEF IsPartition
<1>2. ASSUME NEW c
      PROVE  CellAt(part, c) \in SUBSET V /\ IsFiniteSet(CellAt(part, c)) /\ CellSize(part, c) \in Nat
  <2>1. CellAt(part, c) \in SUBSET V
    BY <1>1 DEF CellAt
  <2> QED
    BY <2>1, FS_Subset, FS_CardinalityType DEF CellSize
<1>3. ASSUME NEW x \in V PROVE x \in CellAt(part, part[x]) /\ CellSize(part, part[x]) > 0
  <2>1. x \in CellAt(part, part[x])
    BY <1>1 DEF CellAt
  <2> QED
    BY <1>2, <2>1, FS_EmptySet DEF CellSize
<1>4. ASSUME NEW x \in V, NEW y \in V, part[x] < part[y]
      PROVE  part[x] + CellSize(part, part[x]) <= part[y]
  <2> DEFINE B == {z \in V : part[z] < part[x]}
             C == CellAt(part, part[x])
             D == {z \in V : part[z] < part[y]}
  <2>1. B \in SUBSET V /\ D \in SUBSET V /\ B \cup C \in SUBSET D /\ B \cap C = {}
    BY <1>1, <1>4 DEF CellAt
  <2>2. part[x] = Cardinality(B) /\ part[y] = Cardinality(D) /\ CellSize(part, part[x]) = Cardinality(C)
    BY DEF IsPartition, CellSize
  <2>3. IsFiniteSet(C)
    BY <1>2
  <2> HIDE DEF B, C, D
  <2>4. IsFiniteSet(B) /\ IsFiniteSet(D)
    BY <2>1, FS_Subset
  <2>5. Cardinality(B \cup C) = Cardinality(B) + Cardinality(C)
    BY <2>1, <2>3, <2>4, DisjointUnion
  <2>6. Cardinality(B \cup C) <= Cardinality(D)
    BY <2>1, <2>4, FS_Subset
  <2> QED
    BY <2>2, <2>5, <2>6
<1> QED
  BY <1>1, <1>2, <1>3, <1>4

\* The first part of a divided cell starts where the cell did.
LEMMA FirstPart ==
    ASSUME NEW V, IsFiniteSet(V), NEW part, IsPartition(V, part), NEW fine, IsPartition(V, fine),
           Refines(V, fine, part), NEW x \in V
    PROVE  \E w \in V : part[w] = part[x] /\ fine[w] = part[x]
<1>1. /\ \A y \in V : part[y] \in Nat /\ fine[y] \in Nat
      /\ DOMAIN part = V /\ DOMAIN fine = V
  BY DEF IsPartition
<1> DEFINE S == {fine[y] : y \in CellAt(part, part[x])}
<1>2. S \in SUBSET Nat /\ S # {}
  BY <1>1 DEF CellAt
<1>3. PICK s \in S : \A t \in S : s <= t
  BY <1>2, LeastNat
<1>4. PICK w \in CellAt(part, part[x]) : s = fine[w]
  BY <1>3
<1>5. w \in V /\ part[w] = part[x] /\ \A y \in V : part[y] = part[x] => fine[w] <= fine[y]
  BY <1>1, <1>3, <1>4 DEF CellAt
<1>6. {y \in V : fine[y] < fine[w]} = {y \in V : part[y] < part[w]}
  BY <1>1, <1>5 DEF Refines
<1>7. fine[w] = part[w]
  BY <1>5, <1>6 DEF IsPartition
<1> QED
  BY <1>5, <1>7

\* Cells of a finer partition lie within the old ones and none of the old numbers is lost; a
\* new cell that has the number of an old cell is a part of it.
LEMMA FinerCells ==
    ASSUME NEW V, IsFiniteSet(V), NEW part, IsPartition(V, part), NEW fine, IsPartition(V, fine),
           Refines(V, fine, part)
    PROVE  /\ \A x, y \in V : fine[x] = fine[y] => part[x] = part[y]
           /\ CellStarts(part) \subseteq CellStarts(fine)
           /\ \A x \in V : fine[x] \in CellStarts(part) => part[x] = fine[x]
<1>1. /\ \A y \in V : part[y] \in Nat /\ fine[y] \in Nat
      /\ DOMAIN part = V /\ DOMAIN fine = V
  BY DEF IsPartition
<1>2. \A x, y \in V : fine[x] = fine[y] => part[x] = part[y]
  BY <1>1 DEF Refines
<1>3. CellStarts(part) \subseteq CellStarts(fine)
  BY <1>1, FirstPart DEF CellStarts
<1>4. ASSUME NEW x \in V, fine[x] \in CellStarts(part) PROVE part[x] = fine[x]
  <2>1. PICK y \in V : fine[x] = part[y]
    BY <1>1, <1>4 DEF CellStarts
  <2>2. PICK w \in V : part[w] = part[y] /\ fine[w] = part[y]
    BY FirstPart
  <2> QED
    BY <1>2, <2>1, <2>2
<1> QED
  BY <1>2, <1>3, <1>4

(***************************************************************************)
(* The cells of a set C are divided by val.                                *)
(***************************************************************************)
LEMMA DividedCells ==
    ASSUME NEW V, IsFiniteSet(V), NEW part, IsPartition(V, part), NEW val, \A x \in V : val[x] \in Int,
           NEW C, NEW fine,
           fine = [x \in V |-> IF part[x] \in C THEN Fragment(part, val, x) ELSE part[x]]
    PROVE  /\ IsPartition(V, fine)
           /\ Refines(V, fine, part)
           /\ \A x, y \in V : fine[x] = fine[y] => part[x] = part[y] /\ (part[x] \in C => val[x] = val[y])
           /\ \A x \in V : part[x] \notin C => fine[x] = part[x]
<1> DEFINE Before(x, y) == part[x] < part[y] \/ (part[x] = part[y] /\ part[x] \in C /\ val[x] < val[y])
           R == {p \in V \X V : Before(p[1], p[2])}
<1>1. DOMAIN part = V /\ \A x \in V : part[x] \in Nat
  BY DEF IsPartition
<1>2. \A x, y \in V : <<x, y>> \in R <=>
          part[x] < part[y] \/ (part[x] = part[y] /\ part[x] \in C /\ val[x] < val[y])
  <2> HIDE DEF Before
  <2>1. \A x, y \in V : <<x, y>> \in R <=> Before(x, y)
    OBVIOUS
  <2> QED
    BY <2>1 DEF Before
<1> HIDE DEF R
<1>3. WeakOrder(V, R)
  <2>1. \A x \in V : <<x, x>> \notin R
    BY <1>1, <1>2
  <2>2. \A x, y, z \in V : <<x, y>> \in R /\ <<y, z>> \in R => <<x, z>> \in R
    BY <1>1, <1>2
  <2>3. \A x, y, z \in V : <<x, z>> \in R => <<x, y>> \in R \/ <<y, z>> \in R
    BY <1>1, <1>2
  <2> QED
    BY <2>1, <2>2, <2>3 DEF WeakOrder
<1>4. ASSUME NEW x \in V PROVE fine[x] = RankIn(V, R, x)
  <2> DEFINE B == {y \in V : part[y] < part[x]}
             D == {y \in CellAt(part, part[x]) : val[y] < val[x]}
  <2>1. part[x] = Cardinality(B)
    BY DEF IsPartition
  <2>2. CASE part[x] \in C
    <3>1. {y \in V : <<y, x>> \in R} = B \cup D
      BY <1>1, <1>2, <2>2 DEF CellAt
    <3>2. B \in SUBSET V /\ D \in SUBSET V /\ B \cap D = {}
      BY <1>1 DEF CellAt
    <3>3. Cardinality(B \cup D) = Cardinality(B) + Cardinality(D)
      <4> HIDE DEF B, D
      <4> QED
        BY <3>2, FS_Subset, DisjointUnion
    <3>4. fine[x] = part[x] + Cardinality(D)
      BY <2>2 DEF Fragment
    <3> QED
      BY <2>1, <3>1, <3>3, <3>4 DEF RankIn
  <2>3. CASE part[x] \notin C
    <3>1. {y \in V : <<y, x>> \in R} = B
      BY <1>1, <1>2, <2>3
    <3> QED
      BY <2>1, <2>3, <3>1 DEF RankIn
  <2> QED
    BY <2>2, <2>3
<1>5. DOMAIN fine = V /\ fine = [x \in V |-> fine[x]]
  OBVIOUS
<1>6. IsPartition(V, fine) /\ \A x, y \in V : fine[x] < fine[y] <=> <<x, y>> \in R
  BY <1>3, <1>4, <1>5, RankPartition
<1>7. \A x \in V : fine[x] \in Nat
  BY <1>6 DEF IsPartition
<1>8. Refines(V, fine, part)
  BY <1>2, <1>6 DEF Refines
<1>9. ASSUME NEW x \in V, NEW y \in V, fine[x] = fine[y]
      PROVE  part[x] = part[y] /\ (part[x] \in C => val[x] = val[y])
  <2>1. <<x, y>> \notin R /\ <<y, x>> \notin R
    BY <1>6, <1>7, <1>9
  <2> QED
    BY <1>1, <1>2, <2>1
<1>10. \A x \in V : part[x] \notin C => fine[x] = part[x]
  OBVIOUS
<1> QED
  BY <1>6, <1>8, <1>9, <1>10

\* A part of a cell that is not the first is a new cell.
LEMMA NewParts ==
    ASSUME NEW V, IsFiniteSet(V), NEW part, IsPartition(V, part), NEW fine, IsPartition(V, fine),
           Refines(V, fine, part), NEW x \in V, fine[x] # part[x]
    PROVE  fine[x] \in CellStarts(fine) \ CellStarts(part)
<1>1. DOMAIN fine = V
  BY DEF IsPartition
<1>2. fine[x] \in CellStarts(fine)
  BY <1>1 DEF CellStarts
<1> QED
  BY <1>2, FinerCells

-----------------------------------------------------------------------------
(* Equitable partitions.                                                   *)

\* How many vertices of a set C a vertex x is joined from, and that it is for x and y alike.
Sources(G, C, x) == Cardinality({z \in C : x \in G.adj[z]})
Alike(G, C, x, y) == Sources(G, C, x) = Sources(G, C, y)

\* The vertices of each cell are joined alike from each cell.
IsEquitable(G, part) ==
    \A c \in CellStarts(part) : \A x, y \in Vertices(G) :
        part[x] = part[y] => Alike(G, CellAt(part, c), x, y)

(***************************************************************************)
(* What refine_sg relies on when it leaves a part of a cell out: vertices  *)
(* of a cell that the cells of Q and a set X do not tell apart are told    *)
(* apart by no cell.                                                       *)
(***************************************************************************)
Determined(G, part, Q, X) ==
    \A x, y \in Vertices(G) :
        /\ part[x] = part[y]
        /\ \A q \in Q : Alike(G, CellAt(part, q), x, y)
        /\ Alike(G, X, x, y)
        => \A c \in CellStarts(part) : Alike(G, CellAt(part, c), x, y)

\* Sources of a finite set are a number,
LEMMA SourcesType ==
    ASSUME NEW G, NEW A, IsFiniteSet(A), NEW x
    PROVE  Sources(G, A, x) \in Nat
<1>1. {z \in A : x \in G.adj[z]} \in SUBSET A
  OBVIOUS
<1> QED
  BY <1>1, FS_Subset, FS_CardinalityType DEF Sources

\* and those of disjoint sets add up.
LEMMA SourcesAdd ==
    ASSUME NEW G, NEW A, IsFiniteSet(A), NEW B, IsFiniteSet(B), A \cap B = {}, NEW x
    PROVE  Sources(G, A \cup B, x) = Sources(G, A, x) + Sources(G, B, x)
<1> DEFINE S(C) == {z \in C : x \in G.adj[z]}
<1>1. S(A) \in SUBSET A /\ S(B) \in SUBSET B /\ S(A) \cap S(B) = {} /\ S(A \cup B) = S(A) \cup S(B)
  OBVIOUS
<1> HIDE DEF S
<1>2. Cardinality(S(A) \cup S(B)) = Cardinality(S(A)) + Cardinality(S(B))
  BY <1>1, FS_Subset, DisjointUnion
<1> QED
  BY <1>1, <1>2 DEF S, Sources

\* Two disjoint sets and their union: alike for two of them is alike for the third.
LEMMA AlikeUnion ==
    ASSUME NEW G, NEW A, IsFiniteSet(A), NEW B, IsFiniteSet(B), A \cap B = {}, NEW x, NEW y, Alike(G, A, x, y)
    PROVE  Alike(G, B, x, y) <=> Alike(G, A \cup B, x, y)
<1>1. /\ Sources(G, A, x) \in Nat /\ Sources(G, B, x) \in Nat
      /\ Sources(G, A, y) \in Nat /\ Sources(G, B, y) \in Nat
  BY SourcesType
<1>2. ASSUME NEW u PROVE Sources(G, A \cup B, u) = Sources(G, A, u) + Sources(G, B, u)
  BY SourcesAdd
<1>3. Sources(G, A, x) = Sources(G, A, y)
  BY DEF Alike
<1>4. Sources(G, B, x) = Sources(G, B, y) <=> Sources(G, A \cup B, x) = Sources(G, A \cup B, y)
  BY <1>1, <1>2, <1>3
<1> QED
  BY <1>4 DEF Alike

\* The vertices in the cells of F.
InCells(part, F) == {z \in DOMAIN part : part[z] \in F}

\* Vertices that some cells do not tell apart are not told apart by their union.
LEMMA UnionAlike ==
    ASSUME NEW G, NEW part, IsFiniteSet(DOMAIN part), NEW x, NEW y,
           NEW F \in SUBSET CellStarts(part), \A c \in F : Alike(G, CellAt(part, c), x, y)
    PROVE  Alike(G, InCells(part, F), x, y)
<1> DEFINE Bad == {E \in SUBSET F : ~Alike(G, InCells(part, E), x, y)}
           Sizes == {Cardinality(E) : E \in Bad}
<1>1. IsFiniteSet(F)
  <2>1. CellStarts(part) = {part[z] : z \in DOMAIN part}
    BY DEF CellStarts
  <2>2. IsFiniteSet(CellStarts(part))
    BY <2>1, ImageFinite
  <2> QED
    BY <2>2, FS_Subset
<1>2. \A E \in SUBSET F : IsFiniteSet(E) /\ Cardinality(E) \in Nat
  BY <1>1, FS_Subset, FS_CardinalityType
<1> SUFFICES ASSUME Bad # {} PROVE FALSE
  OBVIOUS
<1>3. Sizes \in SUBSET Nat /\ Sizes # {}
  BY <1>2
<1> HIDE DEF Sizes
<1>4. PICK k \in Sizes : \A l \in Sizes : k <= l
  BY <1>3, LeastNat
<1>5. PICK E \in Bad : k = Cardinality(E)
  BY <1>4 DEF Sizes
<1>6. E \in SUBSET F /\ ~Alike(G, InCells(part, E), x, y)
  OBVIOUS
<1>7. \A D \in Bad : k <= Cardinality(D)
  BY <1>4 DEF Sizes
<1> HIDE DEF Bad
<1>8. E # {}
  <2> SUFFICES ASSUME E = {} PROVE FALSE
    OBVIOUS
  <2>1. InCells(part, E) = {}
    BY DEF InCells
  <2>2. {z \in InCells(part, E) : x \in G.adj[z]} = {} /\ {z \in InCells(part, E) : y \in G.adj[z]} = {}
    BY <2>1
  <2> QED
    BY <1>6, <2>2 DEF Alike, Sources
<1>9. PICK c \in E : TRUE
  BY <1>8
<1>10. Cardinality(E \ {c}) < k /\ Cardinality(E \ {c}) \in Nat /\ k \in Nat
  BY <1>2, <1>5, <1>6, FS_RemoveElement, FS_CardinalityType
<1> DEFINE A == InCells(part, E \ {c})
           B == CellAt(part, c)
<1>11. Alike(G, A, x, y)
  <2>1. E \ {c} \notin Bad
    BY <1>7, <1>10
  <2> QED
    BY <1>6, <2>1 DEF Bad
<1>12. InCells(part, E) = A \cup B /\ A \cap B = {} /\ A \in SUBSET DOMAIN part /\ B \in SUBSET DOMAIN part
  BY DEF CellAt, InCells
<1>13. Alike(G, B, x, y)
  BY <1>6
<1> HIDE DEF A, B
<1>14. IsFiniteSet(A) /\ IsFiniteSet(B)
  BY <1>12, FS_Subset
<1>15. Alike(G, A \cup B, x, y)
  BY <1>11, <1>12, <1>13, <1>14, AlikeUnion
<1> QED
  BY <1>6, <1>12, <1>15

\* The numbers in fine of the parts of cell c.
PartsOf(part, fine, c) == {fine[z] : z \in CellAt(part, c)}

\* The parts of every cell are in R, but for one if the cell is not in Q.
AllButOne(part, fine, Q, R) ==
    \A c \in CellStarts(part) :
        \/ PartsOf(part, fine, c) \subseteq R
        \/ c \notin Q /\ \E o \in PartsOf(part, fine, c) : PartsOf(part, fine, c) \ {o} \subseteq R

(***************************************************************************)
(* R still tells apart what any cell tells apart: what is left of a cell   *)
(* when all parts but one are taken away is the last part.                 *)
(***************************************************************************)
LEMMA AllPartsButOne ==
    ASSUME NEW G, IsFiniteSet(Vertices(G)),
           NEW part, IsPartition(Vertices(G), part), NEW fine, IsPartition(Vertices(G), fine),
           Refines(Vertices(G), fine, part), NEW Q, NEW R, NEW X, Determined(G, part, Q, X),
           AllButOne(part, fine, Q, R)
    PROVE  Determined(G, fine, R, X)
<1> DEFINE V == Vertices(G)
           parts(c) == PartsOf(part, fine, c)
<1>1. DOMAIN part = V /\ DOMAIN fine = V
  BY DEF IsPartition
<1>2. SUFFICES ASSUME NEW x \in V, NEW y \in V, fine[x] = fine[y],
                      \A r \in R : Alike(G, CellAt(fine, r), x, y), Alike(G, X, x, y),
                      NEW d \in CellStarts(fine)
               PROVE  Alike(G, CellAt(fine, d), x, y)
  BY DEF Determined
<1>3. part[x] = part[y]
  BY <1>2, FinerCells
<1>4. ASSUME NEW c PROVE parts(c) \in SUBSET CellStarts(fine) /\ CellAt(part, c) = InCells(fine, parts(c))
  <2>1. parts(c) \in SUBSET CellStarts(fine) /\ CellAt(part, c) \subseteq InCells(fine, parts(c))
    BY <1>1 DEF CellAt, CellStarts, PartsOf, InCells
  <2>2. ASSUME NEW z \in V, fine[z] \in parts(c) PROVE z \in CellAt(part, c)
    <3>1. PICK w \in CellAt(part, c) : fine[z] = fine[w]
      BY <2>2 DEF PartsOf
    <3>2. w \in V /\ part[w] = c
      BY <1>1 DEF CellAt
    <3>3. part[z] = part[w]
      BY <3>1, <3>2, FinerCells
    <3> QED
      BY <1>1, <3>2, <3>3 DEF CellAt
  <2> QED
    BY <1>1, <2>1, <2>2 DEF InCells
\* An active cell is alike for x and y as all its parts are.
<1>5. ASSUME NEW c, parts(c) \subseteq R PROVE Alike(G, CellAt(part, c), x, y)
  <2> DEFINE F == parts(c)
  <2>1. \A f \in F : Alike(G, CellAt(fine, f), x, y)
    BY <1>2, <1>5
  <2>2. F \in SUBSET CellStarts(fine)
    BY <1>4
  <2>3. Alike(G, InCells(fine, F), x, y)
    <3> HIDE DEF F, V
    <3> QED
      BY <1>1, <2>1, <2>2, UnionAlike DEF V
  <2> QED
    BY <1>4, <2>3
<1>6. \A c \in CellStarts(part) : Alike(G, CellAt(part, c), x, y)
  <2>1. ASSUME NEW q \in Q PROVE Alike(G, CellAt(part, q), x, y)
    <3>1. CASE q \in CellStarts(part)
      BY <1>5, <3>1 DEF AllButOne
    <3>2. CASE q \notin CellStarts(part)
      <4>1. CellAt(part, q) = {}
        BY <3>2 DEF CellAt, CellStarts
      <4>2. {z \in CellAt(part, q) : x \in G.adj[z]} = {} /\ {z \in CellAt(part, q) : y \in G.adj[z]} = {}
        BY <4>1
      <4> QED
        BY <4>2 DEF Alike, Sources
    <3> QED
      BY <3>1, <3>2
  <2> QED
    BY <1>2, <1>3, <2>1 DEF Determined
<1>7. PICK w \in V : d = fine[w]
  BY <1>1 DEF CellStarts
<1> DEFINE c == part[w]
<1>8. c \in CellStarts(part) /\ d \in parts(c)
  BY <1>1, <1>7 DEF CellStarts, CellAt, PartsOf
<1>9. CASE d \in R
  BY <1>2, <1>9
<1>10. CASE d \notin R
  <2> DEFINE rest == parts(c) \ {d}
  <2>1. rest \subseteq R
    BY <1>8, <1>10 DEF AllButOne
  <2>2. Alike(G, InCells(fine, rest), x, y)
    <3>1. \A f \in rest : Alike(G, CellAt(fine, f), x, y)
      BY <1>2, <2>1
    <3>2. rest \in SUBSET CellStarts(fine)
      BY <1>4
    <3> HIDE DEF rest, V
    <3> QED
      BY <1>1, <3>1, <3>2, UnionAlike DEF V
  <2>3. /\ CellAt(part, c) = InCells(fine, rest) \cup CellAt(fine, d)
        /\ InCells(fine, rest) \cap CellAt(fine, d) = {}
    <3>1. CellAt(fine, d) = {z \in V : fine[z] = d} /\ InCells(fine, rest) = {z \in V : fine[z] \in rest}
      BY <1>1 DEF CellAt, InCells
    <3>2. CellAt(part, c) = {z \in V : fine[z] \in parts(c)}
      BY <1>1, <1>4 DEF InCells
    <3> HIDE DEF parts, c
    <3> QED
      BY <1>8, <3>1, <3>2
  <2>4. IsFiniteSet(InCells(fine, rest)) /\ IsFiniteSet(CellAt(fine, d))
    <3>1. InCells(fine, rest) \in SUBSET V /\ CellAt(fine, d) \in SUBSET V
      BY <1>1 DEF CellAt, InCells
    <3> QED
      BY <3>1, FS_Subset
  <2>5. Alike(G, CellAt(part, c), x, y)
    BY <1>6, <1>8
  <2> DEFINE A == InCells(fine, rest)
  <2> HIDE DEF A, c
  <2> QED
    BY <2>2, <2>3, <2>4, <2>5, AlikeUnion DEF A
<1> QED
  BY <1>9, <1>10

-----------------------------------------------------------------------------
(* The queue of active cells.                                              *)

\* Ascending lists a set of numbers, the least one first.
LEMMA AscendingLists ==
    ASSUME NEW S \in SUBSET Nat, IsFiniteSet(S)
    PROVE  /\ Ascending(S) \in Seq(S)
           /\ Len(Ascending(S)) = Cardinality(S)
           /\ ToSet(Ascending(S)) = S
           /\ \A x \in S : (\A y \in S : x <= y) => Ascending(S)[1] = x
<1> DEFINE R == {p \in S \X S : p[1] < p[2]}
           k == Cardinality(S)
           rank == [x \in S |-> RankIn(S, R, x)]
           at(i) == CHOOSE x \in S : Cardinality({y \in S : y < x}) = i - 1
           s == [i \in 1..k |-> at(i)]
<1>1. k \in Nat
  BY FS_CardinalityType
<1>2. \A x, y \in S : <<x, y>> \in R <=> x < y
  OBVIOUS
<1> HIDE DEF R
<1>3. WeakOrder(S, R)
  BY <1>2 DEF WeakOrder
<1>4. \A x, y \in S : rank[x] \in Nat /\ rank[x] < k /\ (rank[x] < rank[y] <=> x < y)
  BY <1>3, <1>2, RanksOrder
<1>5. \A x \in S : rank[x] = Cardinality({y \in S : y < x})
  <2>1. ASSUME NEW x \in S PROVE {y \in S : <<y, x>> \in R} = {y \in S : y < x}
    BY <1>2
  <2> QED
    BY <2>1 DEF RankIn
<1> HIDE DEF rank, k
<1>6. \A x, y \in S : rank[x] = rank[y] => x = y
  BY <1>4
<1>7. IsFiniteSet(0..(k - 1)) /\ Cardinality(0..(k - 1)) = k
  BY <1>1, FS_Interval
<1>8. \A x \in S : rank[x] \in 0..(k - 1)
  BY <1>1, <1>4
<1>9. \A i \in 0..(k - 1) : \E x \in S : rank[x] = i
  <2> DEFINE T == 0..(k - 1)
  <2>1. Cardinality(S) = Cardinality(T) /\ IsFiniteSet(T)
    BY <1>7 DEF k
  <2>2. rank \in [S -> T]
    BY <1>8 DEF rank
  <2> HIDE DEF T
  <2>3. rank \in Injection(S, T)
    BY <1>6, <2>2 DEF Injection, IsInjective
  <2>4. rank \in Surjection(S, T)
    BY <2>1, <2>3, FS_Injection
  <2> QED
    BY <2>4 DEF T, Surjection
<1>10. DOMAIN s = 1..k
  OBVIOUS
<1>11. ASSUME NEW i \in 1..k PROVE s[i] \in S /\ rank[s[i]] = i - 1
  <2>1. s[i] = at(i)
    OBVIOUS
  <2>2. i - 1 \in 0..(k - 1)
    BY <1>1
  <2>3. \E x \in S : Cardinality({y \in S : y < x}) = i - 1
    BY <1>5, <1>9, <2>2
  <2>4. s[i] \in S /\ Cardinality({y \in S : y < s[i]}) = i - 1
    BY <2>1, <2>3
  <2> QED
    BY <1>5, <2>4
<1>12. s = [i \in 1..k |-> s[i]] /\ s = Ascending(S)
  <2>1. s = Ascending(S)
    BY DEF Ascending, k
  <2> HIDE DEF at
  <2> QED
    BY <2>1
<1> HIDE DEF s
<1>13. s \in Seq(S) /\ Len(s) = k
  <2>1. s \in [1..k -> S]
    BY <1>11, <1>12
  <2> QED
    BY <1>1, <2>1
<1>14. ASSUME NEW x \in S PROVE \E i \in 1..k : s[i] = x
  <2>1. rank[x] + 1 \in 1..k
    BY <1>1, <1>8
  <2>2. rank[s[rank[x] + 1]] = rank[x] /\ s[rank[x] + 1] \in S
    BY <1>8, <1>11, <2>1
  <2> QED
    BY <1>6, <2>1, <2>2
<1>15. ToSet(s) = S
  BY <1>10, <1>11, <1>14 DEF ToSet
<1>16. ASSUME NEW x \in S, \A y \in S : x <= y PROVE s[1] = x
  <2>1. \E i \in 1..k : s[i] = x
    BY <1>14
  <2>2. 1 \in 1..k
    BY <1>1, <2>1
  <2>3. s[1] \in S /\ rank[s[1]] = 0
    BY <1>11, <2>2
  <2>4. x <= s[1] /\ x \in Nat /\ s[1] \in Nat
    BY <1>16, <2>3
  <2>5. ~(x < s[1])
    <3>1. rank[x] \in Nat /\ (rank[x] < rank[s[1]] <=> x < s[1])
      BY <1>4, <2>3
    <3> QED
      BY <2>3, <3>1
  <2> QED
    BY <2>4, <2>5
<1> QED
  BY <1>12, <1>13, <1>15, <1>16 DEF k

\* What is in a sequence after something is put at its end.
LEMMA AppendSet ==
    ASSUME NEW T, NEW q \in Seq(T), NEW x \in T
    PROVE  Append(q, x) \in Seq(T) /\ ToSet(Append(q, x)) = ToSet(q) \cup {x}
<1>1. Append(q, x) \in Seq(T) /\ Len(Append(q, x)) = Len(q) + 1 /\ Len(q) \in Nat
  OBVIOUS
<1>2. \A i \in 1..Len(q) : Append(q, x)[i] = q[i]
  OBVIOUS
<1>3. Append(q, x)[Len(q) + 1] = x
  OBVIOUS
<1>4. DOMAIN q = 1..Len(q) /\ DOMAIN Append(q, x) = 1..(Len(q) + 1)
  BY <1>1
<1>5. ToSet(Append(q, x)) = {Append(q, x)[i] : i \in 1..(Len(q) + 1)} /\ ToSet(q) = {q[i] : i \in 1..Len(q)}
  BY <1>4 DEF ToSet
<1>6. 1..(Len(q) + 1) = 1..Len(q) \cup {Len(q) + 1}
  BY <1>1
<1> QED
  BY <1>1, <1>2, <1>3, <1>5, <1>6

\* Contains tells the members of a sequence.
LEMMA ContainsIs ==
    ASSUME NEW T, NEW q \in Seq(T), NEW x
    PROVE  Contains(q, x) <=> x \in ToSet(q)
BY DEF Contains, ToSet

\* Among the sizes of several cells one is the first of the greatest.
LEMMA LargestIs ==
    ASSUME NEW T, NEW starts \in Seq(T), Len(starts) > 0, NEW size \in [T -> Nat]
    PROVE  Largest(starts, size) \in 1..Len(starts)
<1> DEFINE k == Len(starts)
           sz(i) == size[starts[i]]
           Great == {i \in 1..k : \A j \in 1..k : sz(j) <= sz(i)}
<1>1. k \in Nat /\ DOMAIN starts = 1..k /\ \A i \in 1..k : starts[i] \in T /\ sz(i) \in Nat
  OBVIOUS
<1> HIDE DEF k
<1>2. Great # {}
  <2> DEFINE Sizes == {sz(i) : i \in 1..k}
  <2>1. Sizes \in SUBSET Nat /\ Sizes # {}
    BY <1>1 DEF k
  <2>2. IsFiniteSet(1..k)
    BY <1>1, FS_Interval
  <2>3. \E b \in Nat : \A i \in 1..k : sz(i) <= b
    <3> DEFINE P == {l \in Nat : \E b \in Nat : \A i \in 1..k : i <= l => sz(i) <= b}
    <3>1. 0 \in P
      BY <1>1
    <3>2. ASSUME NEW l \in P PROVE l + 1 \in P
      <4>1. PICK b \in Nat : \A i \in 1..k : i <= l => sz(i) <= b
        OBVIOUS
      <4>2. CASE l + 1 \in 1..k
        <5>1. b + sz(l + 1) \in Nat /\ \A i \in 1..k : i <= l + 1 => sz(i) <= b + sz(l + 1)
          BY <1>1, <4>1, <4>2
        <5>2. l + 1 \in Nat
          OBVIOUS
        <5> HIDE DEF sz
        <5> QED
          BY <5>1, <5>2
      <4>3. CASE l + 1 \notin 1..k
        <5>1. \A i \in 1..k : i <= l + 1 => sz(i) <= b
          BY <1>1, <4>1, <4>3
        <5>2. l + 1 \in Nat
          OBVIOUS
        <5> HIDE DEF sz
        <5> QED
          BY <5>1, <5>2
      <4> QED
        BY <4>2, <4>3
    <3>3. P = Nat
      <4>1. P \in SUBSET Nat
        OBVIOUS
      <4> HIDE DEF P
      <4> QED
        BY <3>1, <3>2, <4>1, NatInd
    <3>4. k \in P
      <4> HIDE DEF P
      <4> QED
        BY <1>1, <3>3
    <3> QED
      BY <1>1, <3>4
  <2>4. PICK b \in Nat : \A i \in 1..k : sz(i) <= b
    BY <2>3
  <2>5. \A x \in Sizes : x <= b
    BY <2>4
  <2> HIDE DEF Sizes
  <2>6. PICK x \in Sizes : \A y \in Sizes : y <= x
    BY <2>1, <2>5, GreatestNat
  <2>7. PICK i \in 1..k : x = sz(i)
    BY <2>6 DEF Sizes
  <2> QED
    BY <2>6, <2>7 DEF Sizes
<1>3. PICK i \in Great : \A j \in Great : i <= j
  <2>1. Great \in SUBSET Nat
    BY <1>1
  <2> HIDE DEF Great
  <2> QED
    BY <1>2, <2>1, LeastNat
<1>4. /\ i \in 1..k
      /\ \A j \in 1..k : sz(j) <= sz(i)
      /\ \A j \in 1..(i - 1) : sz(j) < sz(i)
  <2>1. i \in 1..k /\ \A j \in 1..k : sz(j) <= sz(i)
    OBVIOUS
  <2>2. ASSUME NEW j \in 1..(i - 1) PROVE sz(j) < sz(i)
    <3>1. j \in 1..k /\ j < i /\ sz(j) \in Nat /\ sz(i) \in Nat
      BY <1>1, <2>1
    <3>2. j \notin Great
      BY <1>3, <3>1
    <3>3. PICK l \in 1..k : ~(sz(l) <= sz(j))
      BY <3>1, <3>2
    <3> QED
      BY <1>1, <2>1, <3>1, <3>3
  <2> QED
    BY <2>1, <2>2
<1>5. /\ i \in DOMAIN starts
      /\ \A j \in DOMAIN starts : size[starts[j]] <= size[starts[i]]
      /\ \A j \in 1..(i - 1) : size[starts[j]] < size[starts[i]]
  BY <1>1, <1>4
<1>6. Largest(starts, size) \in DOMAIN starts
  BY <1>5 DEF Largest
<1> QED
  BY <1>1, <1>6 DEF k

\* What is active stays so, and of the parts F of cell c that now are active at most one is left
\* out, and none if the cell was active.
Activated(queue, new, F, c) ==
    /\ new \in Seq(Nat)
    /\ ToSet(queue) \subseteq ToSet(new)
    /\ F \subseteq ToSet(new) \/ (c \notin ToSet(queue) /\ \E o \in F : F \ {o} \subseteq ToSet(new))

\* A function on 1..m is a sequence of length m,
LEMMA FunctionSeq ==
    ASSUME NEW T, NEW m \in Nat, NEW s \in [1..m -> T]
    PROVE  s \in Seq(T) /\ Len(s) = m
<1>1. s \in Seq(T)
  OBVIOUS
<1>2. DOMAIN s = 1..Len(s) /\ Len(s) \in Nat
  BY <1>1
<1>3. DOMAIN s = 1..m
  OBVIOUS
<1> QED
  BY <1>1, <1>2, <1>3

\* and a sequence is a function on the numbers up to its length.
LEMMA SeqMember ==
    ASSUME NEW T, NEW s \in Seq(T)
    PROVE  Len(s) \in Nat /\ DOMAIN s = 1..Len(s) /\ \A i \in 1..Len(s) : s[i] \in T
OBVIOUS

\* Of two parts the code activates one: so at most one is left out, and none if the cell was active.
LEMMA ActivateTwoKeeps ==
    ASSUME NEW queue \in Seq(Nat), NEW F \in SUBSET Nat, NEW starts \in Seq(F), Len(starts) = 2,
           ToSet(starts) = F, NEW size
    PROVE  Activated(queue, ActivateTwo(queue, starts, size), F, starts[1])
<1>1. starts[1] \in F /\ starts[2] \in F /\ starts[1] \in Nat /\ starts[2] \in Nat
  <2>1. \A i \in 1..Len(starts) : starts[i] \in F
    BY SeqMember
  <2>2. starts[1] \in F /\ starts[2] \in F
    BY <2>1
  <2> QED
    BY <2>2
<1>2. F = {starts[1], starts[2]}
  <2>1. DOMAIN starts = 1..2
    OBVIOUS
  <2>2. F = {starts[i] : i \in 1..2}
    BY <2>1 DEF ToSet
  <2> QED
    BY <2>2
<1>3. CASE ActivateTwo(queue, starts, size) = Append(queue, starts[1]) /\ ~Contains(queue, starts[1])
  <2>1. starts[1] \notin ToSet(queue)
    BY <1>3, ContainsIs
  <2>2. F \ {starts[2]} \subseteq ToSet(Append(queue, starts[1]))
    BY <1>1, <1>2, AppendSet
  <2> QED
    BY <1>1, <1>3, <2>1, <2>2, AppendSet DEF Activated
<1>4. CASE ActivateTwo(queue, starts, size) = Append(queue, starts[2])
  <2>1. F \ {starts[1]} \subseteq ToSet(Append(queue, starts[2]))
    BY <1>1, <1>2, AppendSet
  <2>2. starts[1] \in ToSet(queue) => F \subseteq ToSet(Append(queue, starts[2]))
    BY <1>1, <1>2, AppendSet
  <2>3. Append(queue, starts[2]) \in Seq(Nat) /\ ToSet(queue) \subseteq ToSet(Append(queue, starts[2]))
    BY <1>1, AppendSet
  <2> QED
    BY <1>1, <1>4, <2>1, <2>2, <2>3 DEF Activated
<1> QED
  BY <1>3, <1>4 DEF ActivateTwo

\* The same of more than two parts, where the largest is left out unless its cell was active.
LEMMA ActivateManyKeeps ==
    ASSUME NEW queue \in Seq(Nat), NEW F \in SUBSET Nat, NEW starts \in Seq(F), Len(starts) > 2,
           ToSet(starts) = F, NEW size \in [F -> Nat]
    PROVE  Activated(queue, ActivateMany(queue, starts, size), F, starts[1])
<1> DEFINE k == Len(starts)
           q == Len(queue)
           longer == queue \o Tail(starts)
           big == Largest(starts, size)
<1>1. /\ k \in Nat /\ q \in Nat /\ k > 2 /\ DOMAIN starts = 1..k /\ DOMAIN queue = 1..q
      /\ \A i \in 1..k : starts[i] \in F /\ starts[i] \in Nat
  <2>1. /\ k \in Nat /\ q \in Nat /\ k > 2 /\ DOMAIN starts = 1..k /\ DOMAIN queue = 1..q
        /\ \A i \in 1..k : starts[i] \in F
    OBVIOUS
  <2> QED
    BY <2>1
<1>2. Tail(starts) \in Seq(Nat) /\ Len(Tail(starts)) = k - 1 /\ \A i \in 1..(k - 1) : Tail(starts)[i] = starts[i + 1]
  <2>1. starts \in Seq(Nat)
    <3>1. starts \in [1..k -> Nat]
      BY <1>1
    <3> QED
      BY <1>1, <3>1
  <2>2. starts # <<>>
    BY <1>1
  <2> QED
    BY <2>1, <2>2
<1>3. /\ longer \in Seq(Nat) /\ Len(longer) = q + k - 1
      /\ \A i \in 1..q : longer[i] = queue[i]
      /\ \A i \in 1..(k - 1) : longer[q + i] = Tail(starts)[i]
  BY <1>2
<1>4. \A j \in 2..k : longer[q + j - 1] = starts[j]
  <2> TAKE j \in 2..k
  <2>1. j - 1 \in 1..(k - 1) /\ q + (j - 1) = q + j - 1 /\ (j - 1) + 1 = j
    BY <1>1
  <2> QED
    BY <1>2, <1>3, <2>1
<1>5. ToSet(queue) = {queue[i] : i \in 1..q} /\ F = {starts[j] : j \in 1..k}
  BY <1>1 DEF ToSet
<1>6. big \in 1..k
  <2>1. Len(starts) > 0
    BY <1>1
  <2> QED
    BY <2>1, LargestIs
<1>7. ActivateMany(queue, starts, size) =
          IF big = 1 \/ Contains(queue, starts[1]) THEN longer
          ELSE [longer EXCEPT ![q + big - 1] = starts[1]]
  <2>1. big = 1 \/ Contains(queue, starts[1]) => BigPos(queue, starts, size) = -1
    BY DEF BigPos
  <2>2. ~(big = 1 \/ Contains(queue, starts[1])) => BigPos(queue, starts, size) = q + big - 2
    BY DEF BigPos
  <2>3. big # 1 => q + big - 2 # -1 /\ (q + big - 2) + 1 = q + big - 1
    BY <1>1, <1>6
  <2> HIDE DEF big, longer, q
  <2>4. ActivateMany(queue, starts, size) =
            IF BigPos(queue, starts, size) = -1 THEN longer
            ELSE [longer EXCEPT ![BigPos(queue, starts, size) + 1] = starts[1]]
    BY DEF ActivateMany, longer
  <2> QED
    BY <2>1, <2>2, <2>3, <2>4
<1> HIDE DEF longer, big
<1>8. CASE big = 1 \/ Contains(queue, starts[1])
  <2>1. ToSet(longer) = {longer[i] : i \in 1..(q + k - 1)}
    <3>1. DOMAIN longer = 1..(q + k - 1)
      BY <1>3
    <3> QED
      BY <3>1 DEF ToSet
  <2>2. ToSet(queue) \subseteq ToSet(longer)
    <3>1. ASSUME NEW i \in 1..q PROVE queue[i] \in ToSet(longer)
      <4>1. i \in 1..(q + k - 1)
        BY <1>1
      <4> QED
        BY <1>3, <2>1, <4>1
    <3> QED
      BY <1>5, <3>1
  <2>3. F \ {starts[1]} \subseteq ToSet(longer)
    <3>1. ASSUME NEW j \in 2..k PROVE starts[j] \in ToSet(longer)
      <4>1. q + j - 1 \in 1..(q + k - 1)
        BY <1>1
      <4> QED
        BY <1>4, <2>1, <4>1
    <3>2. \A j \in 1..k : j = 1 \/ j \in 2..k
      BY <1>1
    <3> QED
      BY <1>5, <3>1, <3>2
  <2>4. starts[1] \in F
    BY <1>1
  <2>5. starts[1] \in ToSet(queue) => F \subseteq ToSet(longer)
    BY <2>2, <2>3
  <2> QED
    BY <1>3, <1>7, <1>8, <2>2, <2>3, <2>4, <2>5 DEF Activated
<1>9. CASE ~(big = 1 \/ Contains(queue, starts[1]))
  <2> DEFINE p == q + big - 1
             new == [longer EXCEPT ![p] = starts[1]]
  <2>1. big \in 2..k /\ p \in 1..(q + k - 1) /\ p > q /\ starts[1] \in Nat
    BY <1>1, <1>6, <1>9
  <2>2. /\ new \in Seq(Nat) /\ DOMAIN new = 1..(q + k - 1) /\ new[p] = starts[1]
        /\ \A i \in 1..(q + k - 1) : i # p => new[i] = longer[i]
    <3>1. longer \in [1..(q + k - 1) -> Nat] /\ q + k - 1 \in Nat
      BY <1>1, <1>3
    <3>2. new \in [1..(q + k - 1) -> Nat]
      BY <2>1, <3>1
    <3>3. new \in Seq(Nat)
      <4> DEFINE L == q + k - 1
      <4>1. L \in Nat /\ new \in [1..L -> Nat]
        BY <3>1, <3>2
      <4> HIDE DEF new, L
      <4> QED
        BY <4>1
    <3> QED
      BY <2>1, <3>1, <3>2, <3>3
  <2> HIDE DEF new
  <2>3. ToSet(new) = {new[i] : i \in 1..(q + k - 1)}
    BY <2>2 DEF ToSet
  <2>4. ToSet(queue) \subseteq ToSet(new)
    <3>1. ASSUME NEW i \in 1..q PROVE queue[i] \in ToSet(new)
      <4>1. i \in 1..(q + k - 1) /\ i # p
        BY <1>1, <2>1
      <4> QED
        BY <1>3, <2>2, <2>3, <4>1
    <3> QED
      BY <1>5, <3>1
  <2>5. F \ {starts[big]} \subseteq ToSet(new)
    <3>1. ASSUME NEW j \in 2..k, j # big PROVE starts[j] \in ToSet(new)
      <4>1. q + j - 1 \in 1..(q + k - 1) /\ q + j - 1 # p
        BY <1>1, <2>1, <3>1
      <4> QED
        BY <1>4, <2>2, <2>3, <4>1
    <3>2. starts[1] \in ToSet(new)
      BY <2>1, <2>2, <2>3
    <3>3. \A j \in 1..k : j = 1 \/ j \in 2..k
      BY <1>1
    <3> QED
      BY <1>5, <3>1, <3>2, <3>3
  <2>6. starts[1] \notin ToSet(queue) /\ starts[big] \in F
    BY <1>1, <1>6, <1>9, ContainsIs
  <2>7. ActivateMany(queue, starts, size) = new
    BY <1>7, <1>9 DEF new
  <2> QED
    BY <2>2, <2>4, <2>5, <2>6, <2>7 DEF Activated
<1> QED
  BY <1>8, <1>9

-----------------------------------------------------------------------------
(* doref.                                                                  *)

\* The values of a turn still are to tell apart in its cells what X tells apart.
ToldApart(G, r, X) ==
    \A x, y \in Vertices(G) :
        r.part[x] = r.part[y] /\ (r.part[x] \notin ToSet(r.cells) \/ r.val[x] = r.val[y]) => Alike(G, X, x, y)

(***************************************************************************)
(* The invariant of doref.  Where refine_sg begins the active cells tell   *)
(* apart what any cell does; in a turn the active cells do so together     *)
(* with the cell X that was taken from the queue, which already divides    *)
(* the cells that were dealt with; after refine_sg the partition is        *)
(* equitable.                                                              *)
(***************************************************************************)
RefInv(G, r) ==
    /\ r = [step |-> r.step, level |-> r.level, part |-> r.part, queue |-> r.queue, code |-> r.code,
            outer |-> r.outer, by |-> r.by, val |-> r.val, cells |-> r.cells]
    /\ r.step \in {"start", "loop", "invariant", "done"}
    /\ IsPartition(Vertices(G), r.part)
    /\ r.queue \in Seq(Nat)
    /\ r.cells \in Seq(CellStarts(r.part))
    /\ r.cells # <<>> => r.step = "loop" /\ \A x \in Vertices(G) : r.val[x] \in Int
    /\ r.step = "start" => Determined(G, r.part, ToSet(r.queue), {})
    /\ r.step = "loop" =>
           \E X \in SUBSET Vertices(G) :
               Determined(G, r.part, ToSet(r.queue), X) /\ ToldApart(G, r, X)
    /\ r.step \in {"invariant", "done"} => IsEquitable(G, r.part)

\* The vertices of a colored graph are finitely many numbers, not none.
LEMMA GraphVertices ==
    ASSUME NEW G, IsColoredGraph(G)
    PROVE  \E k \in 1..MaxVertices :
               /\ Vertices(G) = 0..(k - 1)
               /\ Cardinality(Vertices(G)) = k
               /\ IsFiniteSet(Vertices(G))
               /\ \A x \in Vertices(G) : G.adj[x] \in SUBSET Vertices(G)
<1>1. PICK k \in 1..MaxVertices :
          G \in [adj : [0..(k - 1) -> SUBSET (0..(k - 1))], cells : Seq(SUBSET (0..(k - 1)))]
  BY DEF IsColoredGraph
<1>2. k \in Nat /\ k > 0
  BY MaxVerticesAssumption
<1>3. Vertices(G) = 0..(k - 1) /\ \A x \in Vertices(G) : G.adj[x] \in SUBSET Vertices(G)
  BY <1>1 DEF Vertices
<1>4. IsFiniteSet(0..(k - 1)) /\ Cardinality(0..(k - 1)) = (k - 1) - 0 + 1
  BY <1>2, FS_Interval
<1> QED
  BY <1>2, <1>3, <1>4

\* Nothing tells apart a vertex from itself, and the empty set no vertices.
LEMMA AlikeTrivial ==
    ASSUME NEW G, NEW x, NEW y
    PROVE  Alike(G, {}, x, y) /\ \A X : Alike(G, X, x, x)
<1>1. {z \in {} : x \in G.adj[z]} = {} /\ {z \in {} : y \in G.adj[z]} = {}
  OBVIOUS
<1> QED
  BY <1>1 DEF Alike, Sources

\* One cell is divided.
LEMMA DividedCell ==
    ASSUME NEW V, IsFiniteSet(V), NEW part, IsPartition(V, part), NEW val, \A x \in V : val[x] \in Int, NEW c
    PROVE  /\ IsPartition(V, Split(part, c, val)) /\ Refines(V, Split(part, c, val), part)
           /\ \A x, y \in V : Split(part, c, val)[x] = Split(part, c, val)[y]
                  => part[x] = part[y] /\ (part[x] = c => val[x] = val[y])
           /\ \A x \in V : part[x] # c => Split(part, c, val)[x] = part[x]
<1> DEFINE C == {c}
           fine == [x \in V |-> IF part[x] \in C THEN Fragment(part, val, x) ELSE part[x]]
<1>1. fine = Split(part, c, val)
  <2>1. DOMAIN part = V
    BY DEF IsPartition
  <2> QED
    BY <2>1 DEF Split
<1> HIDE DEF C
<1>2. PICK f : f = fine
  OBVIOUS
<1>3. f = [x \in V |-> IF part[x] \in C THEN Fragment(part, val, x) ELSE part[x]]
  BY <1>2
<1> HIDE DEF fine
<1>4. /\ IsPartition(V, f) /\ Refines(V, f, part)
      /\ \A x, y \in V : f[x] = f[y] => part[x] = part[y] /\ (part[x] \in C => val[x] = val[y])
      /\ \A x \in V : part[x] \notin C => f[x] = part[x]
  BY <1>3, DividedCells
<1>5. f = Split(part, c, val)
  BY <1>1, <1>2
<1> QED
  BY <1>4, <1>5 DEF C

\* The queue after cell c was divided.
QueueAfter(queue, part, fine, c) ==
    LET starts == Ascending({fine[x] : x \in CellAt(part, c)})
        size == [s \in ToSet(starts) |-> CellSize(fine, s)]
    IN  IF Len(starts) = 1 THEN queue ELSE Activate(queue, starts, size)

(***************************************************************************)
(* A cell is divided and its parts are made active: what the active cells  *)
(* do not tell apart is still told apart by no cell.                       *)
(***************************************************************************)
LEMMA DivideOneCell ==
    ASSUME NEW G, IsFiniteSet(Vertices(G)), NEW part, IsPartition(Vertices(G), part),
           NEW val, \A x \in Vertices(G) : val[x] \in Int, NEW c \in CellStarts(part),
           NEW queue \in Seq(Nat), NEW X, Determined(G, part, ToSet(queue), X),
           NEW fine, fine = Split(part, c, val),
           NEW new, new = QueueAfter(queue, part, fine, c)
    PROVE  /\ IsPartition(Vertices(G), fine) /\ Refines(Vertices(G), fine, part)
           /\ \A x, y \in Vertices(G) : fine[x] = fine[y] => part[x] = part[y] /\ (part[x] = c => val[x] = val[y])
           /\ \A x \in Vertices(G) : part[x] # c => fine[x] = part[x]
           /\ new \in Seq(Nat)
           /\ Determined(G, fine, ToSet(new), X)
<1> DEFINE V == Vertices(G)
           F == PartsOf(part, fine, c)
           starts == Ascending({fine[x] : x \in CellAt(part, c)})
           size == [s \in ToSet(starts) |-> CellSize(fine, s)]
<1>1. /\ DOMAIN part = V
      /\ \A x \in V : part[x] \in Nat
  BY DEF IsPartition
<1>2. /\ IsPartition(V, fine) /\ Refines(V, fine, part)
      /\ \A x, y \in V : fine[x] = fine[y] => part[x] = part[y] /\ (part[x] = c => val[x] = val[y])
      /\ \A x \in V : part[x] # c => fine[x] = part[x]
  BY DividedCell
<1>3. DOMAIN fine = V /\ \A x \in V : fine[x] \in Nat
  BY <1>2 DEF IsPartition
<1>4. F \in SUBSET Nat /\ IsFiniteSet(F) /\ F = {fine[x] : x \in CellAt(part, c)}
  <2>1. F = {fine[x] : x \in CellAt(part, c)} /\ CellAt(part, c) \in SUBSET V
    BY <1>1 DEF PartsOf, CellAt
  <2>2. IsFiniteSet(CellAt(part, c))
    BY <2>1, FS_Subset
  <2>3. IsFiniteSet({fine[x] : x \in CellAt(part, c)})
    BY <2>2, ImageFinite
  <2> QED
    BY <1>3, <2>1, <2>3
<1>5. starts = Ascending(F)
  BY <1>4
<1>6. starts \in Seq(F) /\ Len(starts) = Cardinality(F) /\ ToSet(starts) = F
  BY <1>4, <1>5, AscendingLists
\* The first part has the number of the cell.
<1>7. c \in F /\ \A s \in F : c <= s
  <2>1. PICK x \in V : c = part[x]
    BY <1>1 DEF CellStarts
  <2>2. PICK w \in V : part[w] = part[x] /\ fine[w] = part[x]
    BY <1>2, FirstPart
  <2>3. c \in F
    BY <1>1, <2>1, <2>2 DEF PartsOf, CellAt
  <2>4. ASSUME NEW z \in V, part[z] = c PROVE c <= fine[z]
    <3>1. fine[z] = part[z] + Cardinality({y \in CellAt(part, part[z]) : val[y] < val[z]})
      BY <1>1, <2>4 DEF Split, Fragment
    <3>2. {y \in CellAt(part, part[z]) : val[y] < val[z]} \in SUBSET V
      BY <1>1 DEF CellAt
    <3>3. Cardinality({y \in CellAt(part, part[z]) : val[y] < val[z]}) \in Nat
      BY <3>2, FS_Subset, FS_CardinalityType
    <3> QED
      BY <1>1, <2>4, <3>1, <3>3
  <2> QED
    BY <1>1, <2>3, <2>4 DEF PartsOf, CellAt
<1>8. starts[1] = c
  BY <1>4, <1>5, <1>7, AscendingLists
<1>15. new = IF Len(starts) = 1 THEN queue ELSE Activate(queue, starts, size)
  BY DEF QueueAfter
<1>16. size = [s \in ToSet(starts) |-> CellSize(fine, s)]
  OBVIOUS
<1> HIDE DEF starts, size
<1>9. PICK k : k = Len(starts)
  OBVIOUS
<1>10. /\ new = IF k = 1 THEN queue
                ELSE IF k = 2 THEN ActivateTwo(queue, starts, size) ELSE ActivateMany(queue, starts, size)
      /\ k = Cardinality(F)
  BY <1>15, <1>6, <1>9 DEF Activate
<1> HIDE DEF F
<1>11. k \in Nat /\ k # 0 /\ IsFiniteSet(F)
  BY <1>4, <1>7, <1>10, FS_EmptySet, FS_CardinalityType
<1>12. Activated(queue, new, F, c)
  <2>1. CASE k = 1
    <3>1. new = queue
      BY <1>10, <2>1
    <3>2. \E x : F = {x}
      BY <1>10, <1>11, <2>1, FS_Singleton
    <3>3. F = {c}
      BY <1>7, <3>2
    <3>4. F \subseteq ToSet(queue) \/ (c \notin ToSet(queue) /\ F \ {c} \subseteq ToSet(queue))
      BY <3>3
    <3> QED
      BY <1>7, <3>1, <3>4 DEF Activated
  <2>2. CASE k = 2
    <3>1. new = ActivateTwo(queue, starts, size) /\ Len(starts) = 2
      BY <1>9, <1>10, <2>2
    <3>2. F \in SUBSET Nat /\ starts \in Seq(F) /\ ToSet(starts) = F
      BY <1>4, <1>6
    <3>3. Activated(queue, ActivateTwo(queue, starts, size), F, starts[1])
      BY <3>1, <3>2, ActivateTwoKeeps
    <3> QED
      BY <1>8, <3>1, <3>3
  <2>3. CASE k # 1 /\ k # 2
    <3>1. new = ActivateMany(queue, starts, size)
      BY <1>10, <2>3
    <3>2. Len(starts) > 2
      <4>1. k > 2
        <5>1. k \in Nat /\ k # 0 /\ k # 1 /\ k # 2
          BY <1>11, <2>3
        <5> QED
          BY <5>1
      <4> QED
        BY <1>9, <4>1
    <3>3. size \in [F -> Nat]
      <4>1. \A s \in F : CellSize(fine, s) \in Nat
        BY <1>2, CellsApart
      <4> QED
        BY <1>6, <1>16, <4>1
    <3> QED
      BY <1>4, <1>6, <1>8, <3>1, <3>2, <3>3, ActivateManyKeeps
  <2> QED
    BY <2>1, <2>2, <2>3
<1>13. AllButOne(part, fine, ToSet(queue), ToSet(new))
  <2>1. ASSUME NEW d \in CellStarts(part), d # c PROVE PartsOf(part, fine, d) = {d}
    <3>1. \A z \in CellAt(part, d) : fine[z] = d
      BY <1>1, <1>2, <2>1 DEF CellAt
    <3>2. CellAt(part, d) # {}
      BY DEF CellAt, CellStarts
    <3> QED
      BY <3>1, <3>2 DEF PartsOf
  <2>2. ASSUME NEW d \in CellStarts(part)
        PROVE  \/ PartsOf(part, fine, d) \subseteq ToSet(new)
               \/ d \notin ToSet(queue) /\ \E o \in PartsOf(part, fine, d) : PartsOf(part, fine, d) \ {o} \subseteq ToSet(new)
    <3>1. CASE d = c
      BY <1>12, <3>1 DEF Activated, F
    <3>2. CASE d # c
      <4>1. PartsOf(part, fine, d) = {d} /\ ToSet(queue) \subseteq ToSet(new)
        BY <1>12, <2>1, <3>2 DEF Activated
      <4> QED
        BY <4>1
    <3> QED
      BY <3>1, <3>2
  <2> QED
    BY <2>2 DEF AllButOne
<1>14. Determined(G, fine, ToSet(new), X)
  BY <1>2, <1>13, AllPartsButOne
<1> QED
  BY <1>2, <1>12, <1>14 DEF Activated

\* The facts about sequences of cells and the queue that the steps need.
LEMMA HeadTail ==
    ASSUME NEW T, NEW s \in Seq(T), s # <<>>
    PROVE  Head(s) \in T /\ Tail(s) \in Seq(T) /\ ToSet(s) = {Head(s)} \cup ToSet(Tail(s))
<1> DEFINE k == Len(s)
<1>1. k \in Nat /\ k > 0 /\ DOMAIN s = 1..k /\ Head(s) = s[1] /\ \A i \in 1..k : s[i] \in T
  OBVIOUS
<1>2. Tail(s) \in Seq(T) /\ Len(Tail(s)) = k - 1 /\ \A i \in 1..(k - 1) : Tail(s)[i] = s[i + 1]
  OBVIOUS
<1>3. DOMAIN Tail(s) = 1..(k - 1)
  BY <1>2
<1> HIDE DEF k
<1>4. ToSet(s) = {s[i] : i \in 1..k} /\ ToSet(Tail(s)) = {Tail(s)[i] : i \in 1..(k - 1)}
  BY <1>1, <1>3 DEF ToSet
<1>5. ASSUME NEW i \in 1..k, i # 1 PROVE s[i] \in ToSet(Tail(s))
  <2>1. i - 1 \in 1..(k - 1) /\ (i - 1) + 1 = i
    BY <1>1, <1>5
  <2>2. Tail(s)[i - 1] = s[i]
    BY <1>2, <2>1
  <2> QED
    BY <1>4, <2>1, <2>2
<1>6. ASSUME NEW i \in 1..(k - 1) PROVE Tail(s)[i] \in ToSet(s)
  <2>1. i + 1 \in 1..k
    BY <1>1
  <2> QED
    BY <1>2, <1>4, <2>1
<1>7. 1 \in 1..k /\ s[1] \in T
  BY <1>1
<1>8. ToSet(s) \subseteq {Head(s)} \cup ToSet(Tail(s))
  BY <1>1, <1>4, <1>5
<1>9. {Head(s)} \cup ToSet(Tail(s)) \subseteq ToSet(s)
  BY <1>1, <1>4, <1>6, <1>7
<1> QED
  BY <1>1, <1>2, <1>7, <1>8, <1>9

\* The next cell of a turn is split.
LEMMA SplitNextKeeps ==
    ASSUME NEW G, IsColoredGraph(G), RefInv(G, ref), SplitNext
    PROVE  RefInv(G, ref') /\ Refines(Vertices(G), ref'.part, ref.part)
<1> DEFINE V == Vertices(G)
           part == ref.part
           c == Head(ref.cells)
           cell == CellAt(part, c)
           fine == Split(part, c, ref.val)
           starts == Ascending({fine[x] : x \in cell})
           values == Ascending({ref.val[x] : x \in cell})
           size == [s \in ToSet(starts) |-> CellSize(fine, s)]
           codes ==
               IF ref.by = "vertex" THEN CodesByVertex(c, starts, Cardinality({x \in cell : ref.val[x] = 1}))
               ELSE IF ref.by = "cell" THEN CodesByCell(c, starts, values)
               ELSE CodesByDistance(c, starts, values, BigPos(ref.queue, starts, size))
           new == IF Len(starts) = 1 THEN ref.queue ELSE Activate(ref.queue, starts, size)
<1>1. /\ ref.step = "loop" /\ ref.cells # <<>>
      /\ ref' = [ref EXCEPT !.part = fine, !.cells = Tail(ref.cells), !.code = MashAll(ref.code, codes), !.queue = new]
  BY DEF SplitNext
<1>2. /\ ref = [step |-> ref.step, level |-> ref.level, part |-> ref.part, queue |-> ref.queue, code |-> ref.code,
                outer |-> ref.outer, by |-> ref.by, val |-> ref.val, cells |-> ref.cells]
      /\ IsPartition(V, part)
      /\ ref.queue \in Seq(Nat)
      /\ ref.cells \in Seq(CellStarts(part))
      /\ \A x \in V : ref.val[x] \in Int
  BY <1>1 DEF RefInv
<1>3. PICK X \in SUBSET V : Determined(G, part, ToSet(ref.queue), X) /\ ToldApart(G, ref, X)
  BY <1>1 DEF RefInv
<1>4. /\ c \in CellStarts(part) /\ Tail(ref.cells) \in Seq(CellStarts(part))
      /\ ToSet(ref.cells) = {c} \cup ToSet(Tail(ref.cells))
  BY <1>1, <1>2, HeadTail
<1>5. IsFiniteSet(V)
  BY GraphVertices
<1> HIDE DEF V, c, codes
<1>6. /\ IsPartition(V, fine) /\ Refines(V, fine, part)
      /\ \A x, y \in V : fine[x] = fine[y] => part[x] = part[y] /\ (part[x] = c => ref.val[x] = ref.val[y])
      /\ \A x \in V : part[x] # c => fine[x] = part[x]
      /\ new \in Seq(Nat)
      /\ Determined(G, fine, ToSet(new), X)
  <2>1. PICK val, queue : val = ref.val /\ queue = ref.queue
    OBVIOUS
  <2>2. /\ IsPartition(Vertices(G), part) /\ \A x \in Vertices(G) : val[x] \in Int
        /\ queue \in Seq(Nat) /\ Determined(G, part, ToSet(queue), X)
        /\ IsFiniteSet(Vertices(G)) /\ c \in CellStarts(part)
    BY <1>2, <1>3, <1>4, <1>5, <2>1 DEF V
  <2>3. fine = Split(part, c, val) /\ new = QueueAfter(queue, part, fine, c)
    BY <2>1 DEF QueueAfter
  <2> HIDE DEF part, fine, starts, size, new
  <2>4. /\ IsPartition(Vertices(G), fine) /\ Refines(Vertices(G), fine, part)
        /\ \A x, y \in Vertices(G) : fine[x] = fine[y] => part[x] = part[y] /\ (part[x] = c => val[x] = val[y])
        /\ \A x \in Vertices(G) : part[x] # c => fine[x] = part[x]
        /\ new \in Seq(Nat)
        /\ Determined(G, fine, ToSet(new), X)
    BY <2>2, <2>3, DivideOneCell
  <2> QED
    BY <2>1, <2>4 DEF V
<1> HIDE DEF part, fine, starts, size, new
<1>7. /\ ref'.step = "loop" /\ ref'.part = fine /\ ref'.queue = new /\ ref'.cells = Tail(ref.cells)
      /\ ref'.val = ref.val
      /\ ref' = [step |-> ref'.step, level |-> ref'.level, part |-> ref'.part, queue |-> ref'.queue,
                 code |-> ref'.code, outer |-> ref'.outer, by |-> ref'.by, val |-> ref'.val, cells |-> ref'.cells]
  BY <1>1, <1>2
<1>8. Tail(ref.cells) \in Seq(CellStarts(fine))
  <2>1. CellStarts(part) \subseteq CellStarts(fine)
    BY <1>2, <1>5, <1>6, FinerCells
  <2> QED
    BY <1>4, <2>1
<1>9. ToldApart(G, ref', X)
  <2>1. \A x, y \in V : part[x] = part[y] /\ (part[x] \notin ToSet(ref.cells) \/ ref.val[x] = ref.val[y]) => Alike(G, X, x, y)
    BY <1>3 DEF ToldApart, V, part
  <2>2. ASSUME NEW x \in V, NEW y \in V, fine[x] = fine[y],
               fine[x] \notin ToSet(Tail(ref.cells)) \/ ref.val[x] = ref.val[y]
        PROVE  Alike(G, X, x, y)
    <3>1. part[x] = part[y] /\ (part[x] = c => ref.val[x] = ref.val[y])
      BY <1>6, <2>2
    <3>2. part[x] # c => fine[x] = part[x]
      BY <1>6
    <3>3. part[x] \notin ToSet(ref.cells) \/ ref.val[x] = ref.val[y]
      BY <1>4, <2>2, <3>1, <3>2
    <3> QED
      BY <2>1, <3>1, <3>3
  <2> QED
    BY <1>7, <2>2 DEF ToldApart, V
<1>10. Refines(Vertices(G), ref'.part, ref.part)
  BY <1>6, <1>7 DEF V, part
<1>11. \E Y \in SUBSET V : Determined(G, ref'.part, ToSet(ref'.queue), Y) /\ ToldApart(G, ref', Y)
  BY <1>3, <1>6, <1>7, <1>9
<1> QED
  BY <1>2, <1>6, <1>7, <1>8, <1>10, <1>11 DEF RefInv, V

\* Place i of the queue is taken by the last element.
LEMMA TakePlace ==
    ASSUME NEW queue \in Seq(Nat), NEW i \in 1..Len(queue), NEW new,
           new = Front([queue EXCEPT ![i] = Last(queue)])
    PROVE  new \in Seq(Nat) /\ ToSet(queue) \subseteq ToSet(new) \cup {queue[i]}
<1> DEFINE k == Len(queue)
           moved == [queue EXCEPT ![i] = Last(queue)]
<1>1. k \in Nat /\ k > 0 /\ DOMAIN queue = 1..k /\ i \in 1..k /\ \A j \in 1..k : queue[j] \in Nat
  OBVIOUS
<1>2. Last(queue) = queue[k] /\ queue[k] \in Nat
  BY <1>1 DEF Last
<1>3. moved \in Seq(Nat) /\ Len(moved) = k /\ \A j \in 1..k : moved[j] = IF j = i THEN queue[k] ELSE queue[j]
  BY <1>1, <1>2
<1> HIDE DEF moved
<1>4. new = SubSeq(moved, 1, k - 1)
  BY <1>3 DEF Front, moved
<1>5. new \in Seq(Nat) /\ Len(new) = k - 1 /\ \A j \in 1..(k - 1) : new[j] = moved[j]
  <2> HIDE DEF k
  <2>1. 1 \in 1..(Len(moved) + 1) /\ k - 1 \in Nat /\ k - 1 <= Len(moved)
    BY <1>1, <1>3
  <2>2. \A j \in 1..(k - 1) : j + 1 - 1 = j /\ j \in 1..k
    BY <1>1
  <2>3. SubSeq(moved, 1, k - 1) = [j \in 1..(k - 1) |-> moved[j]]
    BY <1>1, <1>3
  <2>4. new = [j \in 1..(k - 1) |-> moved[j]]
    BY <1>4, <2>3
  <2>5. \A j \in 1..(k - 1) : moved[j] \in Nat
    BY <1>1, <1>3, <2>2
  <2>6. PICK m : m = k - 1
    OBVIOUS
  <2>7. m \in Nat /\ new = [j \in 1..m |-> moved[j]] /\ \A j \in 1..m : moved[j] \in Nat
    BY <2>1, <2>4, <2>5, <2>6
  <2>8. new \in [1..m -> Nat] /\ \A j \in 1..m : new[j] = moved[j]
    BY <2>7
  <2>9. new \in Seq(Nat) /\ Len(new) = m
    BY <2>7, <2>8, FunctionSeq
  <2> QED
    BY <2>6, <2>8, <2>9
<1>6. DOMAIN new = 1..(k - 1)
  BY <1>5
<1> HIDE DEF k
<1>7. ToSet(queue) = {queue[j] : j \in 1..k} /\ ToSet(new) = {new[j] : j \in 1..(k - 1)}
  BY <1>1, <1>6 DEF ToSet
<1>8. ASSUME NEW j \in 1..k, j # i PROVE queue[j] \in ToSet(new)
  <2>1. CASE j = k
    <3>1. i \in 1..(k - 1)
      BY <1>1, <1>8, <2>1
    <3>2. new[i] = queue[j]
      BY <1>1, <1>3, <1>5, <2>1, <3>1
    <3> QED
      BY <1>7, <3>1, <3>2
  <2>2. CASE j # k
    <3>1. j \in 1..(k - 1)
      BY <1>1, <2>2
    <3>2. new[j] = queue[j]
      BY <1>3, <1>5, <1>8, <3>1
    <3> QED
      BY <1>7, <3>1, <3>2
  <2> QED
    BY <2>1, <2>2
<1> QED
  BY <1>5, <1>7, <1>8

\* Vertices of a cell that a set does not hit are alike for it.
LEMMA UnhitAlike ==
    ASSUME NEW G, IsFiniteSet(Vertices(G)), NEW part, IsPartition(Vertices(G), part),
           NEW S \in SUBSET Vertices(G), NEW x \in Vertices(G), NEW y \in Vertices(G), part[x] = part[y],
           part[x] \notin HitCells(G, part, S) \/ Hits(G, S)[x] = Hits(G, S)[y]
    PROVE  Alike(G, S, x, y)
<1>1. DOMAIN part = Vertices(G)
  BY DEF IsPartition
<1>2. CASE Hits(G, S)[x] = Hits(G, S)[y]
  BY <1>2 DEF Hits, Alike, Sources
<1>3. CASE part[x] \notin LargeCells(part)
  <2>1. ~(CellSize(part, part[x]) > 1)
    BY <1>1, <1>3 DEF LargeCells, CellStarts
  <2>2. CellSize(part, part[x]) \in Nat /\ CellSize(part, part[x]) > 0 /\ IsFiniteSet(CellAt(part, part[x]))
    BY CellsApart
  <2>3. CellSize(part, part[x]) = 1
    BY <2>1, <2>2
  <2>4. \E z : CellAt(part, part[x]) = {z}
    BY <2>2, <2>3, FS_Singleton DEF CellSize
  <2>5. x \in CellAt(part, part[x]) /\ y \in CellAt(part, part[x])
    BY <1>1 DEF CellAt
  <2>6. x = y
    BY <2>4, <2>5
  <2> QED
    BY <2>6, AlikeTrivial
<1>4. CASE part[x] \in LargeCells(part) /\ part[x] \notin HitCells(G, part, S)
  <2>1. {z \in S : x \in G.adj[z]} = {} /\ {z \in S : y \in G.adj[z]} = {}
    BY <1>4 DEF HitCells
  <2> QED
    BY <2>1 DEF Alike, Sources
<1> QED
  BY <1>2, <1>3, <1>4

\* A place of the queue is picked.
LEMMA PickIs ==
    ASSUME NEW st, st.queue \in Seq(Nat), st.queue # <<>>
    PROVE  Pick(st) \in 1..Len(st.queue)
<1>1. Len(st.queue) \in Nat /\ Len(st.queue) > 0 /\ DOMAIN st.queue = 1..Len(st.queue)
  OBVIOUS
<1>2. Singletons(st) \in SUBSET (1..Len(st.queue))
  BY <1>1 DEF Singletons
<1>3. CASE Singletons(st) # {}
  <2>1. Min(Singletons(st)) \in Singletons(st)
    BY <1>2, <1>3, MinIs
  <2> QED
    BY <1>2, <1>3, <2>1 DEF Pick
<1>4. CASE Singletons(st) = {}
  BY <1>1, <1>4 DEF Pick
<1> QED
  BY <1>3, <1>4

\* In a list of all elements of a set of cells none else occurs.
LEMMA AscendingCells ==
    ASSUME NEW V, IsFiniteSet(V), NEW part, IsPartition(V, part), NEW C \in SUBSET CellStarts(part)
    PROVE  Ascending(C) \in Seq(CellStarts(part)) /\ ToSet(Ascending(C)) = C /\ (C = {} => Ascending(C) = <<>>)
<1>1. DOMAIN part = V /\ \A x \in V : part[x] \in Nat
  BY DEF IsPartition
<1>2. CellStarts(part) \in SUBSET Nat /\ IsFiniteSet(CellStarts(part))
  <2>1. CellStarts(part) = {part[x] : x \in V}
    BY <1>1 DEF CellStarts
  <2>2. IsFiniteSet({part[x] : x \in V})
    BY ImageFinite
  <2> QED
    BY <1>1, <2>1, <2>2
<1>3. C \in SUBSET Nat /\ IsFiniteSet(C)
  BY <1>2, FS_Subset
<1>4. Ascending(C) \in Seq(C) /\ ToSet(Ascending(C)) = C /\ Len(Ascending(C)) = Cardinality(C)
  BY <1>3, AscendingLists
<1>5. Ascending(C) \in Seq(CellStarts(part))
  BY <1>4
<1>6. C = {} => Len(Ascending(C)) = 0
  BY <1>4, FS_EmptySet
<1> QED
  BY <1>4, <1>5, <1>6

\* A turn begins: the cell that is taken from the queue is the one that tells vertices apart.
LEMMA RefineStepKeeps ==
    ASSUME NEW G, IsColoredGraph(G), RefInv(G, ref), RefineStep(G)
    PROVE  RefInv(G, ref') /\ ref'.part = ref.part
<1> DEFINE V == Vertices(G)
           part == ref.part
           queue == ref.queue
           i == Pick(ref)
           split == queue[i]
           S == CellAt(part, split)
           hit == HitCells(G, part, S)
           new == Front([queue EXCEPT ![i] = Last(queue)])
<1>1. /\ ref.step = "loop" /\ ref.cells = <<>> /\ queue # <<>>
      /\ ref' = [ref EXCEPT !.queue = new,
                            !.code = MashAll(@, <<split, Cardinality(hit)>>),
                            !.by = IF CellSize(part, split) = 1 THEN "vertex" ELSE "cell",
                            !.val = Hits(G, S),
                            !.cells = Ascending(hit)]
  BY DEF RefineStep, Finished
<1>2. /\ ref = [step |-> ref.step, level |-> ref.level, part |-> ref.part, queue |-> ref.queue, code |-> ref.code,
                outer |-> ref.outer, by |-> ref.by, val |-> ref.val, cells |-> ref.cells]
      /\ IsPartition(V, part)
      /\ queue \in Seq(Nat)
  BY <1>1 DEF RefInv
<1>3. PICK X \in SUBSET V : Determined(G, part, ToSet(queue), X) /\ ToldApart(G, ref, X)
  BY <1>1 DEF RefInv
<1>4. IsFiniteSet(V) /\ DOMAIN part = V
  BY <1>2, GraphVertices DEF IsPartition
<1>5. i \in 1..Len(queue)
  BY <1>1, <1>2, PickIs
<1> HIDE DEF V, part, queue, i
<1>6. new \in Seq(Nat) /\ ToSet(queue) \subseteq ToSet(new) \cup {split}
  BY <1>2, <1>5, TakePlace
<1> HIDE DEF split, new
<1>7. S \in SUBSET V /\ hit \in SUBSET CellStarts(part)
  BY <1>4 DEF CellAt, HitCells, LargeCells
<1>8. Determined(G, part, ToSet(new), S)
  <2>1. ToSet(ref.cells) = {}
    BY <1>1 DEF ToSet
  <2>2. ASSUME NEW x \in V, NEW y \in V, part[x] = part[y] PROVE Alike(G, X, x, y)
    <3>1. ref.part[x] = ref.part[y] /\ ref.part[x] \notin ToSet(ref.cells)
      BY <2>1, <2>2 DEF part
    <3> QED
      BY <1>3, <3>1 DEF ToldApart, V
  <2>3. ASSUME NEW x \in V, NEW y \in V, part[x] = part[y], \A q \in ToSet(new) : Alike(G, CellAt(part, q), x, y),
               Alike(G, S, x, y)
        PROVE  \A c \in CellStarts(part) : Alike(G, CellAt(part, c), x, y)
    <3>1. \A q \in ToSet(queue) : Alike(G, CellAt(part, q), x, y)
      BY <1>6, <2>3
    <3>2. Alike(G, X, x, y)
      BY <2>2, <2>3
    <3> QED
      BY <1>3, <2>3, <3>1, <3>2 DEF Determined, V
  <2> QED
    BY <2>3 DEF Determined, V
<1> HIDE DEF S, hit
<1>9. Ascending(hit) \in Seq(CellStarts(part)) /\ ToSet(Ascending(hit)) = hit
  BY <1>2, <1>4, <1>7, AscendingCells
<1>10. /\ ref'.step = "loop" /\ ref'.part = part /\ ref'.queue = new /\ ref'.cells = Ascending(hit)
       /\ ref'.val = Hits(G, S)
       /\ ref' = [step |-> ref'.step, level |-> ref'.level, part |-> ref'.part, queue |-> ref'.queue,
                  code |-> ref'.code, outer |-> ref'.outer, by |-> ref'.by, val |-> ref'.val, cells |-> ref'.cells]
  BY <1>1, <1>2 DEF part
<1>11. ToldApart(G, ref', S)
  <2>1. ASSUME NEW x \in V, NEW y \in V, part[x] = part[y], part[x] \notin hit \/ Hits(G, S)[x] = Hits(G, S)[y]
        PROVE  Alike(G, S, x, y)
    BY <1>2, <1>4, <1>7, <2>1, UnhitAlike DEF V, hit
  <2> QED
    BY <1>9, <1>10, <2>1 DEF ToldApart, V
<1>12. \A x \in V : Hits(G, S)[x] \in Int
  <2>1. ASSUME NEW x \in V PROVE Hits(G, S)[x] \in Nat
    <3>1. {y \in S : x \in G.adj[y]} \in SUBSET V
      BY <1>7
    <3>2. Cardinality({y \in S : x \in G.adj[y]}) \in Nat
      BY <1>4, <3>1, FS_Subset, FS_CardinalityType
    <3> QED
      BY <3>2 DEF Hits, V
  <2> QED
    BY <2>1
<1>13. \E Y \in SUBSET V : Determined(G, ref'.part, ToSet(ref'.queue), Y) /\ ToldApart(G, ref', Y)
  BY <1>7, <1>8, <1>10, <1>11
<1>14. ref'.part = ref.part
  BY <1>10 DEF part
<1> QED
  BY <1>2, <1>6, <1>9, <1>10, <1>12, <1>13, <1>14 DEF RefInv, V

\* In a discrete partition every vertex has a cell of its own.
LEMMA DiscreteCells ==
    ASSUME NEW V, IsFiniteSet(V), NEW part, DOMAIN part = V, Discrete(part)
    PROVE  \A x, y \in V : part[x] = part[y] => x = y
<1>1. Cardinality({part[x] : x \in V}) = Cardinality(V)
  BY DEF Discrete, NumCells, CellStarts
<1> QED
  BY <1>1, ImageInjective

\* The end of refine_sg.
LEMMA RefineEndKeeps ==
    ASSUME NEW G, IsColoredGraph(G), RefInv(G, ref), RefineEnd
    PROVE  RefInv(G, ref') /\ ref'.part = ref.part
<1> DEFINE V == Vertices(G)
           code == CLEANUP(MASH(ref.code, NumCells(ref.part)))
           last == IF ref.outer = -1 THEN code ELSE CLEANUP(MASH(ref.outer, code))
           step == IF ref.outer = -1 /\ ~Discrete(ref.part) THEN "invariant" ELSE "done"
<1>1. /\ ref.step = "loop" /\ ref.cells = <<>> /\ (ref.queue = <<>> \/ Discrete(ref.part))
      /\ ref' = [ref EXCEPT !.code = last, !.step = step]
  BY DEF RefineEnd, Finished
<1>2. /\ ref = [step |-> ref.step, level |-> ref.level, part |-> ref.part, queue |-> ref.queue, code |-> ref.code,
                outer |-> ref.outer, by |-> ref.by, val |-> ref.val, cells |-> ref.cells]
      /\ IsPartition(V, ref.part)
      /\ ref.queue \in Seq(Nat)
  BY <1>1 DEF RefInv
<1>3. PICK X \in SUBSET V : Determined(G, ref.part, ToSet(ref.queue), X) /\ ToldApart(G, ref, X)
  BY <1>1 DEF RefInv
<1>4. IsFiniteSet(V) /\ DOMAIN ref.part = V
  BY <1>2, GraphVertices DEF IsPartition
<1>5. IsEquitable(G, ref.part)
  <2>1. CASE Discrete(ref.part)
    <3>1. \A x, y \in V : ref.part[x] = ref.part[y] => x = y
      BY <1>4, <2>1, DiscreteCells
    <3>2. ASSUME NEW c, NEW x \in V, NEW y \in V, ref.part[x] = ref.part[y]
          PROVE  Alike(G, CellAt(ref.part, c), x, y)
      <4>1. x = y
        BY <3>1, <3>2
      <4> QED
        BY <4>1, AlikeTrivial
    <3> QED
      BY <3>2 DEF IsEquitable
  <2>2. CASE ref.queue = <<>>
    <3>1. ToSet(ref.cells) = {} /\ ToSet(ref.queue) = {}
      BY <1>1, <2>2 DEF ToSet
    <3>2. \A x, y \in V : ref.part[x] = ref.part[y] => Alike(G, X, x, y)
      BY <1>3, <3>1 DEF ToldApart
    <3> QED
      BY <1>3, <3>1, <3>2 DEF Determined, IsEquitable
  <2> QED
    BY <1>1, <2>1, <2>2
<1>6. step \in {"invariant", "done"}
  OBVIOUS
<1> HIDE DEF step, last, V
<1>7. /\ ref'.step = step /\ ref'.part = ref.part /\ ref'.queue = ref.queue /\ ref'.cells = <<>>
      /\ ref' = [step |-> ref'.step, level |-> ref'.level, part |-> ref'.part, queue |-> ref'.queue,
                 code |-> ref'.code, outer |-> ref'.outer, by |-> ref'.by, val |-> ref'.val, cells |-> ref'.cells]
  BY <1>1, <1>2
<1>8. ref'.cells \in Seq(CellStarts(ref'.part))
  BY <1>7
<1> QED
  BY <1>2, <1>5, <1>6, <1>7, <1>8 DEF RefInv, V

\* The balls around v, which exist although each is defined from the one before.
AreBalls(adj, v, m, f) ==
    f = [k \in 0..m |-> IF k = 0 THEN {v} ELSE UNION {{x} \cup adj[x] : x \in f[k - 1]}]

LEMMA BallsExist ==
    ASSUME NEW V, NEW adj, \A x \in V : adj[x] \in SUBSET V, NEW v \in V, NEW m \in Nat
    PROVE  \E f : AreBalls(adj, v, m, f)
<1> DEFINE D == 0..m
           B == {0}
           W == SUBSET V
           Larger(s) == UNION {{x} \cup adj[x] : x \in s}
           rank == [k \in D |-> k]
           pre == [k \in D |-> IF k = 0 THEN 0 ELSE k - 1]
           step == [e \in D \X W |-> Larger(e[2])]
<1>1. rank \in [D -> Nat] /\ pre \in [D -> D] /\ {v} \in W
  OBVIOUS
<1>2. step \in [D \X W -> W]
  <2>1. \A s \in W : Larger(s) \in W
    OBVIOUS
  <2> HIDE DEF Larger, D
  <2> QED
    BY <2>1
<1>3. \A k \in D \ B : rank[pre[k]] < rank[k]
  OBVIOUS
<1>4. IsRecursion(D, B, W, rank, pre, {v}, step)
  BY <1>1, <1>2, <1>3 DEF IsRecursion
<1>5. PICK f \in [D -> W] : \A k \in D : f[k] = IF k \in B THEN {v} ELSE step[<<k, f[pre[k]]>>]
  <2> HIDE DEF D, B, W, rank, pre, step
  <2> QED
    BY <1>4, RecursiveFunction
<1>6. ASSUME NEW k \in D PROVE f[k] = IF k = 0 THEN {v} ELSE Larger(f[k - 1])
  <2>1. CASE k = 0
    BY <1>5, <2>1
  <2>2. CASE k # 0
    <3>1. k - 1 \in D /\ pre[k] = k - 1 /\ k \notin B
      BY <2>2
    <3>2. f[k] = step[<<k, f[k - 1]>>] /\ f[k - 1] \in W
      BY <1>5, <3>1
    <3> HIDE DEF Larger
    <3>3. step[<<k, f[k - 1]>>] = Larger(f[k - 1])
      BY <3>2
    <3> QED
      BY <2>2, <3>2, <3>3
  <2> QED
    BY <2>1, <2>2
<1>7. f = [k \in 0..m |-> IF k = 0 THEN {v} ELSE Larger(f[k - 1])]
  <2>1. f = [k \in D |-> f[k]]
    BY <1>5
  <2> HIDE DEF Larger
  <2> QED
    BY <1>6, <2>1
<1> QED
  BY <1>7 DEF AreBalls

(***************************************************************************)
(* Vertices at the same distance from v are alike for it: the successors   *)
(* of v, apart from itself, are those at distance 1.                       *)
(***************************************************************************)
LEMMA DistanceTells ==
    ASSUME NEW G, IsFiniteSet(Vertices(G)), Cardinality(Vertices(G)) > 1,
           \A x \in Vertices(G) : G.adj[x] \in SUBSET Vertices(G), NEW v \in Vertices(G)
    PROVE  /\ \A x \in Vertices(G) : Distances(G, v)[x] \in Nat
           /\ \A x, y \in Vertices(G) : Distances(G, v)[x] = Distances(G, v)[y] => Alike(G, {v}, x, y)
<1> DEFINE V == Vertices(G)
           m == Cardinality(V)
           adj == G.adj
           E(b) == b = [k \in 0..m |-> IF k = 0 THEN {v} ELSE UNION {{x} \cup adj[x] : x \in b[k - 1]}]
           ball == CHOOSE b : E(b)
           out(x) == {k \in 0..(m - 1) : x \notin ball[k]}
<1>1. m \in Nat /\ m > 1
  BY FS_CardinalityType
<1>2. E(ball)
  <2>1. \E b : E(b)
    <3> HIDE DEF m, V, adj
    <3>1. \A x \in V : adj[x] \in SUBSET V
      BY DEF V, adj
    <3>2. v \in V
      BY DEF V
    <3>3. PICK f : AreBalls(adj, v, m, f)
      BY <1>1, <3>1, <3>2, BallsExist
    <3>4. E(f)
      BY <3>3 DEF AreBalls
    <3> QED
      BY <3>4
  <2> HIDE DEF E
  <2> QED
    BY <2>1
<1>3. \A x \in V : Distances(G, v)[x] = Cardinality(out(x))
  BY DEF Distances
<1> HIDE DEF ball, m, V, adj
<1>4. ball[0] = {v} /\ \A k \in 1..m : ball[k] = UNION {{x} \cup adj[x] : x \in ball[k - 1]}
  <2> DEFINE Larger(s) == UNION {{x} \cup adj[x] : x \in s}
  <2>1. ball = [k \in 0..m |-> IF k = 0 THEN {v} ELSE Larger(ball[k - 1])]
    BY <1>2
  <2> HIDE DEF Larger
  <2>2. \A k \in 0..m : ball[k] = IF k = 0 THEN {v} ELSE Larger(ball[k - 1])
    BY <2>1
  <2>3. 0 \in 0..m /\ \A k \in 1..m : k \in 0..m /\ k # 0
    BY <1>1
  <2> QED
    BY <2>2, <2>3 DEF Larger
<1>5. \A k \in 0..m : v \in ball[k]
  <2> DEFINE P == {k \in Nat : k \in 0..m => v \in ball[k]}
  <2>1. 0 \in P
    BY <1>4
  <2>2. ASSUME NEW k \in P PROVE k + 1 \in P
    <3>1. k \in Nat
      OBVIOUS
    <3>2. ASSUME k + 1 \in 0..m PROVE v \in ball[k + 1]
      <4>1. k \in 0..m /\ k + 1 \in 1..m /\ (k + 1) - 1 = k
        BY <1>1, <3>1, <3>2
      <4>2. v \in ball[k]
        BY <4>1
      <4> QED
        BY <1>4, <4>1, <4>2
    <3> QED
      BY <3>1, <3>2
  <2>3. P \in SUBSET Nat
    OBVIOUS
  <2>4. P = Nat
    <3> HIDE DEF P
    <3> QED
      BY <2>1, <2>2, <2>3, NatInd
  <2> QED
    BY <1>1, <2>4
<1>6. \A k \in 1..m : {v} \cup adj[v] \subseteq ball[k]
  <2> TAKE k \in 1..m
  <2>1. k - 1 \in 0..m
    BY <1>1
  <2> QED
    BY <1>4, <1>5, <2>1
<1>7. ball[1] = {v} \cup adj[v]
  BY <1>1, <1>4
<1>8. ASSUME NEW x PROVE IsFiniteSet(out(x)) /\ Cardinality(out(x)) \in Nat
  <2>1. IsFiniteSet(0..(m - 1)) /\ out(x) \in SUBSET (0..(m - 1))
    BY <1>1, FS_Interval
  <2> QED
    BY <2>1, FS_Subset, FS_CardinalityType
<1>9. Cardinality(out(v)) = 0
  <2>1. out(v) = {}
    BY <1>1, <1>5
  <2> QED
    BY <2>1, FS_EmptySet
<1>10. ASSUME NEW x \in adj[v], x # v PROVE Cardinality(out(x)) = 1
  <2>1. 0 \in out(x)
    BY <1>1, <1>4, <1>10
  <2>2. \A k \in 1..m : x \in ball[k]
    BY <1>6
  <2>3. out(x) = {0}
    BY <1>1, <2>1, <2>2
  <2> QED
    BY <2>3, FS_Singleton
<1>11. ASSUME NEW x, x \notin adj[v], x # v PROVE Cardinality(out(x)) # 0 /\ Cardinality(out(x)) # 1
  <2>1. 0 \in out(x) /\ 1 \in out(x)
    BY <1>1, <1>4, <1>7, <1>11
  <2>2. ~\E z : out(x) = {z}
    BY <2>1
  <2>3. out(x) # {} /\ IsFiniteSet(out(x))
    BY <1>8, <2>1
  <2> HIDE DEF out
  <2> QED
    BY <2>2, <2>3, FS_Singleton, FS_EmptySet
<1> HIDE DEF out
<1>12. ASSUME NEW x \in V, NEW y \in V, Cardinality(out(x)) = Cardinality(out(y)) PROVE Alike(G, {v}, x, y)
  <2>1. CASE x = v \/ y = v
    <3>1. x = y
      BY <1>9, <1>10, <1>11, <1>12, <2>1
    <3> QED
      BY <3>1, AlikeTrivial
  <2>2. CASE x # v /\ y # v
    <3>1. x \in adj[v] <=> y \in adj[v]
      BY <1>10, <1>11, <1>12, <2>2
    <3>2. {z \in {v} : x \in G.adj[z]} = {z \in {v} : y \in G.adj[z]}
      BY <3>1 DEF adj
    <3> QED
      BY <3>2 DEF Alike, Sources
  <2> QED
    BY <2>1, <2>2
<1> QED
  BY <1>3, <1>8, <1>12 DEF V

\* The beginning of refine_sg, which may take a singleton from the queue and divide by distance.
LEMMA RefineBeginKeeps ==
    ASSUME NEW G, IsColoredGraph(G), RefInv(G, ref), RefineBegin(G)
    PROVE  RefInv(G, ref') /\ ref'.part = ref.part
<1> DEFINE V == Vertices(G)
           part == ref.part
           q == ref.queue[1]
           v == CHOOSE x \in DOMAIN part : part[x] = q
           byDistance ==
               /\ ref.level <= 2
               /\ Len(ref.queue) = 1
               /\ CellSize(part, q) = 1
               /\ NumCells(part) <= Cardinality(DOMAIN part) \div 8
           large == LargeCells(part)
<1>1. /\ ref.step = "start"
      /\ ref' = IF byDistance
                THEN [ref EXCEPT !.step = "loop", !.queue = <<>>, !.by = "distance",
                                 !.val = Distances(G, v), !.cells = Ascending(large)]
                ELSE [ref EXCEPT !.step = "loop"]
  BY DEF RefineBegin
<1>2. /\ ref = [step |-> ref.step, level |-> ref.level, part |-> ref.part, queue |-> ref.queue, code |-> ref.code,
                outer |-> ref.outer, by |-> ref.by, val |-> ref.val, cells |-> ref.cells]
      /\ IsPartition(V, part)
      /\ ref.queue \in Seq(Nat)
      /\ ref.cells = <<>>
      /\ Determined(G, part, ToSet(ref.queue), {})
  BY <1>1 DEF RefInv
<1>3. IsFiniteSet(V) /\ DOMAIN part = V /\ \A x \in V : G.adj[x] \in SUBSET V
  BY <1>2, GraphVertices DEF IsPartition
<1>4. CASE ~byDistance
  <2>1. /\ ref'.step = "loop" /\ ref'.part = ref.part /\ ref'.queue = ref.queue /\ ref'.cells = <<>>
        /\ ref' = [step |-> ref'.step, level |-> ref'.level, part |-> ref'.part, queue |-> ref'.queue,
                   code |-> ref'.code, outer |-> ref'.outer, by |-> ref'.by, val |-> ref'.val, cells |-> ref'.cells]
    BY <1>1, <1>2, <1>4
  <2>2. ToldApart(G, ref', {})
    BY AlikeTrivial DEF ToldApart
  <2>3. \E X \in SUBSET V : Determined(G, ref'.part, ToSet(ref'.queue), X) /\ ToldApart(G, ref', X)
    <3>1. {} \in SUBSET V
      OBVIOUS
    <3> QED
      BY <1>2, <2>1, <2>2, <3>1
  <2>4. ref'.cells \in Seq(CellStarts(ref'.part))
    BY <2>1
  <2> HIDE DEF byDistance
  <2> QED
    BY <1>2, <2>1, <2>3, <2>4 DEF RefInv
<1>5. CASE byDistance
  <2>1. /\ ref'.step = "loop" /\ ref'.part = ref.part /\ ref'.queue = <<>> /\ ref'.cells = Ascending(large)
        /\ ref'.val = Distances(G, v)
        /\ ref' = [step |-> ref'.step, level |-> ref'.level, part |-> ref'.part, queue |-> ref'.queue,
                   code |-> ref'.code, outer |-> ref'.outer, by |-> ref'.by, val |-> ref'.val, cells |-> ref'.cells]
    BY <1>1, <1>2, <1>5
  <2>2. ref.queue = <<q>> /\ ToSet(ref.queue) = {q}
    <3>1. Len(ref.queue) = 1 /\ DOMAIN ref.queue = 1..1
      BY <1>2, <1>5
    <3>2. ref.queue = <<q>>
      BY <1>2, <3>1
    <3>3. {ref.queue[i] : i \in 1..1} = {q}
      OBVIOUS
    <3> QED
      BY <3>1, <3>2, <3>3 DEF ToSet
  <2>3. v \in V /\ CellAt(part, q) = {v}
    <3>1. IsFiniteSet(CellAt(part, q)) /\ Cardinality(CellAt(part, q)) = 1
      BY <1>2, <1>3, <1>5, CellsApart DEF CellSize
    <3>2. \E x : CellAt(part, q) = {x}
      BY <3>1, FS_Singleton
    <3>3. \E x \in DOMAIN part : part[x] = q
      BY <3>2 DEF CellAt
    <3>4. v \in DOMAIN part /\ part[v] = q
      BY <3>3
    <3>5. v \in CellAt(part, q)
      BY <3>4 DEF CellAt
    <3> HIDE DEF v, q, part
    <3> QED
      BY <1>3, <3>2, <3>4, <3>5
  <2> HIDE DEF v, q
  <2>4. Cardinality(V) > 1
    <3>1. NumCells(part) \in Nat /\ NumCells(part) # 0
      <4>1. CellStarts(part) = {part[x] : x \in V}
        BY <1>3 DEF CellStarts
      <4>2. IsFiniteSet(CellStarts(part)) /\ CellStarts(part) # {}
        BY <1>3, <2>3, <4>1, ImageFinite
      <4> QED
        BY <4>2, FS_EmptySet, FS_CardinalityType DEF NumCells
    <3>2. Cardinality(V) \in Nat /\ NumCells(part) <= Cardinality(V) \div 8
      BY <1>3, <1>5, FS_CardinalityType
    <3>3. PICK k, l : k = NumCells(part) /\ l = Cardinality(V)
      OBVIOUS
    <3>4. k \in Nat /\ k # 0 /\ l \in Nat /\ k <= l \div 8
      BY <3>1, <3>2, <3>3
    <3>5. l > 1
      BY <3>4
    <3> QED
      BY <3>3, <3>5
  <2>5. /\ \A x \in V : Distances(G, v)[x] \in Nat
        /\ \A x, y \in V : Distances(G, v)[x] = Distances(G, v)[y] => Alike(G, {v}, x, y)
    BY <1>3, <2>3, <2>4, DistanceTells
  <2>6. Ascending(large) \in Seq(CellStarts(part)) /\ ToSet(Ascending(large)) = large
    <3>1. large \in SUBSET CellStarts(part)
      BY DEF LargeCells
    <3> HIDE DEF large, part, V
    <3> QED
      BY <1>2, <1>3, <3>1, AscendingCells
  <2>7. ToldApart(G, ref', {v})
    <3>1. ASSUME NEW x \in V, NEW y \in V, part[x] = part[y],
                 part[x] \notin large \/ Distances(G, v)[x] = Distances(G, v)[y]
          PROVE  Alike(G, {v}, x, y)
      <4>1. {v} \in SUBSET V
        BY <2>3
      <4>2. HitCells(G, part, {v}) \subseteq large
        BY DEF HitCells
      <4>3. CASE part[x] \notin large
        <5>1. part[x] \notin HitCells(G, part, {v})
          BY <4>2, <4>3
        <5> HIDE DEF part
        <5> QED
          BY <1>2, <1>3, <3>1, <4>1, <5>1, UnhitAlike
      <4> QED
        BY <2>5, <3>1, <4>3
    <3> QED
      BY <2>1, <2>6, <3>1 DEF ToldApart
  <2>8. Determined(G, part, {}, {v})
    <3>1. ASSUME NEW x \in V, NEW y \in V, part[x] = part[y], Alike(G, {v}, x, y)
          PROVE  \A c \in CellStarts(part) : Alike(G, CellAt(part, c), x, y)
      <4>1. \A r \in ToSet(ref.queue) : Alike(G, CellAt(part, r), x, y)
        BY <2>2, <2>3, <3>1
      <4>2. Alike(G, {}, x, y)
        BY AlikeTrivial
      <4> HIDE DEF part
      <4> QED
        BY <1>2, <3>1, <4>1, <4>2 DEF Determined
    <3> QED
      BY <3>1 DEF Determined
  <2>9. \E X \in SUBSET V : Determined(G, ref'.part, ToSet(ref'.queue), X) /\ ToldApart(G, ref', X)
    <3>1. {v} \in SUBSET V /\ ToSet(ref'.queue) = {}
      BY <2>1, <2>3 DEF ToSet
    <3> QED
      BY <2>1, <2>7, <2>8, <3>1
  <2>10. ref'.queue \in Seq(Nat) /\ ref'.cells \in Seq(CellStarts(ref'.part)) /\ \A x \in V : ref'.val[x] \in Int
    BY <2>1, <2>5, <2>6
  <2> HIDE DEF byDistance
  <2> QED
    BY <1>2, <2>1, <2>9, <2>10 DEF RefInv
<1> QED
  BY <1>4, <1>5

-----------------------------------------------------------------------------
(* The vertex invariant.                                                   *)

\* The exclusive or is defined by recursion over both numbers, and is a number.
LEMMA XorIs ==
    ASSUME NEW x \in Nat, NEW y \in Nat
    PROVE  Xor[x][y] = IF x = 0 THEN y ELSE 2 * Xor[x \div 2][y \div 2] + ((x + y) % 2)
<1> DEFINE V == [Nat -> Nat]
           B == {0}
           rank == [a \in Nat |-> a]
           pre == [a \in Nat |-> a \div 2]
           base == [b \in Nat |-> b]
           step == [e \in Nat \X V |-> [b \in Nat |-> 2 * e[2][b \div 2] + ((e[1] + b) % 2)]]
           Body(X) == [a \in Nat |-> [b \in Nat |-> IF a = 0 THEN b ELSE 2 * X[a \div 2][b \div 2] + ((a + b) % 2)]]
<1>1. rank \in [Nat -> Nat] /\ pre \in [Nat -> Nat] /\ base \in V /\ \A a \in Nat \ B : rank[pre[a]] < rank[a]
  OBVIOUS
<1>2. step \in [Nat \X V -> V]
  <2>1. ASSUME NEW a \in Nat, NEW g \in V PROVE [b \in Nat |-> 2 * g[b \div 2] + ((a + b) % 2)] \in V
    <3>1. ASSUME NEW b \in Nat PROVE 2 * g[b \div 2] + ((a + b) % 2) \in Nat
      <4>1. b \div 2 \in Nat /\ (a + b) % 2 \in Nat
        OBVIOUS
      <4>2. g[b \div 2] \in Nat
        BY <4>1
      <4> QED
        BY <4>1, <4>2
    <3> QED
      BY <3>1
  <2> QED
    BY <2>1
<1>3. PICK f \in [Nat -> V] : \A a \in Nat : f[a] = IF a \in B THEN base ELSE step[<<a, f[pre[a]]>>]
  <2>1. IsRecursion(Nat, B, V, rank, pre, base, step)
    BY <1>1, <1>2 DEF IsRecursion
  <2> HIDE DEF B, V, rank, pre, base, step
  <2> QED
    BY <2>1, RecursiveFunction
<1>4. f = Body(f)
  <2>1. ASSUME NEW a \in Nat
        PROVE  f[a] = [b \in Nat |-> IF a = 0 THEN b ELSE 2 * f[a \div 2][b \div 2] + ((a + b) % 2)]
    <3>1. CASE a = 0
      <4>1. f[a] = [b \in Nat |-> b]
        BY <1>3, <3>1
      <4> QED
        BY <3>1, <4>1
    <3>2. CASE a # 0
      <4>1. a \div 2 \in Nat /\ pre[a] = a \div 2 /\ a \notin B
        BY <3>2
      <4>2. f[a] = step[<<a, f[a \div 2]>>] /\ f[a \div 2] \in V
        BY <1>3, <4>1
      <4>3. f[a] = [b \in Nat |-> 2 * f[a \div 2][b \div 2] + ((a + b) % 2)]
        BY <4>2
      <4> QED
        BY <3>2, <4>3
    <3> QED
      BY <3>1, <3>2
  <2>2. f = [a \in Nat |-> f[a]]
    BY <1>3
  <2> QED
    BY <2>1, <2>2
<1>5. Xor = Body(Xor)
  <2>1. Xor = CHOOSE X : X = Body(X)
    BY DEF Xor
  <2> HIDE DEF Body
  <2> QED
    BY <1>4, <2>1
<1>6. Xor[x] = [b \in Nat |-> IF x = 0 THEN b ELSE 2 * Xor[x \div 2][b \div 2] + ((x + b) % 2)]
  BY <1>5
<1> HIDE DEF Body
<1> QED
  BY <1>6

\* The exclusive or of two numbers is a number, by induction over the first.
LEMMA XorType ==
    ASSUME NEW x \in Nat, NEW y \in Nat
    PROVE  Xor[x][y] \in Nat
<1> DEFINE Bad == {a \in Nat : \E b \in Nat : Xor[a][b] \notin Nat}
<1>1. Bad = {}
  <2> SUFFICES ASSUME Bad # {} PROVE FALSE
    OBVIOUS
  <2>1. Bad \in SUBSET Nat
    OBVIOUS
  <2> HIDE DEF Bad
  <2>2. PICK a \in Bad : \A c \in Bad : a <= c
    BY <2>1, LeastNat
  <2>3. PICK b \in Nat : Xor[a][b] \notin Nat
    BY DEF Bad
  <2>4. a \in Nat
    BY <2>1
  <2>5. Xor[a][b] = IF a = 0 THEN b ELSE 2 * Xor[a \div 2][b \div 2] + ((a + b) % 2)
    BY <2>4, XorIs
  <2>6. a # 0
    BY <2>3, <2>5
  <2>7. a \div 2 \in Nat /\ a \div 2 < a
    BY <2>4, <2>6
  <2>8. b \div 2 \in Nat
    OBVIOUS
  <2>9. (a + b) % 2 \in Nat
    BY <2>4
  <2>10. ~(a <= a \div 2)
    BY <2>4, <2>7
  <2>11. a \div 2 \notin Bad
    BY <2>2, <2>10
  <2>12. Xor[a \div 2][b \div 2] \in Nat
    BY <2>7, <2>8, <2>11 DEF Bad
  <2>13. PICK u, w : u = Xor[a \div 2][b \div 2] /\ w = (a + b) % 2
    OBVIOUS
  <2>14. u \in Nat /\ w \in Nat /\ Xor[a][b] = 2 * u + w
    BY <2>5, <2>6, <2>9, <2>12, <2>13
  <2> QED
    BY <2>3, <2>14
<1> QED
  BY <1>1

\* The code of a vertex is a number: all of its terms are in the tables.
LEMMA AdjacenciesType ==
    ASSUME NEW G, IsColoredGraph(G), NEW part, IsPartition(Vertices(G), part), NEW x \in Vertices(G)
    PROVE  Adjacencies(G, part)[x] \in Int
<1> DEFINE V == Vertices(G)
           index == [z \in DOMAIN part |-> Cardinality({c \in CellStarts(part) : c <= part[z]})]
           from(z) == {y \in DOMAIN part : z \in G.adj[y]}
<1>1. DOMAIN part = V /\ \A z \in V : part[z] \in Nat
  BY DEF IsPartition
<1>2. PICK k \in 1..MaxVertices : Cardinality(V) = k /\ IsFiniteSet(V) /\ \A z \in V : G.adj[z] \in SUBSET V
  BY GraphVertices
<1>3. \A z \in V : index[z] \in 1..MaxVertices
  <2> TAKE z \in V
  <2> DEFINE S == {c \in CellStarts(part) : c <= part[z]}
  <2>1. CellStarts(part) = {part[y] : y \in V}
    BY <1>1 DEF CellStarts
  <2>2. IsFiniteSet(CellStarts(part)) /\ Cardinality(CellStarts(part)) <= k
    BY <1>2, <2>1, ImageFinite
  <2>3. S \in SUBSET CellStarts(part) /\ part[z] \in S
    BY <1>1, <2>1
  <2>4. index[z] = Cardinality(S)
    BY <1>1
  <2> HIDE DEF S, index
  <2>5. Cardinality(CellStarts(part)) \in Nat /\ Cardinality(S) <= Cardinality(CellStarts(part)) /\ IsFiniteSet(S)
    BY <2>2, <2>3, FS_Subset, FS_CardinalityType
  <2>6. Cardinality(S) \in Nat /\ Cardinality(S) # 0
    BY <2>3, <2>5, FS_EmptySet, FS_CardinalityType
  <2> QED
    BY <1>2, <2>2, <2>4, <2>5, <2>6, MaxVerticesAssumption
<1>4. \A i \in 1..MaxVertices : FUZZ1[i] \in Int /\ FUZZ2[i] \in Int
  <2> TAKE i \in 1..MaxVertices
  <2>1. i \in Nat /\ (i % 4) + 1 \in 1..4
    BY MaxVerticesAssumption
  <2>2. \A j \in 1..4 : Fuzz1[j] \in Nat /\ Fuzz2[j] \in Nat
    BY DEF Fuzz1, Fuzz2
  <2>3. Xor[i][Fuzz1[(i % 4) + 1]] \in Nat /\ Xor[i][Fuzz2[(i % 4) + 1]] \in Nat
    BY <2>1, <2>2, XorType
  <2> QED
    BY <2>3 DEF FUZZ1, FUZZ2
<1> DEFINE s1 == MapThenSumSet(LAMBDA y : FUZZ1[index[y]], from(x))
           s2 == MapThenSumSet(LAMBDA y : FUZZ2[index[y]], G.adj[x])
<1>5. Adjacencies(G, part)[x] = Masked(s1 + s2)
  BY <1>1 DEF Adjacencies
<1>6. from(x) \in SUBSET V /\ G.adj[x] \in SUBSET V
  BY <1>1, <1>2
<1>7. IsFiniteSet(from(x)) /\ IsFiniteSet(G.adj[x])
  BY <1>2, <1>6, FS_Subset
<1> HIDE DEF index, from
<1>8. s1 \in Int
  <2>1. s1 = SumOver(FUZZ1, index, from(x))
    BY DEF SumOver
  <2> HIDE DEF s1
  <2>2. \A y \in from(x) : FUZZ1[index[y]] \in Int
    BY <1>3, <1>4, <1>6
  <2> QED
    BY <1>7, <2>1, <2>2, SumType
<1>9. s2 \in Int
  <2>1. s2 = SumOver(FUZZ2, index, G.adj[x])
    BY DEF SumOver
  <2> HIDE DEF s2
  <2>2. \A y \in G.adj[x] : FUZZ2[index[y]] \in Int
    BY <1>3, <1>4, <1>6
  <2> QED
    BY <1>7, <2>1, <2>2, SumType
<1> HIDE DEF s1, s2
<1> QED
  BY <1>5, <1>8, <1>9 DEF Masked

\* All cells are divided.
LEMMA DividedAll ==
    ASSUME NEW V, IsFiniteSet(V), NEW part, IsPartition(V, part), NEW val, \A x \in V : val[x] \in Int
    PROVE  IsPartition(V, SplitAll(part, val)) /\ Refines(V, SplitAll(part, val), part)
<1> DEFINE C == CellStarts(part)
           fine == [x \in V |-> IF part[x] \in C THEN Fragment(part, val, x) ELSE part[x]]
<1>1. fine = SplitAll(part, val)
  <2>1. DOMAIN part = V
    BY DEF IsPartition
  <2> QED
    BY <2>1 DEF SplitAll, CellStarts
<1> HIDE DEF C
<1>2. PICK f : f = fine
  OBVIOUS
<1>3. f = [x \in V |-> IF part[x] \in C THEN Fragment(part, val, x) ELSE part[x]]
  BY <1>2
<1> HIDE DEF fine
<1>4. IsPartition(V, f) /\ Refines(V, f, part)
  BY <1>3, DividedCells
<1> QED
  BY <1>1, <1>2, <1>4

\* After the vertex invariant the new cells are enough: an equitable partition is refined, and
\* of every cell only the first part keeps its number.
LEMMA NewCellsDetermine ==
    ASSUME NEW G, IsFiniteSet(Vertices(G)), NEW part, IsPartition(Vertices(G), part), IsEquitable(G, part),
           NEW fine, IsPartition(Vertices(G), fine), Refines(Vertices(G), fine, part)
    PROVE  Determined(G, fine, CellStarts(fine) \ CellStarts(part), {})
<1> DEFINE V == Vertices(G)
           R == CellStarts(fine) \ CellStarts(part)
<1>1. DOMAIN part = V /\ DOMAIN fine = V
  BY DEF IsPartition
<1>2. Determined(G, part, {}, {})
  BY DEF Determined, IsEquitable
<1>3. ASSUME NEW c \in CellStarts(part)
      PROVE  \E o \in PartsOf(part, fine, c) : PartsOf(part, fine, c) \ {o} \subseteq R
  <2>1. PICK x \in V : c = part[x]
    BY <1>1 DEF CellStarts
  <2>2. PICK w \in V : part[w] = part[x] /\ fine[w] = part[x]
    BY FirstPart
  <2>3. c \in PartsOf(part, fine, c)
    BY <1>1, <2>1, <2>2 DEF PartsOf, CellAt
  <2>4. ASSUME NEW z \in V, part[z] = c, fine[z] # c PROVE fine[z] \in R
    BY <2>4, NewParts
  <2>5. PartsOf(part, fine, c) \ {c} \subseteq R
    <3> HIDE DEF R
    <3> QED
      BY <1>1, <2>4 DEF PartsOf, CellAt
  <2> QED
    BY <2>3, <2>5
<1> HIDE DEF R
<1>4. AllButOne(part, fine, {}, R)
  BY <1>3 DEF AllButOne
<1>5. Determined(G, fine, R, {})
  BY <1>2, <1>4, AllPartsButOne
<1> QED
  BY <1>5 DEF R

\* StartDoref begins where any cell is told apart by the active ones.
LEMMA StartKeeps ==
    ASSUME NEW G, IsFiniteSet(Vertices(G)), NEW part, IsPartition(Vertices(G), part),
           NEW active \in SUBSET CellStarts(part), Determined(G, part, active, {}), NEW level, NEW r,
           r = [StartDoref(part, active, level) EXCEPT !.outer = r.outer]
    PROVE  RefInv(G, r) /\ r.part = part /\ r.level = level /\ r.step = "start"
<1>1. /\ r.step = "start" /\ r.part = part /\ r.queue = Ascending(active) /\ r.cells = <<>> /\ r.level = level
      /\ r = [step |-> r.step, level |-> r.level, part |-> r.part, queue |-> r.queue, code |-> r.code,
              outer |-> r.outer, by |-> r.by, val |-> r.val, cells |-> r.cells]
  BY DEF StartDoref
<1>2. Ascending(active) \in Seq(CellStarts(part)) /\ ToSet(Ascending(active)) = active
  BY AscendingCells
<1>3. CellStarts(part) \in SUBSET Nat
  BY DEF IsPartition, CellStarts
<1>4. r.queue \in Seq(Nat) /\ r.cells \in Seq(CellStarts(r.part))
  BY <1>1, <1>2, <1>3
<1> QED
  BY <1>1, <1>2, <1>4 DEF RefInv

\* doref keeps its invariant when it applies adjacencies_sg and starts to refine again.
LEMMA ApplyInvariantKeeps ==
    ASSUME NEW G, IsColoredGraph(G), RefInv(G, ref), ApplyInvariant(G)
    PROVE  RefInv(G, ref') /\ Refines(Vertices(G), ref'.part, ref.part)
<1> DEFINE V == Vertices(G)
           part == ref.part
           finer == SplitAll(part, Adjacencies(G, part))
           new == CellStarts(finer) \ CellStarts(part)
<1>1. /\ ref.step = "invariant"
      /\ ref' = IF new = {} THEN [ref EXCEPT !.step = "done"]
                ELSE [StartDoref(finer, new, ref.level) EXCEPT !.outer = ref.code]
  BY DEF ApplyInvariant
<1>2. /\ ref = [step |-> ref.step, level |-> ref.level, part |-> ref.part, queue |-> ref.queue, code |-> ref.code,
                outer |-> ref.outer, by |-> ref.by, val |-> ref.val, cells |-> ref.cells]
      /\ IsPartition(V, part) /\ IsEquitable(G, part)
      /\ ref.queue \in Seq(Nat) /\ ref.cells = <<>>
  BY <1>1 DEF RefInv
<1>3. IsFiniteSet(V) /\ \A x \in V : part[x] \in Nat
  BY <1>2, GraphVertices DEF IsPartition
<1>4. CASE new = {}
  <2>1. /\ ref'.step = "done" /\ ref'.part = ref.part /\ ref'.queue = ref.queue /\ ref'.cells = <<>>
        /\ ref' = [step |-> ref'.step, level |-> ref'.level, part |-> ref'.part, queue |-> ref'.queue,
                   code |-> ref'.code, outer |-> ref'.outer, by |-> ref'.by, val |-> ref'.val, cells |-> ref'.cells]
    BY <1>1, <1>2, <1>4
  <2>2. ref'.cells \in Seq(CellStarts(ref'.part))
    BY <2>1
  <2>3. Refines(V, part, part)
    BY DEF Refines
  <2> HIDE DEF V
  <2> QED
    BY <1>2, <2>1, <2>2, <2>3 DEF RefInv, V
<1>5. CASE new # {}
  <2>1. IsPartition(V, finer) /\ Refines(V, finer, part)
    <3>1. \A x \in V : Adjacencies(G, part)[x] \in Int
      BY <1>2, AdjacenciesType
    <3> HIDE DEF V
    <3> QED
      BY <1>2, <1>3, <3>1, DividedAll
  <2>2. Determined(G, finer, new, {})
    BY <1>2, <1>3, <2>1, NewCellsDetermine
  <2>3. ref' = [StartDoref(finer, new, ref.level) EXCEPT !.outer = ref.code]
    BY <1>1, <1>5
  <2>4. ref'.outer = ref.code
    BY <2>3 DEF StartDoref
  <2>5. ref' = [StartDoref(finer, new, ref.level) EXCEPT !.outer = ref'.outer] /\ new \in SUBSET CellStarts(finer)
    BY <2>3, <2>4
  <2> HIDE DEF new, finer
  <2>6. RefInv(G, ref') /\ ref'.part = finer
    BY <1>3, <2>1, <2>2, <2>5, StartKeeps
  <2> QED
    BY <2>1, <2>6
<1> QED
  BY <1>4, <1>5

(***************************************************************************)
(* Every step of doref, in whatever order the cells are taken, keeps its   *)
(* invariant and makes the partition finer (refine_sg, nausparse.c:648,    *)
(* and doref, nautil.c:481).                                               *)
(***************************************************************************)
THEOREM DorefKeeps ==
    ASSUME NEW G, IsColoredGraph(G), RefInv(G, ref), Doref(G)
    PROVE  RefInv(G, ref') /\ Refines(Vertices(G), ref'.part, ref.part)
<1>1. IsPartition(Vertices(G), ref.part)
  BY DEF RefInv
<1>2. Refines(Vertices(G), ref.part, ref.part)
  BY DEF Refines
<1>3. CASE RefineBegin(G)
  <2>1. RefInv(G, ref') /\ ref'.part = ref.part
    BY <1>3, RefineBeginKeeps
  <2> QED
    BY <1>2, <2>1
<1>4. CASE RefineStep(G)
  <2>1. RefInv(G, ref') /\ ref'.part = ref.part
    BY <1>4, RefineStepKeeps
  <2> QED
    BY <1>2, <2>1
<1>5. CASE SplitNext
  BY <1>5, SplitNextKeeps
<1>6. CASE RefineEnd
  <2>1. RefInv(G, ref') /\ ref'.part = ref.part
    BY <1>6, RefineEndKeeps
  <2> QED
    BY <1>2, <2>1
<1>7. CASE ApplyInvariant(G)
  BY <1>7, ApplyInvariantKeeps
<1> QED
  BY <1>3, <1>4, <1>5, <1>6, <1>7 DEF Doref

-----------------------------------------------------------------------------
(* The inductive invariant.                                                *)

\* The graphs that are asked.
Graphs == {G \in UNION {ToSet(w) : w \in Workloads} : IsColoredGraph(G)}

Levels ==
    [gca_first : Nat, gca_canon : Nat, eqlev_first : Int, eqlev_canon : Int, comp_canon : -1..1,
     noncheaplevel : Nat, allsamelevel : Int, cosetindex : Int]

\* The frames of nodes whose target cell has several vertices and whose partition is equitable.
Frames(G) ==
    [first : BOOLEAN, level : Nat, part : [Vertices(G) -> Nat], tc : Nat, tcell : SUBSET Vertices(G),
     size : Nat, tv1 : Int, tv : Int, index : Nat]
GoodFrames(G) ==
    {f \in Frames(G) :
        /\ IsPartition(Vertices(G), f.part)
        /\ IsEquitable(G, f.part)
        /\ f.tc \in LargeCells(f.part)
        /\ f.tcell \subseteq CellAt(f.part, f.tc)
        /\ f.tv \in CellAt(f.part, f.tc) \cup {-1}}

\* What every step relies on: the frames are good, and at a node doref keeps its own invariant.
ShapeInv ==
    /\ pc \in {"idle", "doref", "process", "loop", "return"}
    /\ todo \in Seq(Graphs)
    /\ node \in [first : BOOLEAN, level : Nat, tc : Int]
    /\ lev \in Levels
    /\ samerows \in Nat
    /\ pc = "idle" => stack = <<>>
    /\ pc # "idle" => IsColoredGraph(graph) /\ stack \in Seq(GoodFrames(graph))
    /\ pc \in {"doref", "process"} => RefInv(graph, ref)
    /\ pc = "process" =>
           ref.step = "done" /\ ~node.first /\ (Worse \/ Leaf \/ node.tc \in LargeCells(ref.part))
    /\ pc = "loop" => stack # <<>>

\* The levels of the stack: every node has more cells than its parent.
LevelInv ==
    /\ pc \in {"doref", "process"} => node.level = Len(stack) + 1 /\ node.level <= NumCells(ref.part)
    /\ \A i \in DOMAIN stack : stack[i].level = i /\ i <= NumCells(stack[i].part)
    /\ node.level \in 0..(n + 1)

\* A frame below another one of the first path is at its first child.
AtFirstChild(f) == f.first /\ f.tv = f.tv1
PathInv ==
    /\ \A i \in 2..Len(stack) : stack[i].first => AtFirstChild(stack[i - 1])
    /\ pc = "doref" /\ node.first /\ stack # <<>> => AtFirstChild(Top)

\* Until the first leaf is found nothing was pruned, and there is nothing but the first path.
FirstLeafInv ==
    pc # "idle" /\ lev.eqlev_canon = -1 =>
        /\ \A x \in Vertices(graph) : orbits[x] = x
        /\ \/ pc = "doref" /\ node.first
           \/ pc = "loop" /\ Top.first /\ Top.tv = -1 /\ Top.tv1 = -1 /\ Top.tcell = CellAt(Top.part, Top.tc)

\* All orderings below level noncheaplevel may be taken for equivalent, and it is no deeper than the node.
CheapInv ==
    /\ pc # "idle" => lev.eqlev_canon >= -1 /\ lev.noncheaplevel >= 1
    /\ pc \in {"doref", "process", "loop"} => lev.noncheaplevel <= Len(stack) + 1

\* The levels that a leaf returns to are levels of its ancestors, that of the first leaf on the first path.
AncestorInv ==
    Searching =>
        /\ lev.gca_first >= 1
        /\ \/ lev.gca_first <= Len(stack) /\ stack[lev.gca_first].first
           \/ pc = "return" /\ (stack # <<>> => AtFirstChild(Top))
        /\ pc \in {"doref", "process", "loop"} => lev.gca_canon <= Len(stack)

\* The first leaf and the best one list the vertices of the graph.
LeavesInv ==
    Searching =>
        /\ DOMAIN first.lab = Vertices(graph)
        /\ DOMAIN bsf.lab = Vertices(graph)
        /\ first = [lab |-> first.lab, code |-> first.code, tc |-> first.tc]
        /\ bsf = [lab |-> bsf.lab, code |-> bsf.code, level |-> bsf.level]

\* The stored pairs are of sets of vertices of the graph, and no more than there is room for.
PairsInv ==
    /\ pairs \in Seq((SUBSET Vertices(graph)) \X (SUBSET Vertices(graph)))
    /\ Len(pairs) <= MaxPairs

\* A return goes to a level of the stack or past it, and between calls to none.
ReturnInv ==
    /\ rtn \in 0..n
    /\ pc = "idle" => rtn = 0
    /\ pc = "return" => rtn <= Len(stack)

\* During a search the rows counted in samerows are those of the best leaf.
RowsInv ==
    Searching => \A i \in Vertices(graph) : i < samerows => canong[i] = CanonRow(graph, bsf.lab, i)

-----------------------------------------------------------------------------
(* Sequences that change at their end, as the stack does.                  *)

\* A return or Shortprune takes the last place off: what the front of a sequence holds.
LEMMA FrontIs ==
    ASSUME NEW T, NEW s \in Seq(T), s # <<>>
    PROVE  /\ Len(s) \in Nat /\ Len(s) > 0 /\ s[Len(s)] \in T
           /\ Front(s) \in Seq(T) /\ Len(Front(s)) = Len(s) - 1
           /\ \A i \in 1..(Len(s) - 1) : Front(s)[i] = s[i]
<1>1. Len(s) \in Nat /\ Len(s) > 0 /\ s[Len(s)] \in T /\ \A i \in 1..Len(s) : s[i] \in T
  OBVIOUS
<1>2. PICK m : m = Len(s) - 1
  OBVIOUS
<1>3. m \in Nat /\ m + 1 = Len(s)
  BY <1>1, <1>2
<1>4. Front(s) = [i \in 1..m |-> s[i]]
  BY <1>1, <1>2, <1>3 DEF Front
<1>5. Front(s) \in [1..m -> T]
  BY <1>1, <1>3, <1>4
<1>6. Front(s) \in Seq(T) /\ Len(Front(s)) = m
  BY <1>3, <1>5, FunctionSeq
<1>7. \A i \in 1..m : Front(s)[i] = s[i]
  BY <1>4
<1> QED
  BY <1>1, <1>2, <1>6, <1>7

\* A node that is entered, or a pair that is stored, comes after all that were there.
LEMMA AppendIs ==
    ASSUME NEW T, NEW s \in Seq(T), NEW x \in T
    PROVE  /\ Append(s, x) \in Seq(T) /\ Len(Append(s, x)) = Len(s) + 1 /\ Len(s) \in Nat
           /\ \A i \in 1..Len(s) : Append(s, x)[i] = s[i]
           /\ Append(s, x)[Len(s) + 1] = x
           /\ Append(s, x) # <<>>
OBVIOUS

\* The loops over a target cell write their own frame, the last one, and no other.
LEMMA SetLast ==
    ASSUME NEW T, NEW s \in Seq(T), s # <<>>, NEW x \in T, NEW t, t = [s EXCEPT ![Len(s)] = x]
    PROVE  /\ t \in Seq(T) /\ Len(t) = Len(s) /\ t # <<>>
           /\ \A i \in 1..(Len(s) - 1) : t[i] = s[i]
           /\ t[Len(s)] = x
<1>1. PICK m : m = Len(s)
  OBVIOUS
<1>2. m \in Nat /\ m > 0 /\ DOMAIN s = 1..m /\ \A i \in 1..m : s[i] \in T
  BY <1>1
<1>3. t \in [1..m -> T] /\ t[m] = x /\ \A i \in 1..(m - 1) : t[i] = s[i]
  BY <1>1, <1>2
<1>4. t \in Seq(T) /\ Len(t) = m
  BY <1>2, <1>3, FunctionSeq
<1>5. t # <<>>
  BY <1>2, <1>4
<1> QED
  BY <1>1, <1>3, <1>4, <1>5

-----------------------------------------------------------------------------
(* Cells with several vertices.                                            *)

\* A partition that is not discrete has a large cell,
LEMMA LargeCellExists ==
    ASSUME NEW V, IsFiniteSet(V), NEW part, IsPartition(V, part), ~Discrete(part)
    PROVE  LargeCells(part) # {}
<1>1. DOMAIN part = V /\ \A x \in V : part[x] \in Nat
  BY DEF IsPartition
<1> SUFFICES ASSUME LargeCells(part) = {} PROVE FALSE
  OBVIOUS
<1>2. \A x, y \in V : part[x] = part[y] => x = y
  <2> SUFFICES ASSUME NEW x \in V, NEW y \in V, part[x] = part[y] PROVE x = y
    OBVIOUS
  <2>1. part[x] \in CellStarts(part) /\ ~(CellSize(part, part[x]) > 1)
    BY <1>1 DEF LargeCells, CellStarts
  <2>2. CellSize(part, part[x]) \in Nat /\ CellSize(part, part[x]) > 0 /\ IsFiniteSet(CellAt(part, part[x]))
    BY CellsApart
  <2>3. CellSize(part, part[x]) = 1
    BY <2>1, <2>2
  <2>4. \E z : CellAt(part, part[x]) = {z}
    BY <2>2, <2>3, FS_Singleton DEF CellSize
  <2>5. x \in CellAt(part, part[x]) /\ y \in CellAt(part, part[x])
    BY <1>1 DEF CellAt
  <2> QED
    BY <2>4, <2>5
<1>3. CellStarts(part) = {part[x] : x \in V}
  BY <1>1 DEF CellStarts
<1>4. part \in Surjection(V, CellStarts(part))
  <2>1. part \in [V -> CellStarts(part)]
    BY <1>1, <1>3 DEF IsPartition
  <2> QED
    BY <1>3, <2>1 DEF Surjection
<1>5. part \in Injection(V, CellStarts(part))
  BY <1>2, <1>4 DEF Injection, Surjection, IsInjective
<1>6. Cardinality(V) = Cardinality(CellStarts(part))
  <2>1. IsFiniteSet(CellStarts(part))
    BY <1>3, ImageFinite
  <2>2. part \in Bijection(V, CellStarts(part))
    BY <1>4, <1>5 DEF Bijection
  <2> QED
    BY <2>1, <2>2, FS_Bijection DEF ExistsBijection
<1> QED
  BY <1>1, <1>6 DEF Discrete, NumCells

\* and one with a large cell is not discrete.
LEMMA LargeCellFewer ==
    ASSUME NEW V, IsFiniteSet(V), NEW part, IsPartition(V, part), NEW c \in LargeCells(part)
    PROVE  /\ NumCells(part) \in Nat /\ NumCells(part) < Cardinality(V)
           /\ c \in Nat /\ c \in CellStarts(part) /\ CellAt(part, c) # {} /\ CellAt(part, c) \subseteq V
<1>1. DOMAIN part = V /\ \A x \in V : part[x] \in Nat
  BY DEF IsPartition
<1>2. c \in CellStarts(part) /\ CellSize(part, c) > 1
  BY DEF LargeCells
<1>3. c \in Nat /\ CellAt(part, c) # {} /\ CellAt(part, c) \subseteq V
  BY <1>1, <1>2 DEF CellStarts, CellAt
<1>4. CellStarts(part) = {part[x] : x \in V}
  BY <1>1 DEF CellStarts
<1>5. IsFiniteSet(CellStarts(part)) /\ Cardinality(CellStarts(part)) <= Cardinality(V)
  BY <1>4, ImageFinite
<1>6. NumCells(part) # Cardinality(V)
  <2> SUFFICES ASSUME NumCells(part) = Cardinality(V) PROVE FALSE
    OBVIOUS
  <2>1. \A x, y \in V : part[x] = part[y] => x = y
    BY <1>1, DiscreteCells DEF Discrete
  <2>2. PICK x \in CellAt(part, c) : TRUE
    BY <1>3
  <2>3. CellAt(part, c) = {x}
    BY <1>1, <2>1, <2>2 DEF CellAt
  <2>4. CellSize(part, c) = 1
    BY <2>3, FS_Singleton DEF CellSize
  <2> QED
    BY <1>2, <2>4
<1> QED
  BY <1>2, <1>3, <1>5, <1>6, FS_CardinalityType DEF NumCells

\* targetcell_sg finds a large cell, whatever the hint.
LEMMA TargetCellIs ==
    ASSUME NEW V, IsFiniteSet(V), NEW part, IsPartition(V, part), ~Discrete(part), NEW hint
    PROVE  TargetCell(part, hint) \in LargeCells(part)
<1>1. CASE hint \in CellStarts(part) /\ CellSize(part, hint) > 1
  BY <1>1 DEF TargetCell, LargeCells
<1>2. CASE ~(hint \in CellStarts(part) /\ CellSize(part, hint) > 1)
  <2>1. TargetCell(part, hint) = Min(LargeCells(part))
    BY <1>2 DEF TargetCell, LargeCells
  <2>2. LargeCells(part) \in SUBSET Nat
    BY DEF LargeCells, CellStarts, IsPartition
  <2>3. LargeCells(part) # {}
    BY LargeCellExists
  <2> QED
    BY <2>1, <2>2, <2>3, MinIs
<1> QED
  BY <1>1, <1>2

\* breakout divides a cell into a vertex and the others.
LEMMA BreakoutDivides ==
    ASSUME NEW V, IsFiniteSet(V), NEW part, IsPartition(V, part), NEW tv \in V
    PROVE  /\ IsPartition(V, Breakout(part, tv))
           /\ Refines(V, Breakout(part, tv), part)
           /\ \A x \in V : Breakout(part, tv)[x] =
                  IF part[x] = part[tv] /\ x # tv THEN part[x] + 1 ELSE part[x]
<1> DEFINE Before(x, y) == part[x] < part[y] \/ (part[x] = part[y] /\ x = tv /\ y # tv)
           R == {p \in V \X V : Before(p[1], p[2])}
<1>1. DOMAIN part = V /\ \A x \in V : part[x] \in Nat
  BY DEF IsPartition
<1>2. PICK fine : fine = Breakout(part, tv)
  OBVIOUS
<1>3. fine = [x \in V |-> IF part[x] = part[tv] /\ x # tv THEN part[x] + 1 ELSE part[x]]
  BY <1>1, <1>2 DEF Breakout
<1>4. \A x, y \in V : <<x, y>> \in R <=> part[x] < part[y] \/ (part[x] = part[y] /\ x = tv /\ y # tv)
  <2> HIDE DEF Before
  <2>1. \A x, y \in V : <<x, y>> \in R <=> Before(x, y)
    OBVIOUS
  <2> QED
    BY <2>1 DEF Before
<1> HIDE DEF R
<1>5. WeakOrder(V, R)
  <2>1. \A x \in V : <<x, x>> \notin R
    BY <1>1, <1>4
  <2>2. \A x, y, z \in V : <<x, y>> \in R /\ <<y, z>> \in R => <<x, z>> \in R
    BY <1>1, <1>4
  <2>3. \A x, y, z \in V : <<x, z>> \in R => <<x, y>> \in R \/ <<y, z>> \in R
    BY <1>1, <1>4
  <2> QED
    BY <2>1, <2>2, <2>3 DEF WeakOrder
<1>6. ASSUME NEW x \in V PROVE fine[x] = RankIn(V, R, x)
  <2> DEFINE B == {y \in V : part[y] < part[x]}
  <2>1. part[x] = Cardinality(B)
    BY DEF IsPartition
  <2>2. CASE part[x] = part[tv] /\ x # tv
    <3>1. {y \in V : <<y, x>> \in R} = B \cup {tv}
      BY <1>1, <1>4, <2>2
    <3>2. B \in SUBSET V /\ tv \notin B
      BY <1>1, <2>2
    <3>3. Cardinality(B \cup {tv}) = Cardinality(B) + 1
      <4> HIDE DEF B
      <4> QED
        BY <3>2, FS_Subset, FS_AddElement
    <3>4. fine[x] = part[x] + 1
      BY <1>3, <2>2
    <3> QED
      BY <2>1, <3>1, <3>3, <3>4 DEF RankIn
  <2>3. CASE ~(part[x] = part[tv] /\ x # tv)
    <3>1. {y \in V : <<y, x>> \in R} = B
      BY <1>1, <1>4, <2>3
    <3>2. fine[x] = part[x]
      BY <1>3, <2>3
    <3> QED
      BY <2>1, <3>1, <3>2 DEF RankIn
  <2> QED
    BY <2>2, <2>3
<1>7. DOMAIN fine = V /\ fine = [x \in V |-> fine[x]]
  BY <1>3
<1>8. IsPartition(V, fine) /\ \A x, y \in V : fine[x] < fine[y] <=> <<x, y>> \in R
  BY <1>5, <1>6, <1>7, RankPartition
<1>9. Refines(V, fine, part)
  BY <1>4, <1>8 DEF Refines
<1>10. \A x \in V : fine[x] = IF part[x] = part[tv] /\ x # tv THEN part[x] + 1 ELSE part[x]
  BY <1>3
<1> QED
  BY <1>2, <1>8, <1>9, <1>10

(***************************************************************************)
(* The child of a node begins with the new singleton as the only active    *)
(* cell: the rest of its cell, the part left out, is what of the cell is   *)
(* not the singleton.                                                      *)
(***************************************************************************)
LEMMA ChildStarts ==
    ASSUME NEW G, IsColoredGraph(G), NEW part, IsPartition(Vertices(G), part), IsEquitable(G, part),
           NEW tv \in Vertices(G), NEW level, NEW r, r = StartDoref(Breakout(part, tv), {part[tv]}, level)
    PROVE  /\ RefInv(G, r) /\ r.step = "start" /\ r.part = Breakout(part, tv) /\ r.level = level
           /\ IsPartition(Vertices(G), Breakout(part, tv)) /\ Refines(Vertices(G), Breakout(part, tv), part)
<1> DEFINE V == Vertices(G)
<1>1. PICK fine, tc : fine = Breakout(part, tv) /\ tc = part[tv]
  OBVIOUS
<1>2. IsFiniteSet(V) /\ DOMAIN part = V
  BY GraphVertices DEF IsPartition
<1>3. /\ IsPartition(V, fine)
      /\ Refines(V, fine, part)
      /\ \A x \in V : fine[x] = IF part[x] = tc /\ x # tv THEN part[x] + 1 ELSE part[x]
  <2> HIDE DEF V
  <2>1. tv \in V
    BY DEF V
  <2>2. IsPartition(V, part)
    BY DEF V
  <2> QED
    BY <1>1, <1>2, <2>1, <2>2, BreakoutDivides
<1>4. DOMAIN fine = V
  BY <1>3 DEF IsPartition
<1>5. Determined(G, part, {}, {})
  BY DEF Determined, IsEquitable
<1>6. ASSUME NEW c \in CellStarts(part)
      PROVE  \E o \in PartsOf(part, fine, c) : PartsOf(part, fine, c) \ {o} \subseteq {tc}
  <2>1. PICK w \in V : part[w] = c
    BY <1>2 DEF CellStarts
  <2>2. CASE c # tc
    <3>1. PartsOf(part, fine, c) \subseteq {c} /\ c \in PartsOf(part, fine, c)
      BY <1>2, <1>3, <2>1, <2>2 DEF PartsOf, CellAt
    <3> QED
      BY <3>1
  <2>3. CASE c = tc
    <3>1. PartsOf(part, fine, c) \subseteq {tc, tc + 1} /\ tc \in PartsOf(part, fine, c)
      BY <1>1, <1>2, <1>3, <2>3 DEF PartsOf, CellAt
    <3>2. CASE tc + 1 \in PartsOf(part, fine, c)
      BY <3>1, <3>2
    <3>3. CASE tc + 1 \notin PartsOf(part, fine, c)
      BY <3>1, <3>3
    <3> QED
      BY <3>2, <3>3
  <2> QED
    BY <2>2, <2>3
<1>7. AllButOne(part, fine, {}, {tc})
  BY <1>6 DEF AllButOne
<1>8. Determined(G, fine, {tc}, {})
  BY <1>2, <1>3, <1>5, <1>7, AllPartsButOne
<1>9. {tc} \in SUBSET CellStarts(fine)
  BY <1>1, <1>3, <1>4 DEF CellStarts
<1>10. r = [StartDoref(fine, {tc}, level) EXCEPT !.outer = r.outer]
  <2>1. r = StartDoref(fine, {tc}, level)
    BY <1>1
  <2> QED
    BY <2>1 DEF StartDoref
<1>11. RefInv(G, r) /\ r.part = fine /\ r.level = level /\ r.step = "start"
  <2>1. PICK active : active = {tc}
    OBVIOUS
  <2>2. /\ active \in SUBSET CellStarts(fine) /\ Determined(G, fine, active, {})
        /\ r = [StartDoref(fine, active, level) EXCEPT !.outer = r.outer]
    BY <1>8, <1>9, <1>10, <2>1
  <2>3. IsFiniteSet(Vertices(G)) /\ IsPartition(Vertices(G), fine)
    BY <1>2, <1>3
  <2> QED
    BY <2>2, <2>3, StartKeeps
<1> QED
  BY <1>1, <1>3, <1>11

-----------------------------------------------------------------------------
(* The frames.                                                             *)

\* What the fields of a good frame are.
LEMMA GoodFrame ==
    ASSUME NEW G, IsColoredGraph(G), NEW f \in GoodFrames(G)
    PROVE  /\ f \in Frames(G) /\ f.level \in Nat /\ f.tv \in Int /\ f.tv1 \in Int /\ f.first \in BOOLEAN
           /\ f.tcell \in SUBSET Vertices(G) /\ f.tcell \in SUBSET Nat
           /\ IsPartition(Vertices(G), f.part) /\ IsEquitable(G, f.part)
           /\ f.tc \in LargeCells(f.part) /\ f.tc \in Nat
           /\ CellAt(f.part, f.tc) # {} /\ CellAt(f.part, f.tc) \in SUBSET Vertices(G)
           /\ CellAt(f.part, f.tc) \in SUBSET Nat
           /\ f.tcell \subseteq CellAt(f.part, f.tc)
           /\ NumCells(f.part) \in Nat /\ NumCells(f.part) < Cardinality(Vertices(G))
<1>1. /\ f \in Frames(G) /\ IsPartition(Vertices(G), f.part) /\ IsEquitable(G, f.part)
      /\ f.tc \in LargeCells(f.part) /\ f.tcell \subseteq CellAt(f.part, f.tc)
  BY DEF GoodFrames
<1>2. /\ f.level \in Nat /\ f.tv \in Int /\ f.tv1 \in Int /\ f.tcell \in SUBSET Vertices(G) /\ f.tc \in Nat
      /\ f.first \in BOOLEAN
  BY <1>1 DEF Frames
<1>3. IsFiniteSet(Vertices(G)) /\ Vertices(G) \in SUBSET Nat
  <2>1. PICK k \in 1..MaxVertices : Vertices(G) = 0..(k - 1) /\ IsFiniteSet(Vertices(G))
    BY GraphVertices
  <2> QED
    BY <2>1, MaxVerticesAssumption
<1>4. /\ NumCells(f.part) \in Nat /\ NumCells(f.part) < Cardinality(Vertices(G))
      /\ CellAt(f.part, f.tc) # {} /\ CellAt(f.part, f.tc) \subseteq Vertices(G)
  BY <1>1, <1>3, LargeCellFewer
<1> QED
  BY <1>1, <1>2, <1>3, <1>4

\* The top of a stack that is not empty.
LEMMA TopIs ==
    ASSUME ShapeInv, pc # "idle", stack # <<>>
    PROVE  /\ Top \in GoodFrames(graph)
           /\ Len(stack) \in Nat /\ Len(stack) > 0
           /\ Front(stack) \in Seq(GoodFrames(graph)) /\ Len(Front(stack)) = Len(stack) - 1
           /\ \A i \in 1..(Len(stack) - 1) : Front(stack)[i] = stack[i]
<1>1. stack \in Seq(GoodFrames(graph))
  BY DEF ShapeInv
<1> QED
  BY <1>1, FrontIs DEF Top

\* The next vertex is one of the target cell.
LEMMA NextTvIs ==
    ASSUME ShapeInv, pc = "loop", Rest # {}
    PROVE  /\ NextTv \in Top.tcell /\ NextTv > Top.tv /\ NextTv \in Nat
           /\ NextTv \in Vertices(graph) /\ NextTv \in CellAt(Top.part, Top.tc)
           /\ Top.part[NextTv] = Top.tc
<1>1. IsColoredGraph(graph) /\ stack # <<>>
  BY DEF ShapeInv
<1>2. Top \in GoodFrames(graph)
  BY <1>1, TopIs
<1>3. Top.tcell \in SUBSET Nat /\ Top.tcell \in SUBSET Vertices(graph) /\ Top.tcell \subseteq CellAt(Top.part, Top.tc)
  BY <1>1, <1>2, GoodFrame
<1>4. Rest \in SUBSET Nat /\ Rest = {x \in Top.tcell : x > Top.tv}
  BY <1>3 DEF Rest
<1>5. NextTv \in Rest
  BY <1>4, MinIs DEF NextTv
<1>6. NextTv \in CellAt(Top.part, Top.tc)
  BY <1>3, <1>4, <1>5
<1>7. Top.part[NextTv] = Top.tc
  BY <1>6 DEF CellAt
<1> QED
  BY <1>3, <1>4, <1>5, <1>6, <1>7

\* The top of the stack changed in its fields that steps write.
LEMMA SetTop ==
    ASSUME ShapeInv, pc # "idle", stack # <<>>, NEW f \in GoodFrames(graph),
           stack' = [stack EXCEPT ![Len(stack)] = f]
    PROVE  /\ stack' \in Seq(GoodFrames(graph)) /\ Len(stack') = Len(stack) /\ stack' # <<>>
           /\ \A i \in 1..(Len(stack) - 1) : stack'[i] = stack[i]
           /\ stack'[Len(stack)] = f
<1>1. stack \in Seq(GoodFrames(graph))
  BY DEF ShapeInv
<1> QED
  BY <1>1, SetLast

\* The steps of a frame keep it good.
LEMMA FrameSteps ==
    ASSUME NEW G, IsColoredGraph(G), NEW f \in GoodFrames(G)
    PROVE  /\ \A tv \in CellAt(f.part, f.tc), i \in Nat :
                  [f EXCEPT !.tv = tv, !.index = i] \in GoodFrames(G)
           /\ \A tv \in CellAt(f.part, f.tc), u \in Int : [f EXCEPT !.tv = tv, !.tv1 = u] \in GoodFrames(G)
           /\ \A cell \in SUBSET f.tcell, i \in Nat : [f EXCEPT !.tcell = cell, !.index = i] \in GoodFrames(G)
           /\ \A cell \in SUBSET f.tcell : [f EXCEPT !.tcell = cell] \in GoodFrames(G)
<1>1. CellAt(f.part, f.tc) \in SUBSET Int
  <2>1. CellAt(f.part, f.tc) \in SUBSET Nat
    BY GoodFrame
  <2> QED
    BY <2>1
<1>2. /\ f \in Frames(G) /\ IsPartition(Vertices(G), f.part) /\ IsEquitable(G, f.part)
      /\ f.tc \in LargeCells(f.part) /\ f.tcell \subseteq CellAt(f.part, f.tc)
      /\ f.tv \in CellAt(f.part, f.tc) \cup {-1}
  BY DEF GoodFrames
<1>3. ASSUME NEW tv \in CellAt(f.part, f.tc), NEW i \in Nat
      PROVE  [f EXCEPT !.tv = tv, !.index = i] \in GoodFrames(G)
  <2>1. [f EXCEPT !.tv = tv, !.index = i] \in Frames(G)
    BY <1>1, <1>2 DEF Frames
  <2> QED
    BY <1>2, <2>1 DEF GoodFrames, Frames
<1>4. ASSUME NEW tv \in CellAt(f.part, f.tc), NEW u \in Int
      PROVE  [f EXCEPT !.tv = tv, !.tv1 = u] \in GoodFrames(G)
  <2>1. [f EXCEPT !.tv = tv, !.tv1 = u] \in Frames(G)
    BY <1>1, <1>2 DEF Frames
  <2> QED
    BY <1>2, <2>1 DEF GoodFrames, Frames
<1>5. ASSUME NEW cell \in SUBSET f.tcell, NEW i \in Nat
      PROVE  [f EXCEPT !.tcell = cell, !.index = i] \in GoodFrames(G)
  <2>1. [f EXCEPT !.tcell = cell, !.index = i] \in Frames(G)
    BY <1>2 DEF Frames
  <2> QED
    BY <1>2, <2>1 DEF GoodFrames, Frames
<1>6. ASSUME NEW cell \in SUBSET f.tcell PROVE [f EXCEPT !.tcell = cell] \in GoodFrames(G)
  <2>1. [f EXCEPT !.tcell = cell] \in Frames(G)
    BY <1>2 DEF Frames
  <2> QED
    BY <1>2, <2>1 DEF GoodFrames, Frames
<1> QED
  BY <1>3, <1>4, <1>5, <1>6

-----------------------------------------------------------------------------
(* The levels that steer the search.                                       *)

\* The levels are written with levels.
LEMMA WriteLevels ==
    ASSUME NEW l \in Levels
    PROVE  /\ \A a \in Nat, d \in Int : [l EXCEPT !.noncheaplevel = a, !.eqlev_canon = d] \in Levels
           /\ \A a \in Nat : [l EXCEPT !.noncheaplevel = a] \in Levels
           /\ \A a \in Nat, c \in -1..1 :
                  [l EXCEPT !.gca_first = a, !.allsamelevel = a, !.eqlev_first = a, !.eqlev_canon = a,
                            !.gca_canon = a, !.comp_canon = c] \in Levels
           /\ \A d \in Int : [l EXCEPT !.cosetindex = d] \in Levels
           /\ \A d \in Int : [l EXCEPT !.allsamelevel = d] \in Levels
           /\ \A d \in Int : [l EXCEPT !.eqlev_first = d] \in Levels
           /\ \A c \in -1..1 : [l EXCEPT !.comp_canon = c] \in Levels
           /\ \A a \in Nat, c \in -1..1 :
                  [l EXCEPT !.eqlev_canon = a, !.gca_canon = a, !.comp_canon = c] \in Levels
<1>1. ASSUME NEW a \in Nat, NEW d \in Int PROVE [l EXCEPT !.noncheaplevel = a, !.eqlev_canon = d] \in Levels
  BY DEF Levels
<1>2. ASSUME NEW a \in Nat PROVE [l EXCEPT !.noncheaplevel = a] \in Levels
  BY DEF Levels
<1>3. ASSUME NEW a \in Nat, NEW c \in -1..1 PROVE [l EXCEPT !.gca_first = a, !.allsamelevel = a, !.eqlev_first = a, !.eqlev_canon = a,
                        !.gca_canon = a, !.comp_canon = c] \in Levels
  <2>1. PICK d, C : d = a /\ C = -1..1
    OBVIOUS
  <2>2. d \in Int /\ c \in C
    BY <2>1
  <2> QED
    BY <2>1, <2>2 DEF Levels
<1>4. ASSUME NEW d \in Int PROVE [l EXCEPT !.cosetindex = d] \in Levels
  BY DEF Levels
<1>5. ASSUME NEW d \in Int PROVE [l EXCEPT !.allsamelevel = d] \in Levels
  BY DEF Levels
<1>6. ASSUME NEW d \in Int PROVE [l EXCEPT !.eqlev_first = d] \in Levels
  BY DEF Levels
<1>7. ASSUME NEW c \in -1..1 PROVE [l EXCEPT !.comp_canon = c] \in Levels
  BY DEF Levels
<1>8. ASSUME NEW a \in Nat, NEW c \in -1..1 PROVE [l EXCEPT !.eqlev_canon = a, !.gca_canon = a, !.comp_canon = c] \in Levels
  <2>1. PICK d, C : d = a /\ C = -1..1
    OBVIOUS
  <2>2. d \in Int /\ c \in C
    BY <2>1
  <2> QED
    BY <2>1, <2>2 DEF Levels
<1> QED
  BY <1>1, <1>2, <1>3, <1>4, <1>5, <1>6, <1>7, <1>8

\* recover keeps the types and lowers the levels to those of the node.
LEMMA RecoverIs ==
    ASSUME NEW l \in Levels, NEW level \in Nat
    PROVE  /\ Recover(l, level) \in Levels
           /\ Recover(l, level).noncheaplevel = IF level < l.noncheaplevel THEN level + 1 ELSE l.noncheaplevel
           /\ Recover(l, level).gca_canon = IF level < l.gca_canon THEN level ELSE l.gca_canon
           /\ Recover(l, level).eqlev_canon = IF level <= l.eqlev_canon THEN level ELSE l.eqlev_canon
           /\ Recover(l, level).gca_first = l.gca_first
<1> DEFINE e1 == IF level < l.noncheaplevel THEN level + 1 ELSE l.noncheaplevel
           e2 == IF level < l.eqlev_first THEN level ELSE l.eqlev_first
           e3 == IF level < l.gca_canon THEN level ELSE l.gca_canon
           e4 == IF level <= l.eqlev_canon THEN 0 ELSE l.comp_canon
           e5 == IF level <= l.eqlev_canon THEN level ELSE l.eqlev_canon
<1>1. Recover(l, level) = [l EXCEPT !.noncheaplevel = e1, !.eqlev_first = e2, !.gca_canon = e3,
                                    !.comp_canon = e4, !.eqlev_canon = e5]
  BY DEF Recover
<1>2. e1 \in Nat /\ e2 \in Int /\ e3 \in Nat /\ e5 \in Int
  BY DEF Levels
<1>3. e4 \in -1..1
  BY DEF Levels
<1>4. Recover(l, level).noncheaplevel = e1 /\ Recover(l, level).gca_canon = e3
      /\ Recover(l, level).eqlev_canon = e5 /\ Recover(l, level).gca_first = l.gca_first
  <2> HIDE DEF e1, e2, e3, e4, e5
  <2> QED
    BY <1>1 DEF Levels
<1>5. Recover(l, level) \in Levels
  <2> HIDE DEF e1, e2, e3, e4, e5
  <2> QED
    BY <1>1, <1>2, <1>3 DEF Levels
<1> QED
  BY <1>4, <1>5

\* The level of the top of the stack.
LEMMA TopLevel ==
    ASSUME ShapeInv, pc # "idle", stack # <<>>
    PROVE  /\ Top.level \in Nat
           /\ Ancestor(lev) \in Levels
           /\ Ancestor(lev) = IF Top.tv = Top.tv1 THEN [lev EXCEPT !.gca_first = Top.level] ELSE lev
<1>1. Top \in GoodFrames(graph) /\ IsColoredGraph(graph) /\ lev \in Levels
  BY TopIs DEF ShapeInv
<1>2. Top.level \in Nat
  BY <1>1, GoodFrame
<1>3. [lev EXCEPT !.gca_first = Top.level] \in Levels
  BY <1>1, <1>2 DEF Levels
<1> QED
  BY <1>1, <1>2, <1>3 DEF Ancestor

\* The comparison of a code.
LEMMA CompareIs ==
    ASSUME ShapeInv, NEW code
    PROVE  /\ CompareCode(code) \in Levels
           /\ CompareCode(code).noncheaplevel = lev.noncheaplevel
           /\ CompareCode(code).gca_canon = lev.gca_canon
           /\ CompareCode(code).gca_first = lev.gca_first
           /\ CompareCode(code).eqlev_canon \in {lev.eqlev_canon, node.level}
           /\ lev.eqlev_canon # node.level - 1 => CompareCode(code).eqlev_canon = lev.eqlev_canon
<1>1. lev \in Levels /\ node.level \in Nat
  BY DEF ShapeInv
<1> DEFINE level == node.level
           new == lev.eqlev_canon = level - 1
           comp == IF ~new THEN lev.comp_canon
                   ELSE IF code < bsf.code[level] THEN -1
                   ELSE IF code > bsf.code[level] THEN 1
                   ELSE 0
           e1 == IF lev.eqlev_first = level - 1 /\ code = first.code[level] THEN level ELSE lev.eqlev_first
           e2 == IF new /\ comp = 0 THEN level ELSE lev.eqlev_canon
<1>2. CompareCode(code) = [lev EXCEPT !.eqlev_first = e1, !.comp_canon = comp, !.eqlev_canon = e2]
  BY DEF CompareCode
<1>3. comp \in -1..1
  BY <1>1 DEF Levels
<1>4. e1 \in Int
  BY <1>1 DEF Levels
<1>5. e2 \in {lev.eqlev_canon, level} /\ (lev.eqlev_canon # level - 1 => e2 = lev.eqlev_canon) /\ e2 \in Int
  BY <1>1 DEF Levels
<1> HIDE DEF comp, e1, e2, new, level
<1> QED
  BY <1>1, <1>2, <1>3, <1>4, <1>5 DEF Levels, level

\* The comparison with the best leaf.
LEMMA ComparisonIs ==
    ASSUME ShapeInv, IsColoredGraph(graph)
    PROVE  /\ Comparison.comp \in -1..1
           /\ Comparison.sr \in Nat /\ Comparison.same \in Nat
<1> DEFINE current == UpdateCan(bsf.lab, samerows)
           t == TestCanlab(current, Lab)
<1>1. lev.comp_canon \in -1..1 /\ samerows \in Nat
  BY DEF ShapeInv, Levels
<1>2. n \in Nat
  BY GraphVertices DEF n
<1>3. t.comp \in -1..1 /\ t.same \in Nat
  <2> DEFINE can == current
             rows == Relabel(graph, Lab)
             differ == {i \in 0..(n - 1) : rows[i] # can[i]}
             i == Min(differ)
             only == Min((rows[i] \ can[i]) \cup (can[i] \ rows[i]))
  <2>1. t = IF differ = {} THEN [comp |-> 0, same |-> n]
            ELSE [same |-> i,
                  comp |-> IF Cardinality(rows[i]) # Cardinality(can[i])
                           THEN IF Cardinality(can[i]) < Cardinality(rows[i]) THEN -1 ELSE 1
                           ELSE IF only \in can[i] THEN -1 ELSE 1]
    BY DEF TestCanlab
  <2>2. differ # {} => i \in Nat
    <3>1. differ \in SUBSET Nat
      BY <1>2
    <3> HIDE DEF differ
    <3> QED
      BY <3>1, MinIs
  <2> HIDE DEF current, t, rows, differ, i, only
  <2> QED
    BY <1>2, <2>1, <2>2
<1>4. Comparison =
          IF lev.comp_canon # 0 THEN [comp |-> lev.comp_canon, sr |-> 0, can |-> canong, same |-> samerows]
          ELSE IF node.level < bsf.level THEN [comp |-> 1, sr |-> 0, can |-> canong, same |-> samerows]
          ELSE [comp |-> t.comp, sr |-> t.same, can |-> current, same |-> n]
  BY DEF Comparison
<1> HIDE DEF current, t
<1> QED
  BY <1>1, <1>2, <1>3, <1>4

-----------------------------------------------------------------------------
(* A call begins.                                                          *)

\* The partition by colour: before a vertex are those of lesser colours.
LEMMA ColoursPartition ==
    ASSUME NEW G, IsColoredGraph(G)
    PROVE  /\ IsPartition(Vertices(G), PartOf(G))
           /\ \A x \in Vertices(G) : ColorOf(G, x) \in Nat
           /\ \A x, y \in Vertices(G) : PartOf(G)[x] < PartOf(G)[y] <=> ColorOf(G, x) < ColorOf(G, y)
<1> DEFINE V == Vertices(G)
           R == {p \in V \X V : ColorOf(G, p[1]) < ColorOf(G, p[2])}
<1>1. IsFiniteSet(V)
  BY GraphVertices
<1>2. G.cells \in Seq(SUBSET V)
  <2>1. PICK k \in 1..MaxVertices :
            G \in [adj : [0..(k - 1) -> SUBSET (0..(k - 1))], cells : Seq(SUBSET (0..(k - 1)))]
    BY DEF IsColoredGraph
  <2> QED
    BY <2>1 DEF Vertices
<1>3. PICK k : k = Len(G.cells)
  OBVIOUS
<1>4. k \in Nat /\ DOMAIN G.cells = 1..k /\ \A c \in 1..k : G.cells[c] \in SUBSET V
  <2> HIDE DEF V
  <2> QED
    BY <1>2, <1>3
<1>5. \A x \in V : ColorOf(G, x) \in 1..k /\ x \in G.cells[ColorOf(G, x)]
  <2>1. \A x \in V : \E c \in 1..k : x \in G.cells[c]
    BY <1>4 DEF IsColoredGraph
  <2> QED
    BY <1>4, <2>1 DEF ColorOf
<1>6. ASSUME NEW c \in 1..k, NEW y \in G.cells[c] PROVE y \in V /\ ColorOf(G, y) = c
  <2>1. y \in V
    BY <1>4
  <2>2. ColorOf(G, y) \in 1..k /\ y \in G.cells[ColorOf(G, y)]
    BY <1>5, <2>1
  <2>3. \A d, e \in 1..k : d # e => G.cells[d] \cap G.cells[e] = {}
    BY <1>4 DEF IsColoredGraph
  <2>4. ColorOf(G, y) # c => G.cells[ColorOf(G, y)] \cap G.cells[c] = {}
    BY <2>2, <2>3
  <2> QED
    BY <2>1, <2>2, <2>4
<1>7. \A x, y \in V : <<x, y>> \in R <=> ColorOf(G, x) < ColorOf(G, y)
  <2> DEFINE Before(x, y) == ColorOf(G, x) < ColorOf(G, y)
  <2>1. R = {p \in V \X V : Before(p[1], p[2])}
    OBVIOUS
  <2> HIDE DEF Before
  <2>2. \A x, y \in V : <<x, y>> \in R <=> Before(x, y)
    BY <2>1
  <2> QED
    BY <2>2 DEF Before
<1> HIDE DEF R
<1>8. WeakOrder(V, R)
  <2>1. \A x \in V : ColorOf(G, x) \in Nat
    BY <1>4, <1>5
  <2>2. \A x \in V : <<x, x>> \notin R
    BY <1>7, <2>1
  <2>3. \A x, y, z \in V : <<x, y>> \in R /\ <<y, z>> \in R => <<x, z>> \in R
    BY <1>7, <2>1
  <2>4. \A x, y, z \in V : <<x, z>> \in R => <<x, y>> \in R \/ <<y, z>> \in R
    BY <1>7, <2>1
  <2> QED
    BY <2>2, <2>3, <2>4 DEF WeakOrder
<1>9. ASSUME NEW x \in V PROVE PartOf(G)[x] = RankIn(V, R, x)
  <2> DEFINE U == UNION {G.cells[c] : c \in 1..(ColorOf(G, x) - 1)}
  <2>1. PartOf(G)[x] = Cardinality(U)
    BY DEF PartOf
  <2>2. U = {y \in V : <<y, x>> \in R}
    <3>1. ASSUME NEW y \in U PROVE y \in V /\ <<y, x>> \in R
      <4>1. PICK c \in 1..(ColorOf(G, x) - 1) : y \in G.cells[c]
        OBVIOUS
      <4>2. c \in 1..k /\ c < ColorOf(G, x)
        BY <1>4, <1>5
      <4>3. y \in V /\ ColorOf(G, y) = c
        BY <1>6, <4>1, <4>2
      <4> QED
        BY <1>7, <4>2, <4>3
    <3>2. ASSUME NEW y \in V, <<y, x>> \in R PROVE y \in U
      <4>1. ColorOf(G, y) < ColorOf(G, x) /\ ColorOf(G, y) \in 1..k /\ y \in G.cells[ColorOf(G, y)]
        BY <1>5, <1>7, <3>2
      <4>2. ColorOf(G, y) \in 1..(ColorOf(G, x) - 1)
        BY <1>4, <1>5, <4>1
      <4> QED
        BY <4>1, <4>2
    <3> HIDE DEF U
    <3> QED
      BY <3>1, <3>2
  <2> QED
    BY <2>1, <2>2 DEF RankIn
<1>10. DOMAIN PartOf(G) = V /\ PartOf(G) = [x \in V |-> PartOf(G)[x]]
  BY DEF PartOf
<1>11. PICK part : part = PartOf(G)
  OBVIOUS
<1>12. IsPartition(V, part) /\ \A x, y \in V : part[x] < part[y] <=> <<x, y>> \in R
  <2>1. DOMAIN part = V /\ part = [x \in V |-> part[x]] /\ \A x \in V : part[x] = RankIn(V, R, x)
    BY <1>9, <1>10, <1>11
  <2> HIDE DEF V
  <2> QED
    BY <1>1, <1>8, <2>1, RankPartition
<1>13. \A x \in V : ColorOf(G, x) \in Nat
  BY <1>4, <1>5
<1>14. \A x, y \in V : part[x] < part[y] <=> ColorOf(G, x) < ColorOf(G, y)
  BY <1>7, <1>12
<1> HIDE DEF V
<1>15. IsPartition(V, PartOf(G)) /\ \A x, y \in V : PartOf(G)[x] < PartOf(G)[y] <=> ColorOf(G, x) < ColorOf(G, y)
  BY <1>11, <1>12, <1>14
<1> QED
  BY <1>13, <1>15 DEF V

\* Every cell is active at the root.
LEMMA RootStarts ==
    ASSUME NEW G, IsColoredGraph(G), NEW r, r = StartDoref(PartOf(G), CellStarts(PartOf(G)), 1)
    PROVE  RefInv(G, r) /\ r.part = PartOf(G) /\ r.step = "start"
<1>1. PICK part : part = PartOf(G)
  OBVIOUS
<1>2. IsPartition(Vertices(G), part) /\ IsFiniteSet(Vertices(G))
  BY <1>1, ColoursPartition, GraphVertices
<1>3. PICK active : active = CellStarts(part)
  OBVIOUS
<1>4. Determined(G, part, active, {})
  BY <1>3 DEF Determined
<1>5. r = [StartDoref(part, active, 1) EXCEPT !.outer = r.outer]
  <2>1. r = StartDoref(part, active, 1)
    BY <1>1, <1>3
  <2> QED
    BY <2>1 DEF StartDoref
<1>6. active \in SUBSET CellStarts(part)
  BY <1>3
<1> QED
  BY <1>1, <1>2, <1>4, <1>5, <1>6, StartKeeps

\* The frame of a node that is refined.
LEMMA FrameGood ==
    ASSUME ShapeInv, pc \in {"doref", "process"}, ref.step = "done", NEW tc \in LargeCells(ref.part)
    PROVE  /\ Frame(tc) \in GoodFrames(graph)
           /\ Frame(tc) = [first |-> node.first, level |-> node.level, part |-> ref.part, tc |-> tc,
                           tcell |-> CellAt(ref.part, tc), size |-> CellSize(ref.part, tc),
                           tv1 |-> -1, tv |-> -1, index |-> 0]
<1>1. /\ IsColoredGraph(graph) /\ IsPartition(Vertices(graph), ref.part) /\ IsEquitable(graph, ref.part)
      /\ node.first \in BOOLEAN /\ node.level \in Nat
  BY DEF ShapeInv, RefInv
<1>2. IsFiniteSet(Vertices(graph))
  BY <1>1, GraphVertices
<1>3. tc \in Nat /\ CellAt(ref.part, tc) \in SUBSET Vertices(graph) /\ CellSize(ref.part, tc) \in Nat
  BY <1>1, <1>2, LargeCellFewer, CellsApart
<1>4. ref.part \in [Vertices(graph) -> Nat]
  BY <1>1 DEF IsPartition
<1>5. Frame(tc) = [first |-> node.first, level |-> node.level, part |-> ref.part, tc |-> tc,
                   tcell |-> CellAt(ref.part, tc), size |-> CellSize(ref.part, tc), tv1 |-> -1, tv |-> -1, index |-> 0]
  BY DEF Frame
<1>6. Frame(tc) \in Frames(graph)
  BY <1>1, <1>3, <1>4, <1>5 DEF Frames
<1> QED
  BY <1>1, <1>5, <1>6 DEF GoodFrames

-----------------------------------------------------------------------------
(* The shape of the search is kept.                                        *)

\* Before the first call nothing is searched and nothing is on the stack.
LEMMA ShapeInit == Init => ShapeInv
<1> SUFFICES ASSUME Init PROVE ShapeInv
  OBVIOUS
<1>1. todo \in Seq(Graphs)
  <2>1. todo \in Seq(ToSet(todo)) /\ \A i \in DOMAIN todo : IsColoredGraph(todo[i])
    BY WorkloadsAssumption DEF Init
  <2>2. \A i \in DOMAIN todo : todo[i] \in ToSet(todo)
    BY DEF ToSet
  <2>3. \A i \in DOMAIN todo : todo[i] \in UNION {ToSet(w) : w \in Workloads}
    BY <2>2 DEF Init
  <2>4. \A i \in 1..Len(todo) : todo[i] \in Graphs
    BY <2>1, <2>3 DEF Graphs
  <2>5. Len(todo) \in Nat /\ DOMAIN todo = 1..Len(todo)
    BY <2>1, SeqMember
  <2>6. todo = [i \in 1..Len(todo) |-> todo[i]]
    BY <2>1
  <2>7. todo \in [1..Len(todo) -> Graphs]
    BY <2>4, <2>6
  <2> QED
    BY <2>5, <2>7, FunctionSeq
<1>2. lev \in Levels /\ samerows \in Nat
  BY DEF Init, Levels
<1>3. node \in [first : BOOLEAN, level : Nat, tc : Int]
  BY DEF Init
<1> QED
  BY <1>1, <1>2, <1>3 DEF Init, ShapeInv

\* The beginning of a call.
LEMMA ShapeCall == ShapeInv /\ ComputeCanonSparse => ShapeInv'
<1> SUFFICES ASSUME ShapeInv, ComputeCanonSparse PROVE ShapeInv'
  OBVIOUS
<1>1. todo \in Seq(Graphs) /\ todo # <<>> /\ lev \in Levels
  BY DEF ShapeInv, ComputeCanonSparse
<1>2. Head(todo) \in Graphs /\ Tail(todo) \in Seq(Graphs)
  BY <1>1, HeadTail
<1>3. graph' = Head(todo) /\ todo' = Tail(todo) /\ pc' = "doref" /\ stack' = <<>>
  BY DEF ComputeCanonSparse
<1>4. IsColoredGraph(graph')
  BY <1>2, <1>3 DEF Graphs
<1>5. ref' = StartDoref(PartOf(graph'), CellStarts(PartOf(graph')), 1)
  BY <1>3 DEF ComputeCanonSparse
<1>6. RefInv(graph', ref')
  BY <1>4, <1>5, RootStarts
<1>7. lev' \in Levels
  <2>1. lev' = [lev EXCEPT !.noncheaplevel = 1, !.eqlev_canon = -1]
    BY DEF ComputeCanonSparse
  <2>2. PICK a, d : a = 1 /\ d = -1
    OBVIOUS
  <2>3. a \in Nat /\ d \in Int /\ lev' = [lev EXCEPT !.noncheaplevel = a, !.eqlev_canon = d]
    BY <2>1, <2>2
  <2>4. [lev EXCEPT !.noncheaplevel = a, !.eqlev_canon = d] \in Levels
    BY <1>1, <2>3, WriteLevels
  <2> QED
    BY <2>3, <2>4
<1>8. node' \in [first : BOOLEAN, level : Nat, tc : Int]
  BY DEF ComputeCanonSparse
<1>9. stack' \in Seq(GoodFrames(graph')) /\ samerows' \in Nat
  BY <1>3 DEF ComputeCanonSparse, ShapeInv
<1> QED
  BY <1>2, <1>3, <1>4, <1>6, <1>7, <1>8, <1>9 DEF ShapeInv

\* A step of doref.
LEMMA ShapeRefine == ShapeInv /\ RefineNode => ShapeInv' /\ Refines(Vertices(graph), ref'.part, ref.part)
<1> SUFFICES ASSUME ShapeInv, RefineNode PROVE ShapeInv' /\ Refines(Vertices(graph), ref'.part, ref.part)
  OBVIOUS
<1>1. IsColoredGraph(graph) /\ RefInv(graph, ref) /\ Doref(graph) /\ pc = "doref"
  BY DEF ShapeInv, RefineNode
<1>2. RefInv(graph, ref') /\ Refines(Vertices(graph), ref'.part, ref.part)
  BY <1>1, DorefKeeps
<1>3. /\ pc' = pc /\ todo' = todo /\ node' = node /\ lev' = lev /\ graph' = graph /\ stack' = stack /\ samerows' = samerows
  BY DEF RefineNode, searchVars
<1> QED
  BY <1>1, <1>2, <1>3 DEF ShapeInv

\* The child of the top of the stack.
LEMMA ShapeDescend ==
    ASSUME ShapeInv, pc = "loop", Rest # {}, NEW firstPath \in BOOLEAN, Descend(NextTv, firstPath)
    PROVE  /\ stack' \in Seq(GoodFrames(graph)) /\ Len(stack') = Len(stack) /\ stack' # <<>>
           /\ \A i \in 1..(Len(stack) - 1) : stack'[i] = stack[i]
           /\ stack'[Len(stack)] = [Top EXCEPT !.tv = NextTv, !.tv1 = IF @ = -1 THEN NextTv ELSE @]
           /\ stack'[Len(stack)] \in GoodFrames(graph)
           /\ node' = [first |-> firstPath, level |-> Top.level + 1, tc |-> -1]
           /\ node' \in [first : BOOLEAN, level : Nat, tc : Int]
           /\ RefInv(graph, ref') /\ ref'.step = "start" /\ pc' = "doref"
           /\ ref'.part = Breakout(Top.part, NextTv)
<1>1. stack # <<>> /\ IsColoredGraph(graph) /\ stack \in Seq(GoodFrames(graph))
  BY DEF ShapeInv
<1>2. Top \in GoodFrames(graph) /\ Len(stack) \in Nat /\ Len(stack) > 0
  BY <1>1, TopIs
<1>3. /\ NextTv \in Vertices(graph) /\ NextTv \in CellAt(Top.part, Top.tc) /\ Top.part[NextTv] = Top.tc
      /\ NextTv \in Nat
  BY NextTvIs
<1>4. /\ Top \in Frames(graph) /\ Top.level \in Nat /\ Top.tv1 \in Int
      /\ IsPartition(Vertices(graph), Top.part) /\ IsEquitable(graph, Top.part)
  BY <1>1, <1>2, GoodFrame
<1> DEFINE u == IF Top.tv1 = -1 THEN NextTv ELSE Top.tv1
           f == [Top EXCEPT !.tv = NextTv, !.tv1 = u]
<1>5. f \in GoodFrames(graph)
  <2>1. u \in Int
    BY <1>3, <1>4
  <2> HIDE DEF u
  <2> QED
    BY <1>1, <1>2, <1>3, <2>1, FrameSteps
<1>6. stack' = [stack EXCEPT ![Len(stack)] = f]
  BY <1>1, <1>2 DEF Descend, Top
<1> HIDE DEF f
<1>7. /\ stack' \in Seq(GoodFrames(graph)) /\ Len(stack') = Len(stack) /\ stack' # <<>>
      /\ \A i \in 1..(Len(stack) - 1) : stack'[i] = stack[i]
      /\ stack'[Len(stack)] = f
  BY <1>1, <1>5, <1>6, SetTop
<1>8. f = [Top EXCEPT !.tv = NextTv, !.tv1 = IF @ = -1 THEN NextTv ELSE @]
  BY DEF f
<1>9. /\ node' = [first |-> firstPath, level |-> Top.level + 1, tc |-> -1] /\ pc' = "doref"
      /\ ref' = StartDoref(Breakout(Top.part, NextTv), {Top.tc}, Top.level + 1)
  BY DEF Descend
<1>10. node' \in [first : BOOLEAN, level : Nat, tc : Int]
  BY <1>4, <1>9
<1>11. RefInv(graph, ref') /\ ref'.step = "start" /\ ref'.part = Breakout(Top.part, NextTv)
  <2>1. PICK part, tv, level, r : part = Top.part /\ tv = NextTv /\ level = Top.level + 1 /\ r = ref'
    OBVIOUS
  <2>2. /\ IsPartition(Vertices(graph), part) /\ IsEquitable(graph, part) /\ tv \in Vertices(graph)
        /\ r = StartDoref(Breakout(part, tv), {part[tv]}, level)
    BY <1>3, <1>4, <1>9, <2>1
  <2>3. RefInv(graph, r) /\ r.step = "start" /\ r.part = Breakout(part, tv)
    BY <1>1, <2>2, ChildStarts
  <2> QED
    BY <2>1, <2>3
<1> QED
  BY <1>5, <1>7, <1>8, <1>9, <1>10, <1>11

\* A step of the search that leaves the node as it is.
LEMMA ShapeSearch ==
    ASSUME ShapeInv, pc # "idle", pc' \in {"loop", "return"}, pc' = "loop" => stack' # <<>>,
           todo' = todo, graph' = graph, node' = node,
           lev' \in Levels, samerows' \in Nat, stack' \in Seq(GoodFrames(graph))
    PROVE  ShapeInv'
<1>1. pc' # "idle" /\ pc' # "doref" /\ pc' # "process"
  OBVIOUS
<1>2. pc' \in {"idle", "doref", "process", "loop", "return"}
  OBVIOUS
<1>3. IsColoredGraph(graph') /\ stack' \in Seq(GoodFrames(graph'))
  BY DEF ShapeInv
<1>4. todo' \in Seq(Graphs) /\ node' \in [first : BOOLEAN, level : Nat, tc : Int]
  BY DEF ShapeInv
<1> QED
  BY <1>1, <1>2, <1>3, <1>4 DEF ShapeInv

\* A node of the first path, whose children are produced next.
LEMMA ShapeFirstPathNode ==
    ASSUME ShapeInv, FirstPathNode
    PROVE  /\ ShapeInv'
           /\ stack' = Append(stack, Frame(TargetCell(ref.part, -1)))
           /\ TargetCell(ref.part, -1) \in LargeCells(ref.part)
<1>1. /\ pc = "doref" /\ ref.step = "done" /\ ~Discrete(ref.part)
      /\ stack' = Append(stack, Frame(TargetCell(ref.part, -1)))
      /\ lev' = [lev EXCEPT !.noncheaplevel = IF @ >= node.level THEN node.level + 1 ELSE @]
      /\ pc' = "loop" /\ todo' = todo /\ graph' = graph /\ node' = node /\ samerows' = samerows
  BY DEF FirstPathNode, Refined
<1>2. /\ lev \in Levels /\ samerows \in Nat /\ node.level \in Nat /\ IsColoredGraph(graph)
      /\ stack \in Seq(GoodFrames(graph)) /\ IsPartition(Vertices(graph), ref.part)
  BY <1>1 DEF ShapeInv, RefInv
<1>3. TargetCell(ref.part, -1) \in LargeCells(ref.part)
  BY <1>1, <1>2, GraphVertices, TargetCellIs
<1>4. PICK f : f = Frame(TargetCell(ref.part, -1))
  OBVIOUS
<1>5. f \in GoodFrames(graph)
  BY <1>1, <1>3, <1>4, FrameGood
<1>6. stack' \in Seq(GoodFrames(graph)) /\ stack' # <<>>
  BY <1>1, <1>2, <1>4, <1>5, AppendIs
<1>7. lev' \in Levels
  <2>1. PICK a : a = IF lev.noncheaplevel >= node.level THEN node.level + 1 ELSE lev.noncheaplevel
    OBVIOUS
  <2>2. a \in Nat
    BY <1>2, <2>1 DEF Levels
  <2> QED
    BY <1>1, <1>2, <2>1, <2>2, WriteLevels
<1> QED
  BY <1>1, <1>2, <1>3, <1>6, <1>7, ShapeSearch

\* The first leaf.
LEMMA ShapeFirstTerminal == ShapeInv /\ FirstTerminal => ShapeInv'
<1> SUFFICES ASSUME ShapeInv, FirstTerminal PROVE ShapeInv'
  OBVIOUS
<1>1. /\ pc = "doref" /\ pc' = "return" /\ todo' = todo /\ graph' = graph /\ node' = node /\ stack' = stack
      /\ samerows' = 0
      /\ lev' = [lev EXCEPT !.gca_first = node.level, !.allsamelevel = node.level, !.eqlev_first = node.level,
                            !.eqlev_canon = node.level, !.gca_canon = node.level, !.comp_canon = 0]
  BY DEF FirstTerminal, Refined, Return, ResetSamerows
<1>2. lev \in Levels /\ node.level \in Nat /\ stack \in Seq(GoodFrames(graph))
  BY <1>1 DEF ShapeInv
<1>3. lev' \in Levels
  <2>1. PICK a, c : a = node.level /\ c = 0
    OBVIOUS
  <2>2. a \in Nat /\ c \in -1..1
    BY <1>2, <2>1
  <2>3. lev' = [lev EXCEPT !.gca_first = a, !.allsamelevel = a, !.eqlev_first = a, !.eqlev_canon = a,
                          !.gca_canon = a, !.comp_canon = c]
    BY <1>1, <2>1
  <2> QED
    BY <1>2, <2>2, <2>3, WriteLevels
<1> QED
  BY <1>1, <1>2, <1>3, ShapeSearch

\* The next child, on the first path
LEMMA ShapeFirstPathChild == ShapeInv /\ FirstPathChild => ShapeInv'
<1> SUFFICES ASSUME ShapeInv, FirstPathChild PROVE ShapeInv'
  OBVIOUS
<1>1. /\ pc = "loop" /\ Rest # {} /\ Descend(NextTv, Top.tv1 = -1)
      /\ lev' = [lev EXCEPT !.cosetindex = NextTv]
      /\ todo' = todo /\ graph' = graph /\ samerows' = samerows
  BY DEF FirstPathChild
<1>2. PICK b \in BOOLEAN : Descend(NextTv, b)
  BY <1>1
<1>3. /\ stack' \in Seq(GoodFrames(graph)) /\ node' \in [first : BOOLEAN, level : Nat, tc : Int]
      /\ RefInv(graph, ref') /\ pc' = "doref"
  BY <1>1, <1>2, ShapeDescend
<1>4. lev' \in Levels
  <2>1. lev \in Levels /\ NextTv \in Int
    BY <1>1, NextTvIs DEF ShapeInv
  <2> QED
    BY <1>1, <2>1, WriteLevels
<1> QED
  BY <1>1, <1>3, <1>4 DEF ShapeInv

\* and elsewhere.
LEMMA ShapeOtherChild == ShapeInv /\ OtherChild => ShapeInv'
<1> SUFFICES ASSUME ShapeInv, OtherChild PROVE ShapeInv'
  OBVIOUS
<1>1. /\ pc = "loop" /\ Rest # {} /\ Descend(NextTv, FALSE)
      /\ lev' = lev /\ todo' = todo /\ graph' = graph /\ samerows' = samerows
  BY DEF OtherChild
<1>2. PICK b \in BOOLEAN : Descend(NextTv, b)
  BY <1>1
<1>3. /\ stack' \in Seq(GoodFrames(graph)) /\ node' \in [first : BOOLEAN, level : Nat, tc : Int]
      /\ RefInv(graph, ref') /\ pc' = "doref"
  BY <1>1, <1>2, ShapeDescend
<1> QED
  BY <1>1, <1>3 DEF ShapeInv

\* A child that is skipped.
LEMMA ShapeFirstPathSkip ==
    ASSUME ShapeInv, FirstPathSkip
    PROVE  /\ ShapeInv' /\ Len(stack') = Len(stack)
           /\ \A i \in 1..(Len(stack) - 1) : stack'[i] = stack[i]
           /\ \E k \in Nat : stack'[Len(stack)] = [Top EXCEPT !.tv = NextTv, !.index = k]
<1>1. /\ pc = "loop" /\ Rest # {}
      /\ stack' = [stack EXCEPT ![Len(stack)].tv = NextTv,
                                ![Len(stack)].index = IF orbits[NextTv] = Top.tv1 THEN @ + 1 ELSE @]
      /\ pc' = pc /\ todo' = todo /\ graph' = graph /\ node' = node /\ lev' = lev /\ samerows' = samerows
  BY DEF FirstPathSkip, searchVars
<1>2. /\ lev \in Levels /\ samerows \in Nat /\ IsColoredGraph(graph)
      /\ stack \in Seq(GoodFrames(graph)) /\ stack # <<>>
  BY <1>1 DEF ShapeInv
<1>3. Top \in GoodFrames(graph) /\ Len(stack) \in Nat /\ Len(stack) > 0
  BY <1>1, <1>2, TopIs
<1> DEFINE k == IF orbits[NextTv] = Top.tv1 THEN Top.index + 1 ELSE Top.index
           f == [Top EXCEPT !.tv = NextTv, !.index = k]
<1>4. k \in Nat
  BY <1>3 DEF GoodFrames, Frames
<1>5. f \in GoodFrames(graph)
  <2>1. NextTv \in CellAt(Top.part, Top.tc)
    BY <1>1, NextTvIs
  <2> HIDE DEF k
  <2> QED
    BY <1>2, <1>3, <1>4, <2>1, FrameSteps
<1>6. stack' = [stack EXCEPT ![Len(stack)] = f]
  BY <1>1, <1>2, <1>3 DEF Top
<1>7. f = [Top EXCEPT !.tv = NextTv, !.index = k]
  OBVIOUS
<1> HIDE DEF f, k
<1>8. /\ stack' \in Seq(GoodFrames(graph)) /\ Len(stack') = Len(stack) /\ stack' # <<>>
      /\ \A i \in 1..(Len(stack) - 1) : stack'[i] = stack[i]
      /\ stack'[Len(stack)] = f
  BY <1>1, <1>2, <1>5, <1>6, SetTop
<1>9. ShapeInv'
  BY <1>1, <1>2, <1>8, ShapeSearch
<1> QED
  BY <1>4, <1>7, <1>8, <1>9

\* All children of a node of the first path are done.
LEMMA ShapeFirstPathEnd == ShapeInv /\ FirstPathEnd => ShapeInv'
<1> SUFFICES ASSUME ShapeInv, FirstPathEnd PROVE ShapeInv'
  OBVIOUS
<1>1. /\ pc = "loop" /\ pc' = "return" /\ stack' = Front(stack)
      /\ lev' = [lev EXCEPT !.allsamelevel = IF Top.size = Top.index /\ @ = Top.level + 1 THEN @ - 1 ELSE @]
      /\ todo' = todo /\ graph' = graph /\ node' = node /\ samerows' = samerows
  BY DEF FirstPathEnd, Return
<1>2. lev \in Levels /\ samerows \in Nat /\ stack # <<>>
  BY <1>1 DEF ShapeInv
<1>3. stack' \in Seq(GoodFrames(graph))
  BY <1>1, <1>2, TopIs
<1>4. lev' \in Levels
  <2>1. PICK d : d = IF Top.size = Top.index /\ lev.allsamelevel = Top.level + 1 THEN lev.allsamelevel - 1
                     ELSE lev.allsamelevel
    OBVIOUS
  <2>2. d \in Int
    BY <1>2, <2>1 DEF Levels
  <2> QED
    BY <1>1, <1>2, <2>1, <2>2, WriteLevels
<1> QED
  BY <1>1, <1>2, <1>3, <1>4, ShapeSearch

\* and of another one.
LEMMA ShapeOtherEnd == ShapeInv /\ OtherEnd => ShapeInv'
<1> SUFFICES ASSUME ShapeInv, OtherEnd PROVE ShapeInv'
  OBVIOUS
<1>1. /\ pc = "loop" /\ pc' = "return" /\ stack' = Front(stack)
      /\ todo' = todo /\ graph' = graph /\ node' = node /\ samerows' = samerows /\ lev' = lev
  BY DEF OtherEnd, Return, searchVars
<1>2. lev \in Levels /\ samerows \in Nat /\ stack # <<>>
  BY <1>1 DEF ShapeInv
<1>3. stack' \in Seq(GoodFrames(graph))
  BY <1>1, <1>2, TopIs
<1> QED
  BY <1>1, <1>2, <1>3, ShapeSearch

\* A return through a node.
LEMMA ShapePassReturn == ShapeInv /\ PassReturn => ShapeInv'
<1> SUFFICES ASSUME ShapeInv, PassReturn PROVE ShapeInv'
  OBVIOUS
<1>1. /\ pc = "return" /\ pc' = "return" /\ stack' = Front(stack) /\ stack # <<>>
      /\ lev' = IF Top.first THEN Ancestor(lev) ELSE lev
      /\ todo' = todo /\ graph' = graph /\ node' = node /\ samerows' = samerows
  BY DEF PassReturn
<1>2. lev \in Levels /\ samerows \in Nat
  BY <1>1 DEF ShapeInv
<1>3. stack' \in Seq(GoodFrames(graph)) /\ Ancestor(lev) \in Levels
  BY <1>1, <1>2, TopIs, TopLevel
<1> QED
  BY <1>1, <1>2, <1>3, ShapeSearch

\* Pruning leaves a part of the target cell.
LEMMA PruneIs ==
    ASSUME NEW tcell, NEW fixed
    PROVE  Shortprune(tcell) \in SUBSET tcell /\ Longprune(tcell, fixed) \in SUBSET tcell
BY DEF Shortprune, Longprune

\* The return to a node of the first path,
LEMMA ShapeFirstPathReturn ==
    ASSUME ShapeInv, FirstPathReturn
    PROVE  /\ ShapeInv' /\ Len(stack') = Len(stack)
           /\ \A i \in 1..(Len(stack) - 1) : stack'[i] = stack[i]
           /\ \E k \in Nat, cell \in SUBSET Top.tcell :
                  stack'[Len(stack)] = [Top EXCEPT !.tcell = cell, !.index = k]
<1>1. /\ pc = "return" /\ stack # <<>> /\ pc' = "loop"
      /\ lev' = Recover(Ancestor(lev), Top.level)
      /\ stack' = [stack EXCEPT ![Len(stack)].tcell = Shortprune(@),
                                ![Len(stack)].index = IF orbits[Top.tv] = Top.tv1 THEN @ + 1 ELSE @]
      /\ todo' = todo /\ graph' = graph /\ node' = node /\ samerows' = samerows
  BY DEF FirstPathReturn
<1>2. /\ lev \in Levels /\ samerows \in Nat /\ IsColoredGraph(graph) /\ stack \in Seq(GoodFrames(graph))
  BY <1>1 DEF ShapeInv
<1>3. Top \in GoodFrames(graph) /\ Len(stack) \in Nat /\ Len(stack) > 0
  BY <1>1, <1>2, TopIs
<1> DEFINE cell == Shortprune(Top.tcell)
           k == IF orbits[Top.tv] = Top.tv1 THEN Top.index + 1 ELSE Top.index
           f == [Top EXCEPT !.tcell = cell, !.index = k]
<1>4. k \in Nat /\ cell \in SUBSET Top.tcell
  BY <1>3, PruneIs DEF GoodFrames, Frames
<1>5. stack' = [stack EXCEPT ![Len(stack)] = f]
  BY <1>1, <1>2, <1>3 DEF Top
<1>6. f \in GoodFrames(graph)
  <2> HIDE DEF k, cell
  <2> QED
    BY <1>2, <1>3, <1>4, FrameSteps
<1>7. f = [Top EXCEPT !.tcell = cell, !.index = k]
  OBVIOUS
<1> HIDE DEF f, k, cell
<1>8. /\ stack' \in Seq(GoodFrames(graph)) /\ Len(stack') = Len(stack) /\ stack' # <<>>
      /\ \A i \in 1..(Len(stack) - 1) : stack'[i] = stack[i]
      /\ stack'[Len(stack)] = f
  BY <1>1, <1>2, <1>5, <1>6, SetTop
<1>9. lev' \in Levels
  BY <1>1, TopLevel, RecoverIs
<1>10. ShapeInv'
  BY <1>1, <1>2, <1>8, <1>9, ShapeSearch
<1> QED
  BY <1>4, <1>7, <1>8, <1>10

\* and to another node.
LEMMA ShapeOtherReturn ==
    ASSUME ShapeInv, OtherReturn
    PROVE  /\ ShapeInv' /\ Len(stack') = Len(stack)
           /\ \A i \in 1..(Len(stack) - 1) : stack'[i] = stack[i]
           /\ \E cell \in SUBSET Top.tcell : stack'[Len(stack)] = [Top EXCEPT !.tcell = cell]
<1> DEFINE fixed == fixedpts \ {Top.tv}
           short == Shortprune(Top.tcell)
           cell == IF Top.tv = Top.tv1 THEN Longprune(short, fixed) ELSE short
           f == [Top EXCEPT !.tcell = cell]
<1>1. /\ pc = "return" /\ stack # <<>> /\ pc' = "loop"
      /\ lev' = Recover(lev, Top.level)
      /\ stack' = [stack EXCEPT ![Len(stack)].tcell = cell]
      /\ todo' = todo /\ graph' = graph /\ node' = node /\ samerows' = samerows
  BY DEF OtherReturn
<1>2. /\ lev \in Levels /\ samerows \in Nat /\ IsColoredGraph(graph) /\ stack \in Seq(GoodFrames(graph))
  BY <1>1 DEF ShapeInv
<1>3. Top \in GoodFrames(graph) /\ Len(stack) \in Nat /\ Len(stack) > 0
  BY <1>1, <1>2, TopIs
<1>4. cell \in SUBSET Top.tcell
  <2>1. short \in SUBSET Top.tcell
    BY PruneIs
  <2> HIDE DEF short, fixed
  <2> QED
    BY <2>1, PruneIs
<1>5. f \in GoodFrames(graph) /\ f = [Top EXCEPT !.tcell = cell]
  <2> HIDE DEF cell
  <2> QED
    BY <1>2, <1>3, <1>4, FrameSteps
<1> HIDE DEF cell
<1>6. stack' = [stack EXCEPT ![Len(stack)] = f]
  BY <1>1, <1>2, <1>3 DEF Top
<1> HIDE DEF f
<1>7. /\ stack' \in Seq(GoodFrames(graph)) /\ Len(stack') = Len(stack) /\ stack' # <<>>
      /\ \A i \in 1..(Len(stack) - 1) : stack'[i] = stack[i]
      /\ stack'[Len(stack)] = f
  BY <1>1, <1>2, <1>5, <1>6, SetTop
<1>8. lev' \in Levels
  BY <1>1, <1>2, TopLevel, RecoverIs
<1>9. ShapeInv'
  BY <1>1, <1>2, <1>7, <1>8, ShapeSearch
<1> QED
  BY <1>4, <1>5, <1>7, <1>9

\* Another node is compared, and without a target cell it is a leaf or worse.
LEMMA ShapeOtherNode ==
    ASSUME ShapeInv, OtherNode
    PROVE  /\ ShapeInv'
           /\ lev'.noncheaplevel = lev.noncheaplevel /\ lev'.gca_canon = lev.gca_canon
           /\ lev'.gca_first = lev.gca_first
           /\ lev'.eqlev_canon \in {lev.eqlev_canon, node.level}
           /\ lev.eqlev_canon # node.level - 1 => lev'.eqlev_canon = lev.eqlev_canon
           /\ node'.level = node.level
<1> DEFINE level == node.level
           l == CompareCode(ref.code)
           hint == IF l.comp_canon < 0 THEN first.tc[level] ELSE -1
           none == Discrete(ref.part) \/ (l.eqlev_first # level /\ l.comp_canon < 0)
           tc == IF none THEN -1 ELSE TargetCell(ref.part, hint)
           moved == tc # -1 /\ l.comp_canon < 0 /\ tc # first.tc[level]
<1>1. /\ pc = "doref" /\ ref.step = "done" /\ ~node.first /\ pc' = "process"
      /\ lev' = IF moved THEN [l EXCEPT !.eqlev_first = level - 1] ELSE l
      /\ node' = [node EXCEPT !.tc = tc]
      /\ todo' = todo /\ graph' = graph /\ stack' = stack /\ ref' = ref /\ samerows' = samerows
  BY DEF OtherNode, Refined
<1>2. /\ lev \in Levels /\ samerows \in Nat /\ IsColoredGraph(graph) /\ stack \in Seq(GoodFrames(graph))
      /\ todo \in Seq(Graphs) /\ RefInv(graph, ref) /\ node \in [first : BOOLEAN, level : Nat, tc : Int]
  BY <1>1 DEF ShapeInv
<1>3. IsFiniteSet(Vertices(graph)) /\ IsPartition(Vertices(graph), ref.part)
  BY <1>2, GraphVertices DEF RefInv
<1>4. /\ l \in Levels /\ l.noncheaplevel = lev.noncheaplevel /\ l.gca_canon = lev.gca_canon
      /\ l.gca_first = lev.gca_first /\ l.eqlev_canon \in {lev.eqlev_canon, level}
      /\ lev.eqlev_canon # level - 1 => l.eqlev_canon = lev.eqlev_canon
  BY CompareIs
<1>5. ~none => tc \in LargeCells(ref.part) /\ tc \in Nat
  <2> HIDE DEF hint
  <2> SUFFICES ASSUME ~none PROVE tc \in LargeCells(ref.part) /\ tc \in Nat
    OBVIOUS
  <2>1. ~Discrete(ref.part) /\ tc = TargetCell(ref.part, hint)
    OBVIOUS
  <2>2. tc \in LargeCells(ref.part)
    BY <1>3, <2>1, TargetCellIs
  <2> HIDE DEF tc
  <2> QED
    BY <1>3, <2>2, LargeCellFewer
<1>6. none => tc = -1 /\ ~moved
  OBVIOUS
<1>7. none <=> Discrete(ref.part) \/ (l.eqlev_first # level /\ l.comp_canon < 0)
  OBVIOUS
<1> HIDE DEF none, tc, moved, l, hint
<1>8. tc \in Int /\ level \in Nat
  BY <1>2, <1>5, <1>6
<1>9. node' \in [first : BOOLEAN, level : Nat, tc : Int] /\ node'.level = level /\ ~node'.first /\ node'.tc = tc
  BY <1>1, <1>2, <1>8
<1>10. [l EXCEPT !.eqlev_first = level - 1] \in Levels
  <2>1. PICK d : d = level - 1
    OBVIOUS
  <2>2. d \in Int
    BY <1>8, <2>1
  <2>3. [l EXCEPT !.eqlev_first = d] \in Levels
    BY <1>4, <2>2, WriteLevels
  <2> QED
    BY <2>1, <2>3
<1>11. /\ lev' \in Levels /\ lev'.noncheaplevel = l.noncheaplevel /\ lev'.gca_canon = l.gca_canon
       /\ lev'.gca_first = l.gca_first /\ lev'.eqlev_canon = l.eqlev_canon
  BY <1>1, <1>4, <1>10 DEF Levels
<1>12. Worse' \/ Leaf' \/ node'.tc \in LargeCells(ref'.part)
  <2>1. CASE ~none
    BY <1>1, <1>5, <1>9, <2>1
  <2>2. CASE none /\ Discrete(ref.part)
    BY <1>1, <2>2 DEF Leaf
  <2>3. CASE none /\ l.eqlev_first # level /\ l.comp_canon < 0
    BY <1>1, <1>6, <1>9, <2>3 DEF Worse
  <2> QED
    BY <1>7, <2>1, <2>2, <2>3
<1>13. ShapeInv'
  BY <1>1, <1>2, <1>9, <1>11, <1>12 DEF ShapeInv
<1> QED
  BY <1>4, <1>9, <1>11, <1>13

\* processnode goes below a node that is no leaf and not worse.
LEMMA ShapeProcessInternal ==
    ASSUME ShapeInv, ProcessInternal
    PROVE  /\ ShapeInv' /\ stack \in Seq(GoodFrames(graph))
           /\ \E f \in GoodFrames(graph) :
                  /\ stack' = Append(stack, f) /\ f.part = ref.part /\ f.level = node.level /\ ~f.first
<1> DEFINE cell == Shortprune(CellAt(ref.part, node.tc))
           g == Frame(node.tc)
           f == [g EXCEPT !.tcell = cell]
<1>1. /\ pc = "process" /\ ~Worse /\ ~Leaf /\ pc' = "loop"
      /\ stack' = Append(stack, [Frame(node.tc) EXCEPT !.tcell = Shortprune(@)])
      /\ lev' = [lev EXCEPT !.noncheaplevel = node.level + 1]
      /\ todo' = todo /\ graph' = graph /\ node' = node /\ samerows' = samerows
  BY DEF ProcessInternal
<1>2. /\ lev \in Levels /\ samerows \in Nat /\ IsColoredGraph(graph) /\ stack \in Seq(GoodFrames(graph))
      /\ node.level \in Nat /\ ref.step = "done" /\ ~node.first
      /\ Worse \/ Leaf \/ node.tc \in LargeCells(ref.part)
  BY <1>1 DEF ShapeInv
<1>3. node.tc \in LargeCells(ref.part)
  BY <1>1, <1>2
<1>4. /\ g \in GoodFrames(graph)
      /\ g = [first |-> node.first, level |-> node.level, part |-> ref.part, tc |-> node.tc,
              tcell |-> CellAt(ref.part, node.tc), size |-> CellSize(ref.part, node.tc),
              tv1 |-> -1, tv |-> -1, index |-> 0]
  BY <1>1, <1>2, <1>3, FrameGood
<1>5. g.tcell = CellAt(ref.part, node.tc) /\ g.part = ref.part /\ g.level = node.level /\ g.first = node.first
  BY <1>4
<1>6. cell \in SUBSET g.tcell
  BY <1>5, PruneIs
<1>7. stack' = Append(stack, f)
  BY <1>1, <1>4, <1>5
<1> HIDE DEF g, cell
<1>8. f \in GoodFrames(graph) /\ f.part = g.part /\ f.level = g.level /\ f.first = g.first
  <2>1. f \in GoodFrames(graph)
    BY <1>2, <1>4, <1>6, FrameSteps
  <2> QED
    BY <1>4, <2>1
<1> HIDE DEF f
<1>9. stack' \in Seq(GoodFrames(graph)) /\ stack' # <<>>
  BY <1>2, <1>7, <1>8, AppendIs
<1>10. lev' \in Levels
  <2>1. PICK a : a = node.level + 1
    OBVIOUS
  <2>2. a \in Nat
    BY <1>2, <2>1
  <2> QED
    BY <1>1, <1>2, <2>1, <2>2, WriteLevels
<1>11. ShapeInv'
  BY <1>1, <1>2, <1>9, <1>10, ShapeSearch
<1> QED
  BY <1>2, <1>5, <1>7, <1>8, <1>11

\* A leaf is reached.
LEMMA ShapeLeaf ==
    ASSUME ShapeInv, ProcessLikeFirst \/ ProcessLikeBest \/ ProcessBetter \/ ProcessWorse
    PROVE  ShapeInv'
<1>1. /\ pc = "process" /\ pc' = "return"
      /\ todo' = todo /\ graph' = graph /\ node' = node /\ stack' = stack
  BY DEF ProcessLikeFirst, ProcessLikeBest, ProcessBetter, ProcessWorse, Return, LeaveLeaf
<1>2. /\ lev \in Levels /\ samerows \in Nat /\ IsColoredGraph(graph) /\ stack \in Seq(GoodFrames(graph))
      /\ node.level \in Nat
  BY <1>1 DEF ShapeInv
<1>3. Comparison.comp \in -1..1 /\ Comparison.sr \in Nat /\ Comparison.same \in Nat
  BY <1>2, ComparisonIs
<1>4. PICK a, c : a = node.level /\ c = 0
  OBVIOUS
<1>5. a \in Nat /\ c \in -1..1
  BY <1>2, <1>4
<1>6. lev' \in Levels /\ samerows' \in Nat
  <2>1. CASE ProcessLikeFirst
    BY <1>2, <2>1 DEF ProcessLikeFirst
  <2>2. CASE ProcessLikeBest
    <3>1. lev' = [lev EXCEPT !.comp_canon = c] /\ samerows' = Comparison.same
      BY <1>4, <2>2 DEF ProcessLikeBest
    <3> QED
      BY <1>2, <1>3, <1>5, <3>1, WriteLevels
  <2>3. CASE ProcessBetter
    <3>1. /\ lev' = [lev EXCEPT !.eqlev_canon = a, !.gca_canon = a, !.comp_canon = c]
          /\ samerows' = Comparison.sr
      BY <1>4, <2>3 DEF ProcessBetter
    <3> QED
      BY <1>2, <1>3, <1>5, <3>1, WriteLevels
  <2>4. CASE ProcessWorse
    <3>1. /\ samerows' \in {samerows, Comparison.same}
          /\ lev' = lev \/ lev' = [lev EXCEPT !.comp_canon = Comparison.comp]
      BY <2>4 DEF ProcessWorse
    <3> QED
      BY <1>2, <1>3, <3>1, WriteLevels
  <2> QED
    BY <2>1, <2>2, <2>3, <2>4
<1> QED
  BY <1>1, <1>2, <1>6, ShapeSearch

\* The end of a call.
LEMMA ShapeAnswer == ShapeInv /\ Answer => ShapeInv'
<1> SUFFICES ASSUME ShapeInv, Answer PROVE ShapeInv'
  OBVIOUS
<1>1. /\ pc = "return" /\ stack = <<>> /\ pc' = "idle"
      /\ todo' = todo /\ graph' = graph /\ node' = node /\ stack' = stack /\ lev' = lev /\ samerows' = samerows
  BY DEF Answer
<1> QED
  BY <1>1 DEF ShapeInv

\* Every step keeps the shape.
LEMMA ShapeStep == ShapeInv /\ [Next]_vars => ShapeInv'
<1> SUFFICES ASSUME ShapeInv, [Next]_vars PROVE ShapeInv'
  OBVIOUS
<1>1. CASE ComputeCanonSparse
  BY <1>1, ShapeCall
<1>2. CASE RefineNode
  BY <1>2, ShapeRefine
<1>3. CASE FirstPathNode
  BY <1>3, ShapeFirstPathNode
<1>4. CASE FirstTerminal
  BY <1>4, ShapeFirstTerminal
<1>5. CASE FirstPathChild
  BY <1>5, ShapeFirstPathChild
<1>6. CASE FirstPathSkip
  BY <1>6, ShapeFirstPathSkip
<1>7. CASE FirstPathEnd
  BY <1>7, ShapeFirstPathEnd
<1>8. CASE FirstPathReturn
  BY <1>8, ShapeFirstPathReturn
<1>9. CASE PassReturn
  BY <1>9, ShapePassReturn
<1>10. CASE OtherNode
  BY <1>10, ShapeOtherNode
<1>11. CASE OtherChild
  BY <1>11, ShapeOtherChild
<1>12. CASE OtherEnd
  BY <1>12, ShapeOtherEnd
<1>13. CASE OtherReturn
  BY <1>13, ShapeOtherReturn
<1>14. CASE ProcessInternal
  BY <1>14, ShapeProcessInternal
<1>15. CASE ProcessLikeFirst \/ ProcessLikeBest \/ ProcessBetter \/ ProcessWorse
  BY <1>15, ShapeLeaf
<1>16. CASE Answer
  BY <1>16, ShapeAnswer
<1>17. CASE Done \/ UNCHANGED vars
  <2>1. /\ pc' = pc /\ todo' = todo /\ graph' = graph /\ node' = node /\ stack' = stack /\ lev' = lev
        /\ samerows' = samerows /\ ref' = ref
    BY <1>17 DEF Done, vars, searchVars
  <2> QED
    BY <2>1 DEF ShapeInv, Worse, Leaf
<1> QED
  BY <1>1, <1>2, <1>3, <1>4, <1>5, <1>6, <1>7, <1>8, <1>9, <1>10, <1>11, <1>12, <1>13, <1>14, <1>15, <1>16,
     <1>17 DEF Next

\* The frames of the calls in progress are always good ones.
THEOREM ShapeKept == Spec => []ShapeInv
<1>1. Init => ShapeInv
  BY ShapeInit
<1>2. ShapeInv /\ [Next]_vars => ShapeInv'
  BY ShapeStep
<1> QED
  BY <1>1, <1>2, PTL DEF Spec

(***************************************************************************)
(* The partitions on the stack are those that refinement ended with.       *)
(***************************************************************************)
LEMMA FramesEquitable == ShapeInv => Equitable
<1> SUFFICES ASSUME ShapeInv, pc = "loop" PROVE Equitable
  BY DEF Equitable
<1>1. IsColoredGraph(graph) /\ stack # <<>>
  BY DEF ShapeInv
<1>2. Top \in GoodFrames(graph)
  BY <1>1, TopIs
<1>3. DOMAIN Top.part = Vertices(graph) /\ IsEquitable(graph, Top.part)
  BY <1>1, <1>2, GoodFrame DEF IsPartition
<1> QED
  BY <1>3 DEF Equitable, IsEquitable, Alike, Sources

\* Every partition whose target cell firstpathnode0 or othernode0 (nauty.c:561, 719) is going
\* through is equitable: refine_sg (nausparse.c:648) does not stop before, although it leaves
\* the largest part of a cell that it divides inactive.
THEOREM PartitionsEquitable == Spec => []Equitable
<1>1. Spec => []ShapeInv
  BY ShapeKept
<1>2. ShapeInv => Equitable
  BY FramesEquitable
<1> QED
  BY <1>1, <1>2, PTL

-----------------------------------------------------------------------------
(* The levels: the children of a node have more cells than the node.       *)

\* There are at most as many cells as vertices,
LEMMA CellCount ==
    ASSUME NEW V, IsFiniteSet(V), NEW part, IsPartition(V, part)
    PROVE  /\ IsFiniteSet(CellStarts(part)) /\ NumCells(part) \in Nat /\ NumCells(part) <= Cardinality(V)
           /\ V # {} => NumCells(part) >= 1
<1>1. DOMAIN part = V
  BY DEF IsPartition
<1>2. CellStarts(part) = {part[x] : x \in V}
  BY <1>1 DEF CellStarts
<1>3. IsFiniteSet(CellStarts(part)) /\ NumCells(part) <= Cardinality(V) /\ NumCells(part) \in Nat
  BY <1>2, ImageFinite, FS_CardinalityType DEF NumCells
<1>4. V # {} => CellStarts(part) # {}
  BY <1>2
<1> QED
  BY <1>3, <1>4, FS_EmptySet DEF NumCells

\* a finer partition has no fewer cells,
LEMMA MoreCells ==
    ASSUME NEW V, IsFiniteSet(V), NEW part, IsPartition(V, part), NEW fine, IsPartition(V, fine),
           Refines(V, fine, part)
    PROVE  NumCells(part) <= NumCells(fine)
<1>1. CellStarts(part) \subseteq CellStarts(fine) /\ IsFiniteSet(CellStarts(fine))
  BY FinerCells, CellCount
<1> QED
  BY <1>1, FS_Subset DEF NumCells

\* and breakout adds one.
LEMMA BreakoutMore ==
    ASSUME NEW V, IsFiniteSet(V), NEW part, IsPartition(V, part), NEW tv \in V,
           part[tv] \in LargeCells(part)
    PROVE  NumCells(part) + 1 <= NumCells(Breakout(part, tv))
<1>1. PICK fine : fine = Breakout(part, tv)
  OBVIOUS
<1>2. /\ IsPartition(V, fine) /\ Refines(V, fine, part)
      /\ \A x \in V : fine[x] = IF part[x] = part[tv] /\ x # tv THEN part[x] + 1 ELSE part[x]
  BY <1>1, BreakoutDivides
<1>3. DOMAIN part = V /\ DOMAIN fine = V /\ \A x \in V : part[x] \in Nat
  BY <1>2 DEF IsPartition
<1>4. PICK x \in V : part[x] = part[tv] /\ x # tv
  <2> SUFFICES ASSUME \A x \in V : part[x] = part[tv] => x = tv PROVE FALSE
    OBVIOUS
  <2>1. CellAt(part, part[tv]) = {tv}
    BY <1>3 DEF CellAt
  <2>2. CellSize(part, part[tv]) = 1
    BY <2>1, FS_Singleton DEF CellSize
  <2> QED
    BY <2>2 DEF LargeCells
<1>5. fine[x] # part[x]
  BY <1>2, <1>3, <1>4
<1>6. fine[x] \in CellStarts(fine) /\ fine[x] \notin CellStarts(part)
  BY <1>2, <1>3, <1>5, NewParts
<1>7. CellStarts(part) \subseteq CellStarts(fine) /\ IsFiniteSet(CellStarts(fine))
  BY <1>2, FinerCells, CellCount
<1>8. Cardinality(CellStarts(part)) < Cardinality(CellStarts(fine))
  BY <1>6, <1>7, ProperSubset
<1> QED
  BY <1>1, <1>2, <1>8, CellCount DEF NumCells

\* Only the fields of the top of the stack change that its node writes.
TopWritten ==
    /\ stack # <<>>
    /\ Len(stack') = Len(stack)
    /\ \A i \in 1..(Len(stack) - 1) : stack'[i] = stack[i]
    /\ stack'[Len(stack)].first = Top.first
    /\ stack'[Len(stack)].level = Top.level
    /\ stack'[Len(stack)].part = Top.part

\* Going down to a child writes the frame of its parent and breaks the vertex out of its cell.
LEMMA ChildWritesTop ==
    ASSUME ShapeInv, FirstPathChild \/ OtherChild
    PROVE  /\ TopWritten /\ pc = "loop" /\ pc' = "doref" /\ graph' = graph
           /\ node'.level = Top.level + 1 /\ node'.first \in BOOLEAN
           /\ node'.first = (Top.first /\ Top.tv1 = -1)
           /\ stack'[Len(stack)].tv = NextTv
           /\ stack'[Len(stack)].tv1 = IF Top.tv1 = -1 THEN NextTv ELSE Top.tv1
           /\ ref'.part = Breakout(Top.part, NextTv)
<1> DEFINE b == Top.first /\ Top.tv1 = -1
           u == IF Top.tv1 = -1 THEN NextTv ELSE Top.tv1
<1>1. pc = "loop" /\ Rest # {} /\ graph' = graph
  BY DEF FirstPathChild, OtherChild
<1>2. stack # <<>>
  BY <1>1 DEF ShapeInv
<1>3. Top \in GoodFrames(graph) /\ Top.first \in BOOLEAN
  BY <1>1, <1>2, TopIs DEF GoodFrames, Frames
<1>4. Descend(NextTv, b)
  <2>1. CASE FirstPathChild
    BY <2>1 DEF FirstPathChild
  <2>2. CASE OtherChild
    BY <2>2 DEF OtherChild
  <2> QED
    BY <2>1, <2>2
<1>5. b \in BOOLEAN
  OBVIOUS
<1>6. PICK c \in BOOLEAN : c = b
  BY <1>5
<1>7. /\ Len(stack') = Len(stack)
      /\ \A i \in 1..(Len(stack) - 1) : stack'[i] = stack[i]
      /\ stack'[Len(stack)] = [Top EXCEPT !.tv = NextTv, !.tv1 = u]
      /\ node' = [first |-> c, level |-> Top.level + 1, tc |-> -1]
      /\ pc' = "doref" /\ ref'.part = Breakout(Top.part, NextTv)
  BY <1>1, <1>4, <1>6, ShapeDescend
<1> HIDE DEF u, b
<1>8. /\ stack'[Len(stack)].first = Top.first /\ stack'[Len(stack)].level = Top.level
      /\ stack'[Len(stack)].part = Top.part /\ stack'[Len(stack)].tv = NextTv /\ stack'[Len(stack)].tv1 = u
  BY <1>3, <1>7 DEF GoodFrames, Frames
<1>9. node'.level = Top.level + 1 /\ node'.first = c
  BY <1>7
<1> QED
  BY <1>1, <1>2, <1>6, <1>7, <1>8, <1>9 DEF TopWritten, u, b

\* Skipping a vertex and coming back from a child write the frame of the node, and no other.
LEMMA OthersWriteTop ==
    ASSUME ShapeInv, FirstPathSkip \/ FirstPathReturn \/ OtherReturn
    PROVE  /\ TopWritten /\ pc \in {"loop", "return"} /\ pc' = "loop" /\ graph' = graph /\ node' = node
<1>1. /\ pc \in {"loop", "return"} /\ pc' = "loop" /\ graph' = graph /\ node' = node /\ stack # <<>>
  BY DEF FirstPathSkip, FirstPathReturn, OtherReturn, ShapeInv
<1>2. Top \in GoodFrames(graph)
  BY <1>1, TopIs
<1>3. CASE FirstPathSkip
  BY <1>1, <1>2, <1>3, ShapeFirstPathSkip DEF TopWritten, GoodFrames, Frames
<1>4. CASE FirstPathReturn
  BY <1>1, <1>2, <1>4, ShapeFirstPathReturn DEF TopWritten, GoodFrames, Frames
<1>5. CASE OtherReturn
  BY <1>1, <1>2, <1>5, ShapeOtherReturn DEF TopWritten, GoodFrames, Frames
<1> QED
  BY <1>1, <1>3, <1>4, <1>5

\* A node is put on the stack.
Pushed(f) ==
    /\ f \in GoodFrames(graph) /\ f.first = node.first /\ f.level = node.level /\ f.part = ref.part
    /\ stack' = Append(stack, f)

\* A node that is entered becomes the last frame, with the partition doref left; those below stay.
LEMMA NodePushed ==
    ASSUME ShapeInv, FirstPathNode \/ ProcessInternal
    PROVE  /\ \E f : Pushed(f)
           /\ pc \in {"doref", "process"} /\ pc' = "loop" /\ graph' = graph /\ node' = node
<1>1. /\ pc \in {"doref", "process"} /\ pc' = "loop" /\ graph' = graph /\ node' = node
  BY DEF FirstPathNode, ProcessInternal, Refined
<1>2. CASE FirstPathNode
  <2>1. PICK tc : tc = TargetCell(ref.part, -1)
    OBVIOUS
  <2>2. stack' = Append(stack, Frame(tc)) /\ tc \in LargeCells(ref.part) /\ ref.step = "done"
    BY <1>2, <2>1, ShapeFirstPathNode DEF FirstPathNode, Refined
  <2>3. /\ Frame(tc) \in GoodFrames(graph)
        /\ Frame(tc).first = node.first /\ Frame(tc).level = node.level /\ Frame(tc).part = ref.part
    BY <1>1, <2>2, FrameGood
  <2> QED
    BY <1>1, <2>2, <2>3 DEF Pushed
<1>3. CASE ProcessInternal
  <2>1. PICK f \in GoodFrames(graph) :
            stack' = Append(stack, f) /\ f.part = ref.part /\ f.level = node.level /\ ~f.first
    BY <1>3, ShapeProcessInternal
  <2>2. ~node.first /\ node.first \in BOOLEAN /\ f.first \in BOOLEAN
    BY <1>3, <2>1 DEF ProcessInternal, ShapeInv, GoodFrames, Frames
  <2> QED
    BY <1>1, <2>1, <2>2 DEF Pushed
<1> QED
  BY <1>1, <1>2, <1>3

\* A node is left.
LEMMA NodePopped ==
    ASSUME ShapeInv, FirstPathEnd \/ OtherEnd \/ PassReturn
    PROVE  /\ pc \in {"loop", "return"} /\ pc' = "return" /\ graph' = graph /\ node' = node /\ stack # <<>>
           /\ Top \in GoodFrames(graph)
           /\ Len(stack) \in Nat /\ Len(stack) > 0 /\ Len(stack') = Len(stack) - 1
           /\ \A i \in 1..(Len(stack) - 1) : stack'[i] = stack[i]
<1>1. /\ pc \in {"loop", "return"} /\ pc' = "return" /\ graph' = graph /\ node' = node /\ stack # <<>>
      /\ stack' = Front(stack)
  BY DEF FirstPathEnd, OtherEnd, PassReturn, Return, ShapeInv
<1> QED
  BY <1>1, TopIs

\* The steps at a node that leave the stack as it is.
Unmoved ==
    \/ RefineNode \/ FirstTerminal \/ OtherNode \/ Answer \/ Done \/ UNCHANGED vars
    \/ ProcessLikeFirst \/ ProcessLikeBest \/ ProcessBetter \/ ProcessWorse

\* What the other steps do leaves all frames and the level of the node alone.
LEMMA StackUnmoved ==
    ASSUME ShapeInv, Unmoved
    PROVE  /\ stack' = stack /\ graph' = graph /\ node'.level = node.level /\ node'.first = node.first
           /\ pc' = "loop" => pc = "loop" /\ lev' = lev /\ orbits' = orbits
           /\ pc' \in {"doref", "process"} => pc \in {"doref", "process"}
           /\ pc' = "doref" => pc = "doref" /\ lev' = lev /\ orbits' = orbits
<1>1. CASE OtherNode
  <2>1. node' = [node EXCEPT !.tc = node'.tc] /\ node \in [first : BOOLEAN, level : Nat, tc : Int]
    BY <1>1 DEF OtherNode, ShapeInv
  <2>2. node'.level = node.level /\ node'.first = node.first
    BY <2>1
  <2>3. stack' = stack /\ graph' = graph /\ pc = "doref" /\ pc' = "process"
    BY <1>1 DEF OtherNode, Refined
  <2> QED
    BY <2>2, <2>3
<1>2. CASE RefineNode
  BY <1>2 DEF RefineNode, searchVars
<1>3. CASE FirstTerminal
  BY <1>3 DEF FirstTerminal, Return
<1>4. CASE Answer
  BY <1>4 DEF Answer
<1>5. CASE Done \/ UNCHANGED vars
  BY <1>5 DEF Done, vars, searchVars
<1>6. CASE ProcessLikeFirst \/ ProcessLikeBest \/ ProcessBetter \/ ProcessWorse
  BY <1>6 DEF ProcessLikeFirst, ProcessLikeBest, ProcessBetter, ProcessWorse, Return, LeaveLeaf
<1> QED
  BY <1>1, <1>2, <1>3, <1>4, <1>5, <1>6 DEF Unmoved

\* The stack holds the nodes of the levels below its own length.
LEMMA StackBelow ==
    ASSUME ShapeInv, LevelInv, pc # "idle"
    PROVE  /\ Len(stack) \in Nat /\ Len(stack) < n /\ n \in Nat /\ DOMAIN stack = 1..Len(stack)
           /\ \A i \in 1..Len(stack) : stack[i] \in GoodFrames(graph)
           /\ stack # <<>> => Top.level = Len(stack) /\ Len(stack) <= NumCells(Top.part) /\ Len(stack) > 0
<1>1. IsColoredGraph(graph) /\ stack \in Seq(GoodFrames(graph))
  BY DEF ShapeInv
<1>2. n \in Nat /\ n > 0
  BY <1>1, GraphVertices DEF n
<1>3. Len(stack) \in Nat /\ DOMAIN stack = 1..Len(stack) /\ \A i \in 1..Len(stack) : stack[i] \in GoodFrames(graph)
  BY <1>1, SeqMember
<1>4. CASE stack = <<>>
  BY <1>2, <1>3, <1>4
<1>5. CASE stack # <<>>
  <2>1. Top \in GoodFrames(graph) /\ Len(stack) > 0
    BY <1>5, TopIs
  <2>2. Top.level = Len(stack) /\ Len(stack) <= NumCells(Top.part)
    BY <1>3, <2>1 DEF LevelInv, Top
  <2>3. NumCells(Top.part) \in Nat /\ NumCells(Top.part) < n
    BY <1>1, <2>1, GoodFrame DEF n
  <2> QED
    BY <1>2, <1>3, <2>1, <2>2, <2>3
<1> QED
  BY <1>4, <1>5

\* The number of cells bounds the level of a node.
LEMMA NodeBelow ==
    ASSUME ShapeInv, LevelInv, pc \in {"doref", "process"}
    PROVE  /\ node.level \in Nat /\ node.level = Len(stack) + 1 /\ node.level <= NumCells(ref.part)
           /\ NumCells(ref.part) \in Nat /\ node.level <= n /\ n \in Nat /\ node.level >= 1
<1>1. IsColoredGraph(graph) /\ IsPartition(Vertices(graph), ref.part) /\ node.level \in Nat
  BY DEF ShapeInv, RefInv
<1>2. IsFiniteSet(Vertices(graph))
  BY <1>1, GraphVertices
<1>3. NumCells(ref.part) \in Nat /\ NumCells(ref.part) <= n
  BY <1>1, <1>2, CellCount DEF n
<1>4. Len(stack) \in Nat /\ n \in Nat
  BY StackBelow
<1> QED
  BY <1>1, <1>3, <1>4 DEF LevelInv

\* Before the first call the graph has no vertices, and the levels are those of an empty stack.
LEMMA LevelInit == Init => LevelInv
<1> SUFFICES ASSUME Init PROVE LevelInv
  OBVIOUS
<1>1. Vertices(graph) = {}
  BY DEF Init, Vertices
<1>2. n = 0
  BY <1>1, FS_EmptySet DEF n
<1> QED
  BY <1>2 DEF Init, LevelInv

\* A call starts at level 1, and a graph with vertices has a cell.
LEMMA LevelCall == ShapeInv /\ LevelInv /\ ComputeCanonSparse => LevelInv'
<1> SUFFICES ASSUME ShapeInv, LevelInv, ComputeCanonSparse PROVE LevelInv'
  OBVIOUS
<1>1. ShapeInv' /\ pc' = "doref" /\ stack' = <<>> /\ node'.level = 1
  BY ShapeCall DEF ComputeCanonSparse
<1>2. IsColoredGraph(graph') /\ IsPartition(Vertices(graph'), ref'.part)
  BY <1>1 DEF ShapeInv, RefInv
<1>3. /\ IsFiniteSet(Vertices(graph')) /\ Vertices(graph') # {}
      /\ Cardinality(Vertices(graph')) \in Nat
  BY <1>2, GraphVertices
<1>4. PICK V, part : V = Vertices(graph') /\ part = ref'.part
  OBVIOUS
<1>5. NumCells(part) \in Nat /\ NumCells(part) >= 1 /\ NumCells(part) <= Cardinality(V)
  BY <1>2, <1>3, <1>4, CellCount
<1>6. n' = Cardinality(V)
  BY <1>4 DEF n
<1> QED
  BY <1>1, <1>3, <1>4, <1>5, <1>6 DEF LevelInv

\* Writing the last frame of the stack changes neither its level nor its cells.
LEMMA LevelTop ==
    ASSUME ShapeInv, LevelInv, pc # "idle", TopWritten
    PROVE  \A i \in DOMAIN stack' : stack'[i].level = i /\ i <= NumCells(stack'[i].part)
<1>1. /\ Len(stack) \in Nat /\ DOMAIN stack = 1..Len(stack)
      /\ Top.level = Len(stack) /\ Len(stack) <= NumCells(Top.part) /\ Len(stack) > 0
  BY StackBelow DEF TopWritten
<1> QED
  BY <1>1 DEF LevelInv, TopWritten

\* A child has a cell more than its parent, since its vertex leaves a cell of several.
LEMMA LevelChild == ShapeInv /\ LevelInv /\ (FirstPathChild \/ OtherChild) => LevelInv'
<1> SUFFICES ASSUME ShapeInv, LevelInv, FirstPathChild \/ OtherChild PROVE LevelInv'
  OBVIOUS
<1>1. /\ TopWritten /\ pc = "loop" /\ pc' = "doref" /\ graph' = graph
      /\ node'.level = Top.level + 1 /\ ref'.part = Breakout(Top.part, NextTv)
  BY ChildWritesTop
<1>2. Rest # {} /\ IsColoredGraph(graph) /\ stack # <<>>
  BY <1>1 DEF FirstPathChild, OtherChild, ShapeInv
<1>3. /\ Len(stack) \in Nat /\ Len(stack) < n /\ n \in Nat
      /\ Top.level = Len(stack) /\ Len(stack) <= NumCells(Top.part) /\ Len(stack) > 0
  BY <1>1, <1>2, StackBelow
<1>4. NextTv \in Vertices(graph) /\ Top.part[NextTv] = Top.tc
  BY <1>1, <1>2, NextTvIs
<1>5. /\ IsPartition(Vertices(graph), Top.part) /\ Top.tc \in LargeCells(Top.part)
      /\ NumCells(Top.part) \in Nat /\ IsFiniteSet(Vertices(graph))
  BY <1>1, <1>2, TopIs, GoodFrame, GraphVertices
<1>6. PICK V, part, tv : V = Vertices(graph) /\ part = Top.part /\ tv = NextTv
  OBVIOUS
<1>7. NumCells(part) + 1 <= NumCells(Breakout(part, tv)) /\ IsPartition(V, Breakout(part, tv))
  BY <1>4, <1>5, <1>6, BreakoutMore, BreakoutDivides
<1>8. NumCells(Breakout(part, tv)) \in Nat
  BY <1>5, <1>6, <1>7, CellCount
<1>9. Len(stack') = Len(stack) /\ n' = n
  BY <1>1 DEF TopWritten, n
<1>10. node'.level = Len(stack') + 1 /\ node'.level <= NumCells(ref'.part)
  BY <1>1, <1>3, <1>5, <1>6, <1>7, <1>8, <1>9
<1>11. \A i \in DOMAIN stack' : stack'[i].level = i /\ i <= NumCells(stack'[i].part)
  BY <1>1, LevelTop
<1>12. node'.level \in 0..(n' + 1)
  BY <1>1, <1>3, <1>9
<1> QED
  BY <1>1, <1>10, <1>11, <1>12 DEF LevelInv

\* The levels are right after every step.
LEMMA LevelStep == ShapeInv /\ LevelInv /\ [Next]_vars => LevelInv'
<1> SUFFICES ASSUME ShapeInv, LevelInv, [Next]_vars PROVE LevelInv'
  OBVIOUS
<1>1. CASE ComputeCanonSparse
  BY <1>1, LevelCall
<1>2. CASE FirstPathChild \/ OtherChild
  BY <1>2, LevelChild
<1>3. CASE FirstPathSkip \/ FirstPathReturn \/ OtherReturn
  <2>1. TopWritten /\ pc # "idle" /\ pc' = "loop" /\ graph' = graph /\ node' = node
    BY <1>3, OthersWriteTop
  <2>2. \A i \in DOMAIN stack' : stack'[i].level = i /\ i <= NumCells(stack'[i].part)
    BY <2>1, LevelTop
  <2>3. node'.level \in 0..(n' + 1)
    BY <2>1 DEF LevelInv, n
  <2> QED
    BY <2>1, <2>2, <2>3 DEF LevelInv
<1>4. CASE FirstPathNode \/ ProcessInternal
  <2>1. PICK f : Pushed(f)
    BY <1>4, NodePushed
  <2>2. pc \in {"doref", "process"} /\ pc' = "loop" /\ graph' = graph /\ node' = node
    BY <1>4, NodePushed
  <2>3. node.level = Len(stack) + 1 /\ node.level <= NumCells(ref.part)
    BY <2>2, NodeBelow
  <2>4. stack \in Seq(GoodFrames(graph)) /\ f \in GoodFrames(graph) /\ stack' = Append(stack, f)
    BY <2>1, <2>2 DEF ShapeInv, Pushed
  <2>5. /\ Len(stack) \in Nat /\ Len(stack') = Len(stack) + 1 /\ DOMAIN stack' = 1..(Len(stack) + 1)
        /\ \A i \in 1..Len(stack) : stack'[i] = stack[i]
        /\ stack'[Len(stack) + 1] = f /\ DOMAIN stack = 1..Len(stack)
    BY <2>4, AppendIs, SeqMember
  <2>6. f.level = Len(stack) + 1 /\ Len(stack) + 1 <= NumCells(f.part)
    BY <2>1, <2>3 DEF Pushed
  <2>7. \A i \in DOMAIN stack' : stack'[i].level = i /\ i <= NumCells(stack'[i].part)
    <3> SUFFICES ASSUME NEW i \in 1..(Len(stack) + 1)
                 PROVE  stack'[i].level = i /\ i <= NumCells(stack'[i].part)
      BY <2>5
    <3>1. CASE i = Len(stack) + 1
      BY <2>5, <2>6, <3>1
    <3>2. CASE i \in 1..Len(stack)
      BY <2>5, <3>2 DEF LevelInv
    <3> QED
      BY <2>5, <3>1, <3>2
  <2>8. node'.level \in 0..(n' + 1)
    BY <2>2 DEF LevelInv, n
  <2> QED
    BY <2>2, <2>7, <2>8 DEF LevelInv
<1>5. CASE FirstPathEnd \/ OtherEnd \/ PassReturn
  <2>1. /\ pc' = "return" /\ graph' = graph /\ node' = node /\ pc # "idle"
        /\ Len(stack) \in Nat /\ Len(stack) > 0 /\ Len(stack') = Len(stack) - 1
        /\ \A i \in 1..(Len(stack) - 1) : stack'[i] = stack[i]
    BY <1>5, NodePopped
  <2>2. DOMAIN stack = 1..Len(stack) /\ DOMAIN stack' = 1..(Len(stack) - 1)
    <3>1. ShapeInv'
      BY ShapeStep
    <3>2. stack \in Seq(GoodFrames(graph)) /\ stack' \in Seq(GoodFrames(graph'))
      BY <2>1, <3>1 DEF ShapeInv
    <3> QED
      BY <2>1, <3>2
  <2>3. node'.level \in 0..(n' + 1)
    BY <2>1 DEF LevelInv, n
  <2> QED
    BY <2>1, <2>2, <2>3 DEF LevelInv
<1>6. CASE Unmoved
  <2>1. /\ stack' = stack /\ graph' = graph /\ node'.level = node.level
        /\ pc' \in {"doref", "process"} => pc \in {"doref", "process"}
    BY <1>6, StackUnmoved
  <2>2. pc' \in {"doref", "process"} => NumCells(ref.part) <= NumCells(ref'.part)
    <3>1. CASE RefineNode
      <4>1. pc = "doref" /\ pc' = "doref"
        BY <3>1 DEF RefineNode
      <4>2. ShapeInv' /\ Refines(Vertices(graph), ref'.part, ref.part)
        BY <3>1, ShapeRefine
      <4>3. /\ IsPartition(Vertices(graph), ref.part) /\ IsPartition(Vertices(graph), ref'.part)
            /\ IsFiniteSet(Vertices(graph))
        BY <2>1, <4>1, <4>2, GraphVertices DEF ShapeInv, RefInv
      <4> QED
        BY <4>2, <4>3, MoreCells
    <3>2. CASE ~RefineNode
      <4>1. pc' \in {"doref", "process"} => ref' = ref
        BY <1>6, <3>2 DEF Unmoved, FirstTerminal, OtherNode, Answer, Done, vars, ProcessLikeFirst, ProcessLikeBest,
                          ProcessBetter, ProcessWorse, Return, LeaveLeaf
      <4>2. pc' \in {"doref", "process"} => NumCells(ref.part) \in Nat
        BY <2>1, NodeBelow
      <4> QED
        BY <4>1, <4>2
    <3> QED
      BY <3>1, <3>2
  <2>3. pc' \in {"doref", "process"} => node'.level = Len(stack') + 1 /\ node'.level <= NumCells(ref'.part)
    <3> SUFFICES ASSUME pc' \in {"doref", "process"}
                 PROVE  node'.level = Len(stack') + 1 /\ node'.level <= NumCells(ref'.part)
      OBVIOUS
    <3>1. ShapeInv' /\ IsPartition(Vertices(graph), ref'.part) /\ IsFiniteSet(Vertices(graph))
      BY <2>1, ShapeStep, GraphVertices DEF ShapeInv, RefInv
    <3>2. NumCells(ref'.part) \in Nat
      BY <3>1, CellCount
    <3> QED
      BY <2>1, <2>2, <3>2, NodeBelow
  <2> QED
    BY <2>1, <2>3 DEF LevelInv, n
<1> QED
  BY <1>1, <1>2, <1>3, <1>4, <1>5, <1>6 DEF Next, Unmoved

-----------------------------------------------------------------------------
(* The first path.                                                         *)

\* The nodes of the first path are at their first child while it is visited.
LEMMA PathStep == ShapeInv /\ LevelInv /\ PathInv /\ [Next]_vars => PathInv'
<1> SUFFICES ASSUME ShapeInv, LevelInv, PathInv, [Next]_vars PROVE PathInv'
  OBVIOUS
<1>1. CASE ComputeCanonSparse
  <2>1. stack' = <<>>
    BY <1>1 DEF ComputeCanonSparse
  <2> QED
    BY <2>1 DEF PathInv
<1>2. CASE FirstPathChild \/ OtherChild
  <2>1. /\ TopWritten /\ pc # "idle" /\ pc' = "doref"
        /\ node'.first = (Top.first /\ Top.tv1 = -1)
        /\ stack'[Len(stack)].tv = NextTv
        /\ stack'[Len(stack)].tv1 = IF Top.tv1 = -1 THEN NextTv ELSE Top.tv1
    BY <1>2, ChildWritesTop
  <2>2. Len(stack) \in Nat /\ Len(stack) > 0
    BY <2>1, StackBelow DEF TopWritten
  <2>3. \A i \in 2..Len(stack') : stack'[i].first => AtFirstChild(stack'[i - 1])
    BY <2>1, <2>2 DEF PathInv, TopWritten, Top
  <2>4. node'.first => AtFirstChild(Top')
    BY <2>1, <2>2 DEF AtFirstChild, Top, TopWritten
  <2> QED
    BY <2>3, <2>4 DEF PathInv
<1>3. CASE FirstPathSkip \/ FirstPathReturn \/ OtherReturn
  <2>1. TopWritten /\ pc # "idle" /\ pc' = "loop"
    BY <1>3, OthersWriteTop
  <2>2. Len(stack) \in Nat /\ Len(stack) > 0
    BY <2>1, StackBelow DEF TopWritten
  <2>3. \A i \in 2..Len(stack') : stack'[i].first => AtFirstChild(stack'[i - 1])
    BY <2>1, <2>2 DEF PathInv, TopWritten, Top
  <2> QED
    BY <2>1, <2>3 DEF PathInv
<1>4. CASE FirstPathNode \/ ProcessInternal
  <2>1. PICK f : Pushed(f)
    BY <1>4, NodePushed
  <2>2. pc \in {"doref", "process"} /\ pc' = "loop"
    BY <1>4, NodePushed
  <2>3. stack \in Seq(GoodFrames(graph)) /\ f \in GoodFrames(graph) /\ stack' = Append(stack, f)
    BY <2>1, <2>2 DEF ShapeInv, Pushed
  <2>4. /\ Len(stack) \in Nat /\ Len(stack') = Len(stack) + 1
        /\ \A i \in 1..Len(stack) : stack'[i] = stack[i]
        /\ stack'[Len(stack) + 1] = f
    BY <2>3, AppendIs
  <2>5. f.first /\ stack # <<>> => AtFirstChild(Top)
    <3>1. f.first = node.first
      BY <2>1 DEF Pushed
    <3>2. node.first => pc = "doref"
      BY <2>2 DEF ShapeInv
    <3> QED
      BY <3>1, <3>2 DEF PathInv
  <2>6. ASSUME NEW i \in 2..(Len(stack) + 1), stack'[i].first PROVE AtFirstChild(stack'[i - 1])
    <3>1. CASE i = Len(stack) + 1
      <4>1. Len(stack) \in 1..Len(stack) /\ stack # <<>>
        BY <2>4, <3>1
      <4>2. stack'[i - 1] = Top
        BY <2>4, <3>1, <4>1 DEF Top
      <4>3. f.first
        BY <2>4, <2>6, <3>1
      <4> QED
        BY <2>5, <4>1, <4>2, <4>3
    <3>2. CASE i \in 2..Len(stack)
      <4>1. stack'[i] = stack[i] /\ stack'[i - 1] = stack[i - 1]
        BY <2>4, <3>2
      <4> QED
        BY <2>6, <3>2, <4>1 DEF PathInv
    <3> QED
      BY <2>4, <3>1, <3>2
  <2> QED
    BY <2>2, <2>4, <2>6 DEF PathInv
<1>5. CASE FirstPathEnd \/ OtherEnd \/ PassReturn
  <2>1. /\ pc' = "return" /\ Len(stack) \in Nat /\ Len(stack) > 0 /\ Len(stack') = Len(stack) - 1
        /\ \A i \in 1..(Len(stack) - 1) : stack'[i] = stack[i]
    BY <1>5, NodePopped
  <2>2. ASSUME NEW i \in 2..Len(stack'), stack'[i].first PROVE AtFirstChild(stack'[i - 1])
    <3>1. stack'[i] = stack[i] /\ stack'[i - 1] = stack[i - 1] /\ i \in 2..Len(stack)
      BY <2>1
    <3> QED
      BY <2>2, <3>1 DEF PathInv
  <2> QED
    BY <2>1, <2>2 DEF PathInv
<1>6. CASE Unmoved
  <2>1. stack' = stack /\ node'.first = node.first /\ (pc' = "doref" => pc = "doref")
    BY <1>6, StackUnmoved
  <2> QED
    BY <2>1 DEF PathInv, Top
<1> QED
  BY <1>1, <1>2, <1>3, <1>4, <1>5, <1>6 DEF Next, Unmoved

\* Orbits are joined, and anything but the first path visited, only after the first leaf.
LEMMA FirstLeafStep == ShapeInv /\ LevelInv /\ FirstLeafInv /\ [Next]_vars => FirstLeafInv'
<1> SUFFICES ASSUME ShapeInv, LevelInv, FirstLeafInv, [Next]_vars, pc' # "idle", lev'.eqlev_canon = -1
             PROVE  FirstLeafInv'
  BY DEF FirstLeafInv
<1> DEFINE Fresh == /\ \A x \in Vertices(graph) : orbits[x] = x
                    /\ \/ pc = "doref" /\ node.first
                       \/ pc = "loop" /\ Top.first /\ Top.tv = -1 /\ Top.tv1 = -1
                          /\ Top.tcell = CellAt(Top.part, Top.tc)
<1>1. pc # "idle" /\ lev.eqlev_canon = -1 => Fresh
  BY DEF FirstLeafInv
<1>2. Fresh' => FirstLeafInv'
  BY DEF FirstLeafInv
<1>3. CASE ComputeCanonSparse
  <2>1. graph' = Head(todo) /\ orbits' = [x \in Vertices(Head(todo)) |-> x] /\ pc' = "doref" /\ node'.first
    BY <1>3 DEF ComputeCanonSparse
  <2>2. \A x \in Vertices(graph') : orbits'[x] = x
    BY <2>1
  <2> QED
    BY <1>2, <2>1, <2>2
<1>4. CASE FirstPathChild \/ OtherChild
  <2>1. /\ pc = "loop" /\ pc' = "doref" /\ graph' = graph /\ node'.first = (Top.first /\ Top.tv1 = -1)
    BY <1>4, ChildWritesTop
  <2>2. lev'.eqlev_canon = lev.eqlev_canon /\ orbits' = orbits
    <3>1. lev' = lev \/ lev' = [lev EXCEPT !.cosetindex = NextTv]
      BY <1>4 DEF FirstPathChild, OtherChild
    <3>2. lev \in Levels
      BY DEF ShapeInv
    <3> QED
      BY <1>4, <3>1, <3>2 DEF FirstPathChild, OtherChild, Levels
  <2>3. Fresh
    BY <1>1, <2>1, <2>2
  <2>4. node'.first
    BY <2>1, <2>3
  <2> QED
    BY <1>2, <2>1, <2>2, <2>3, <2>4
<1>5. CASE FirstPathSkip
  <2>1. pc = "loop" /\ Rest # {} /\ orbits[NextTv] # NextTv /\ lev' = lev
    BY <1>5 DEF FirstPathSkip, searchVars
  <2>2. NextTv \in Vertices(graph)
    BY <2>1, NextTvIs
  <2> QED
    BY <1>1, <2>1, <2>2
<1>6. CASE FirstPathReturn \/ OtherReturn
  <2>1. /\ pc = "return" /\ stack # <<>>
        /\ lev' = Recover(lev, Top.level) \/ lev' = Recover(Ancestor(lev), Top.level)
    BY <1>6 DEF FirstPathReturn, OtherReturn
  <2>2. PICK l \in Levels : lev' = Recover(l, Top.level) /\ l.eqlev_canon = lev.eqlev_canon
    <3>1. /\ lev \in Levels /\ Ancestor(lev) \in Levels
          /\ Ancestor(lev) = IF Top.tv = Top.tv1 THEN [lev EXCEPT !.gca_first = Top.level] ELSE lev
      BY <2>1, TopLevel DEF ShapeInv
    <3>2. Ancestor(lev).eqlev_canon = lev.eqlev_canon
      BY <3>1 DEF Levels
    <3> QED
      BY <2>1, <3>1, <3>2
  <2>3. Top.level \in Nat
    BY <2>1, TopLevel
  <2>4. lev'.eqlev_canon = IF Top.level <= l.eqlev_canon THEN Top.level ELSE l.eqlev_canon
    BY <2>2, <2>3, RecoverIs
  <2>5. lev.eqlev_canon = -1
    BY <2>2, <2>3, <2>4
  <2> QED
    BY <1>1, <2>1, <2>5
<1>7. CASE FirstPathNode
  <2>1. /\ pc = "doref" /\ pc' = "loop" /\ node.first /\ graph' = graph /\ orbits' = orbits
        /\ lev' = [lev EXCEPT !.noncheaplevel = IF @ >= node.level THEN node.level + 1 ELSE @]
        /\ ref.step = "done"
    BY <1>7 DEF FirstPathNode, Refined
  <2>2. lev'.eqlev_canon = lev.eqlev_canon
    <3>1. lev \in Levels
      BY DEF ShapeInv
    <3> QED
      BY <2>1, <3>1 DEF Levels
  <2>3. Fresh
    BY <1>1, <2>1, <2>2
  <2>4. PICK tc : tc = TargetCell(ref.part, -1)
    OBVIOUS
  <2>5. stack' = Append(stack, Frame(tc)) /\ tc \in LargeCells(ref.part)
    BY <1>7, <2>4, ShapeFirstPathNode
  <2>6. PICK f : f = Frame(tc)
    OBVIOUS
  <2>7. /\ f \in GoodFrames(graph)
        /\ f = [first |-> node.first, level |-> node.level, part |-> ref.part, tc |-> tc,
                tcell |-> CellAt(ref.part, tc), size |-> CellSize(ref.part, tc),
                tv1 |-> -1, tv |-> -1, index |-> 0]
    BY <2>1, <2>5, <2>6, FrameGood
  <2>8. f.first /\ f.tv = -1 /\ f.tv1 = -1 /\ f.tcell = CellAt(f.part, f.tc)
    BY <2>1, <2>7
  <2>9. Top' = f
    <3>1. stack \in Seq(GoodFrames(graph))
      BY <2>1 DEF ShapeInv
    <3>2. Len(stack') = Len(stack) + 1 /\ stack'[Len(stack) + 1] = f
      BY <2>5, <2>6, <2>7, <3>1, AppendIs
    <3> QED
      BY <3>2 DEF Top
  <2> QED
    BY <1>2, <2>1, <2>3, <2>8, <2>9
<1>8. CASE FirstPathEnd
  <2>1. /\ pc = "loop" /\ Rest = {} /\ stack # <<>>
        /\ lev' = [lev EXCEPT !.allsamelevel = IF Top.size = Top.index /\ @ = Top.level + 1 THEN @ - 1 ELSE @]
    BY <1>8 DEF FirstPathEnd, ShapeInv
  <2>2. lev'.eqlev_canon = lev.eqlev_canon
    <3>1. lev \in Levels
      BY DEF ShapeInv
    <3> QED
      BY <2>1, <3>1 DEF Levels
  <2>3. Top.tv = -1 /\ Top.tcell = CellAt(Top.part, Top.tc)
    BY <1>1, <2>1, <2>2
  <2>4. Top.tcell # {} /\ Top.tcell \in SUBSET Nat
    BY <2>1, <2>3, TopIs, GoodFrame DEF ShapeInv
  <2>5. PICK x \in Top.tcell : x > -1
    BY <2>4
  <2> QED
    BY <2>1, <2>3, <2>5 DEF Rest
<1>9. CASE OtherEnd \/ PassReturn
  <2>1. /\ (pc = "loop" /\ ~Top.first) \/ pc = "return"
        /\ stack # <<>> /\ pc # "idle"
        /\ lev' = lev \/ lev' = Ancestor(lev)
    BY <1>9 DEF OtherEnd, PassReturn, searchVars, ShapeInv
  <2>2. lev'.eqlev_canon = lev.eqlev_canon
    BY <2>1, TopLevel DEF ShapeInv, Levels
  <2> QED
    BY <1>1, <2>1, <2>2
<1>10. CASE OtherNode
  <2>1. /\ pc = "doref" /\ ~node.first
        /\ lev'.eqlev_canon \in {lev.eqlev_canon, node.level}
    BY <1>10, ShapeOtherNode DEF OtherNode, Refined
  <2>2. node.level \in Nat
    BY DEF ShapeInv
  <2>3. lev.eqlev_canon = -1
    BY <2>1, <2>2
  <2> QED
    BY <1>1, <2>1, <2>3
<1>11. CASE FirstTerminal
  <2>1. node.level \in Nat /\ lev \in Levels
    BY DEF ShapeInv
  <2>2. lev'.eqlev_canon = node.level
    BY <1>11, <2>1 DEF FirstTerminal, Levels
  <2> QED
    BY <2>1, <2>2
<1>12. CASE ProcessInternal \/ ProcessLikeFirst \/ ProcessLikeBest \/ ProcessBetter \/ ProcessWorse
  <2>1. pc = "process" /\ node.level \in Nat /\ lev \in Levels
    BY <1>12 DEF ProcessInternal, ProcessLikeFirst, ProcessLikeBest, ProcessBetter, ProcessWorse, ShapeInv
  <2>2. lev'.eqlev_canon \in {lev.eqlev_canon, node.level}
    <3>1. \/ lev' = lev \/ lev' = [lev EXCEPT !.noncheaplevel = node.level + 1]
          \/ lev' = [lev EXCEPT !.comp_canon = 0] \/ lev' = [lev EXCEPT !.comp_canon = Comparison.comp]
          \/ lev' = [lev EXCEPT !.eqlev_canon = node.level, !.gca_canon = node.level, !.comp_canon = 0]
      BY <1>12 DEF ProcessInternal, ProcessLikeFirst, ProcessLikeBest, ProcessBetter, ProcessWorse
    <3> QED
      BY <2>1, <3>1 DEF Levels
  <2>3. lev.eqlev_canon = -1
    BY <2>1, <2>2
  <2> QED
    BY <1>1, <2>1, <2>3
<1>13. CASE Answer
  BY <1>13 DEF Answer
<1>14. CASE RefineNode \/ Done \/ UNCHANGED vars
  <2>1. /\ pc' = pc /\ graph' = graph /\ orbits' = orbits /\ node' = node /\ stack' = stack /\ lev' = lev
    BY <1>14 DEF RefineNode, Done, vars, searchVars
  <2> QED
    BY <2>1 DEF FirstLeafInv, Top
<1> QED
  BY <1>3, <1>4, <1>5, <1>6, <1>7, <1>8, <1>9, <1>10, <1>11, <1>12, <1>13, <1>14 DEF Next

-----------------------------------------------------------------------------
(* The levels that steer the search.                                       *)

\* Steps that leave the levels the search returns to as they are.
Steady ==
    /\ lev'.gca_first = lev.gca_first /\ lev'.gca_canon = lev.gca_canon
    /\ lev'.eqlev_canon = lev.eqlev_canon /\ lev'.noncheaplevel = lev.noncheaplevel

\* The steps that leave the levels of leaves and of cheap orderings alone.
LEMMA SteadySteps ==
    ASSUME ShapeInv,
           \/ RefineNode \/ FirstPathChild \/ FirstPathSkip \/ FirstPathEnd \/ OtherChild \/ OtherEnd
           \/ ProcessLikeFirst \/ ProcessLikeBest \/ ProcessWorse \/ Answer \/ Done \/ UNCHANGED vars
    PROVE  Steady
<1>1. lev \in Levels
  BY DEF ShapeInv
<1>2. CASE lev' = lev
  BY <1>2 DEF Steady
<1>3. CASE FirstPathChild
  BY <1>1, <1>3 DEF Steady, FirstPathChild, Levels
<1>4. CASE FirstPathEnd
  BY <1>1, <1>4 DEF Steady, FirstPathEnd, Levels
<1>5. CASE ProcessLikeBest
  <2>1. lev' = [lev EXCEPT !.comp_canon = 0]
    BY <1>5 DEF ProcessLikeBest
  <2> QED
    BY <1>1, <2>1 DEF Steady, Levels
<1>6. CASE ProcessWorse
  <2>1. lev' = lev \/ lev' = [lev EXCEPT !.comp_canon = Comparison.comp]
    BY <1>6 DEF ProcessWorse
  <2> QED
    BY <1>1, <2>1 DEF Steady, Levels
<1>7. RefineNode \/ FirstPathSkip \/ OtherChild \/ OtherEnd \/ ProcessLikeFirst \/ Answer \/ Done \/ UNCHANGED vars
        => lev' = lev
  BY DEF RefineNode, FirstPathSkip, OtherChild, OtherEnd, ProcessLikeFirst, Answer, Done, vars, searchVars
<1> QED
  BY <1>2, <1>3, <1>4, <1>5, <1>6, <1>7

\* A node put on the stack moves only noncheaplevel.
LEMMA PushWrites ==
    ASSUME ShapeInv, FirstPathNode \/ ProcessInternal
    PROVE  /\ lev'.gca_first = lev.gca_first /\ lev'.gca_canon = lev.gca_canon
           /\ lev'.eqlev_canon = lev.eqlev_canon
           /\ \/ lev'.noncheaplevel = node.level + 1
              \/ lev'.noncheaplevel = lev.noncheaplevel /\ lev.noncheaplevel < node.level
<1>1. lev \in Levels /\ node.level \in Nat
  BY DEF ShapeInv
<1>2. CASE FirstPathNode
  BY <1>1, <1>2 DEF FirstPathNode, Levels
<1>3. CASE ProcessInternal
  BY <1>1, <1>3 DEF ProcessInternal, Levels
<1> QED
  BY <1>2, <1>3

\* The first leaf, and a better one.
LEMMA LeafWrites ==
    ASSUME ShapeInv
    PROVE  /\ FirstTerminal => lev'.gca_first = node.level /\ lev'.eqlev_canon = node.level
                               /\ lev'.noncheaplevel = lev.noncheaplevel
           /\ ProcessBetter => /\ lev'.gca_first = lev.gca_first /\ lev'.eqlev_canon = node.level
                               /\ lev'.noncheaplevel = lev.noncheaplevel
<1>1. lev \in Levels
  BY DEF ShapeInv
<1>2. CASE FirstTerminal
  BY <1>1, <1>2 DEF FirstTerminal, Levels, ProcessBetter, Refined
<1>3. CASE ProcessBetter
  <2>1. lev' = [lev EXCEPT !.eqlev_canon = node.level, !.gca_canon = node.level, !.comp_canon = 0]
    BY <1>3 DEF ProcessBetter
  <2> QED
    BY <1>1, <1>3, <2>1 DEF Levels, ProcessBetter, FirstTerminal, Refined
<1> QED
  BY <1>2, <1>3

\* The return to a node.
LEMMA ReturnWrites ==
    ASSUME ShapeInv, LevelInv, FirstPathReturn \/ OtherReturn
    PROVE  /\ lev'.gca_first = IF AtFirstChild(Top) THEN Len(stack) ELSE lev.gca_first
           /\ lev'.gca_canon <= Len(stack)
           /\ lev'.eqlev_canon \in {lev.eqlev_canon, Len(stack)}
           /\ lev'.noncheaplevel <= Len(stack) + 1
           /\ lev.noncheaplevel >= 1 => lev'.noncheaplevel >= 1
<1>1. /\ pc = "return" /\ stack # <<>>
      /\ lev' = IF Top.first THEN Recover(Ancestor(lev), Top.level) ELSE Recover(lev, Top.level)
  BY DEF FirstPathReturn, OtherReturn
<1>2. Top.level = Len(stack) /\ Len(stack) \in Nat
  BY <1>1, StackBelow
<1>3. /\ lev \in Levels /\ Ancestor(lev) \in Levels
      /\ Ancestor(lev) = IF Top.tv = Top.tv1 THEN [lev EXCEPT !.gca_first = Top.level] ELSE lev
  BY <1>1, TopLevel DEF ShapeInv
<1> DEFINE m == IF Top.first THEN Ancestor(lev) ELSE lev
<1>4. PICK l : l = m
  OBVIOUS
<1>5. /\ l \in Levels /\ l.gca_first = IF AtFirstChild(Top) THEN Len(stack) ELSE lev.gca_first
      /\ l.gca_canon = lev.gca_canon /\ l.eqlev_canon = lev.eqlev_canon /\ l.noncheaplevel = lev.noncheaplevel
  BY <1>2, <1>3, <1>4 DEF AtFirstChild, Levels
<1>6. lev' = Recover(l, Len(stack))
  BY <1>1, <1>2, <1>4
<1>7. /\ lev'.noncheaplevel = IF Len(stack) < l.noncheaplevel THEN Len(stack) + 1 ELSE l.noncheaplevel
      /\ lev'.gca_canon = IF Len(stack) < l.gca_canon THEN Len(stack) ELSE l.gca_canon
      /\ lev'.eqlev_canon = IF Len(stack) <= l.eqlev_canon THEN Len(stack) ELSE l.eqlev_canon
      /\ lev'.gca_first = l.gca_first
  BY <1>2, <1>5, <1>6, RecoverIs
<1>8. l.noncheaplevel \in Nat /\ l.gca_canon \in Nat /\ l.eqlev_canon \in Int
  BY <1>5 DEF Levels
<1> QED
  BY <1>2, <1>5, <1>7, <1>8

\* and the one through it.
LEMMA PassWrites ==
    ASSUME ShapeInv, LevelInv, PassReturn
    PROVE  /\ lev'.gca_first = IF AtFirstChild(Top) THEN Len(stack) ELSE lev.gca_first
           /\ lev'.gca_canon = lev.gca_canon /\ lev'.eqlev_canon = lev.eqlev_canon
           /\ lev'.noncheaplevel = lev.noncheaplevel
<1>1. pc = "return" /\ stack # <<>> /\ lev' = IF Top.first THEN Ancestor(lev) ELSE lev
  BY DEF PassReturn
<1>2. Top.level = Len(stack) /\ Len(stack) \in Nat
  BY <1>1, StackBelow
<1>3. lev \in Levels /\ Ancestor(lev) = IF Top.tv = Top.tv1 THEN [lev EXCEPT !.gca_first = Top.level] ELSE lev
  BY <1>1, TopLevel DEF ShapeInv
<1> QED
  BY <1>1, <1>2, <1>3 DEF AtFirstChild, Levels

\* computeCanonSparse forgets the leaves of the last call.
LEMMA CallWrites ==
    ASSUME ShapeInv, ComputeCanonSparse
    PROVE  pc = "idle" /\ lev'.eqlev_canon = -1 /\ lev'.noncheaplevel = 1
<1>1. lev \in Levels /\ pc = "idle"
  BY DEF ShapeInv, ComputeCanonSparse
<1>2. lev' = [lev EXCEPT !.noncheaplevel = 1, !.eqlev_canon = -1]
  BY DEF ComputeCanonSparse
<1> QED
  BY <1>1, <1>2 DEF Levels

\* The search is in progress only after the first leaf.
LEMMA SearchingBefore ==
    ASSUME ShapeInv, LevelInv, FirstLeafInv, [Next]_vars, Searching', ~FirstTerminal
    PROVE  Searching
<1> SUFFICES ASSUME ~Searching PROVE FALSE
  OBVIOUS
<1>1. pc' # "idle" /\ lev'.eqlev_canon # -1 /\ (pc = "idle" \/ lev.eqlev_canon = -1)
  BY DEF Searching
<1>2. CASE pc = "idle"
  <2>1. ComputeCanonSparse \/ Done \/ UNCHANGED vars
    BY <1>2 DEF Next, RefineNode, FirstPathNode, FirstTerminal, FirstPathChild, FirstPathSkip, FirstPathEnd,
                FirstPathReturn, PassReturn, OtherNode, OtherChild, OtherEnd, OtherReturn, ProcessInternal,
                ProcessLikeFirst, ProcessLikeBest, ProcessBetter, ProcessWorse, Answer, Refined
  <2>2. CASE ComputeCanonSparse
    BY <1>1, <2>2, CallWrites
  <2>3. CASE Done \/ UNCHANGED vars
    BY <1>1, <1>2, <2>3 DEF Done, vars
  <2> QED
    BY <2>1, <2>2, <2>3
<1>3. CASE pc # "idle"
  <2>1. (pc = "doref" /\ node.first) \/ (pc = "loop" /\ Top.first)
    BY <1>1, <1>3 DEF FirstLeafInv
  <2>2. \/ RefineNode \/ FirstPathNode \/ FirstPathChild \/ FirstPathSkip \/ FirstPathEnd \/ Done \/ UNCHANGED vars
    BY <1>3, <2>1 DEF Next, ComputeCanonSparse, OtherNode, Refined, FirstPathReturn, PassReturn, OtherChild,
                      OtherEnd, OtherReturn, ProcessInternal, ProcessLikeFirst, ProcessLikeBest, ProcessBetter,
                      ProcessWorse, Answer
  <2>3. lev'.eqlev_canon = lev.eqlev_canon
    BY <2>2, SteadySteps, PushWrites DEF Steady
  <2> QED
    BY <1>1, <1>3, <2>3
<1> QED
  BY <1>2, <1>3

\* Level noncheaplevel is that of the node, of its child or of an ancestor.
LEMMA CheapStep == ShapeInv /\ LevelInv /\ CheapInv /\ [Next]_vars => CheapInv'
<1> SUFFICES ASSUME ShapeInv, LevelInv, CheapInv, [Next]_vars PROVE CheapInv'
  OBVIOUS
<1>1. CASE ComputeCanonSparse
  <2>1. lev'.eqlev_canon = -1 /\ lev'.noncheaplevel = 1 /\ stack' = <<>>
    BY <1>1, CallWrites DEF ComputeCanonSparse
  <2> QED
    BY <2>1 DEF CheapInv
<1>2. CASE FirstPathChild \/ OtherChild
  <2>1. TopWritten /\ pc = "loop" /\ Steady
    BY <1>2, ChildWritesTop, SteadySteps
  <2> QED
    BY <2>1 DEF CheapInv, TopWritten, Steady
<1>3. CASE FirstPathSkip
  <2>1. TopWritten /\ Steady /\ pc = "loop"
    BY <1>3, OthersWriteTop, SteadySteps DEF FirstPathSkip
  <2> QED
    BY <2>1 DEF CheapInv, TopWritten, Steady
<1>4. CASE FirstPathReturn \/ OtherReturn
  <2>1. TopWritten /\ pc # "idle"
    BY <1>4, OthersWriteTop
  <2>2. /\ lev'.eqlev_canon \in {lev.eqlev_canon, Len(stack)}
        /\ lev'.noncheaplevel <= Len(stack) + 1
        /\ lev.noncheaplevel >= 1 => lev'.noncheaplevel >= 1
    BY <1>4, ReturnWrites
  <2>3. Len(stack) \in Nat
    BY <2>1, StackBelow
  <2> QED
    BY <2>1, <2>2, <2>3 DEF CheapInv, TopWritten
<1>5. CASE FirstPathNode \/ ProcessInternal
  <2>1. PICK f : Pushed(f)
    BY <1>5, NodePushed
  <2>2. pc \in {"doref", "process"} /\ pc' = "loop"
    BY <1>5, NodePushed
  <2>3. stack \in Seq(GoodFrames(graph)) /\ f \in GoodFrames(graph) /\ stack' = Append(stack, f)
    BY <2>1, <2>2 DEF ShapeInv, Pushed
  <2>4. Len(stack) \in Nat /\ Len(stack') = Len(stack) + 1
    BY <2>3, AppendIs
  <2>5. node.level = Len(stack) + 1
    BY <2>2, NodeBelow
  <2>6. /\ lev'.eqlev_canon = lev.eqlev_canon
        /\ \/ lev'.noncheaplevel = node.level + 1
           \/ lev'.noncheaplevel = lev.noncheaplevel /\ lev.noncheaplevel < node.level
    BY <1>5, PushWrites
  <2>7. lev.noncheaplevel \in Nat
    BY DEF ShapeInv, Levels
  <2> QED
    BY <2>2, <2>4, <2>5, <2>6, <2>7 DEF CheapInv
<1>6. CASE FirstPathEnd \/ OtherEnd \/ PassReturn
  <2>1. pc' = "return" /\ pc # "idle"
    BY <1>6, NodePopped
  <2>2. lev'.eqlev_canon = lev.eqlev_canon /\ lev'.noncheaplevel = lev.noncheaplevel
    BY <1>6, SteadySteps, PassWrites DEF Steady
  <2> QED
    BY <2>1, <2>2 DEF CheapInv
<1>7. CASE Unmoved
  <2>1. /\ stack' = stack
        /\ pc' = "loop" => pc = "loop"
        /\ pc' \in {"doref", "process"} => pc \in {"doref", "process"}
    BY <1>7, StackUnmoved
  <2>2. pc' # "idle" => pc # "idle"
    BY <1>7 DEF Unmoved, RefineNode, FirstTerminal, OtherNode, Refined, Answer, Done, vars, ProcessLikeFirst,
                ProcessLikeBest, ProcessBetter, ProcessWorse
  <2>3. /\ lev'.noncheaplevel = lev.noncheaplevel
        /\ lev'.eqlev_canon \in {lev.eqlev_canon, node.level}
    BY <1>7, SteadySteps, LeafWrites, ShapeOtherNode DEF Steady, Unmoved
  <2>4. node.level \in Nat
    BY DEF ShapeInv
  <2> QED
    BY <2>1, <2>2, <2>3, <2>4 DEF CheapInv
<1> QED
  BY <1>1, <1>2, <1>3, <1>4, <1>5, <1>6, <1>7 DEF Next, Unmoved

\* The frame of level gca_first.
OnFirstPath ==
    \/ lev.gca_first <= Len(stack) /\ stack[lev.gca_first].first
    \/ pc = "return" /\ (stack # <<>> => AtFirstChild(Top))

\* What the leaves are.
LEMMA LeavesStep == ShapeInv /\ LevelInv /\ FirstLeafInv /\ LeavesInv /\ [Next]_vars => LeavesInv'
<1> SUFFICES ASSUME ShapeInv, LevelInv, FirstLeafInv, LeavesInv, [Next]_vars, Searching'
             PROVE  /\ DOMAIN first'.lab = Vertices(graph')
                    /\ DOMAIN bsf'.lab = Vertices(graph')
                    /\ first' = [lab |-> first'.lab, code |-> first'.code, tc |-> first'.tc]
                    /\ bsf' = [lab |-> bsf'.lab, code |-> bsf'.code, level |-> bsf'.level]
  BY DEF LeavesInv
<1>1. pc \in {"doref", "process"} => DOMAIN Lab = Vertices(graph)
  <2>1. DOMAIN Lab = DOMAIN ref.part
    BY DEF Lab, LabOf
  <2> QED
    BY <2>1 DEF ShapeInv, RefInv, IsPartition
<1>2. CASE FirstTerminal
  <2>1. /\ first'.lab = Lab /\ bsf'.lab = Lab /\ graph' = graph /\ pc = "doref"
        /\ first' = [lab |-> first'.lab, code |-> first'.code, tc |-> first'.tc]
        /\ bsf' = [lab |-> bsf'.lab, code |-> bsf'.code, level |-> bsf'.level]
    BY <1>2 DEF FirstTerminal, Refined, Lab
  <2> QED
    BY <1>1, <2>1
<1>3. CASE ~FirstTerminal
  <2>1. Searching
    BY <1>3, SearchingBefore
  <2>2. /\ DOMAIN first.lab = Vertices(graph) /\ DOMAIN bsf.lab = Vertices(graph)
        /\ first = [lab |-> first.lab, code |-> first.code, tc |-> first.tc]
        /\ bsf = [lab |-> bsf.lab, code |-> bsf.code, level |-> bsf.level]
    BY <2>1 DEF LeavesInv
  <2>3. graph' = graph
    BY <1>3, <2>1 DEF Next, vars, searchVars, ComputeCanonSparse, RefineNode, FirstPathNode, FirstPathChild,
                FirstPathSkip, FirstPathEnd, FirstPathReturn, PassReturn, OtherNode, OtherChild, OtherEnd,
                OtherReturn, ProcessInternal, ProcessLikeFirst, ProcessLikeBest, ProcessBetter, ProcessWorse,
                Answer, Done, Searching
  <2>4. CASE FirstPathNode
    <3>1. PICK l, c, d : first = [lab |-> l, code |-> c, tc |-> d]
      BY <2>2
    <3>2. PICK e, g : first' = [first EXCEPT !.code = e, !.tc = g] /\ bsf' = bsf
      BY <2>4 DEF FirstPathNode
    <3>3. first' = [lab |-> l, code |-> e, tc |-> g]
      BY <3>1, <3>2
    <3>4. first'.lab = first.lab /\ first' = [lab |-> first'.lab, code |-> first'.code, tc |-> first'.tc]
      BY <3>1, <3>3
    <3> QED
      BY <2>2, <2>3, <3>2, <3>4
  <2>5. CASE OtherNode
    <3>1. first' = first /\ (bsf' = bsf \/ bsf' = [bsf EXCEPT !.code = Put(@, node.level, ref.code)])
      BY <2>5 DEF OtherNode
    <3>2. PICK l, c, v : bsf = [lab |-> l, code |-> c, level |-> v]
      BY <2>2
    <3>3. bsf'.lab = bsf.lab /\ bsf' = [lab |-> bsf'.lab, code |-> bsf'.code, level |-> bsf'.level]
      <4>1. CASE bsf' = bsf
        BY <2>2, <4>1
      <4>2. CASE bsf' = [bsf EXCEPT !.code = Put(@, node.level, ref.code)]
        <5>1. PICK d : d = Put(bsf.code, node.level, ref.code)
          OBVIOUS
        <5>2. bsf' = [lab |-> l, code |-> d, level |-> v]
          BY <3>2, <4>2, <5>1
        <5> QED
          BY <3>2, <5>2
      <4> QED
        BY <3>1, <4>1, <4>2
    <3> QED
      BY <2>2, <2>3, <3>1, <3>3
  <2>6. CASE ProcessBetter
    <3>1. /\ first' = first /\ bsf'.lab = Lab /\ pc = "process"
          /\ bsf' = [lab |-> bsf'.lab, code |-> bsf'.code, level |-> bsf'.level]
      BY <2>6 DEF ProcessBetter
    <3> QED
      BY <1>1, <2>2, <2>3, <3>1
  <2>7. CASE ~FirstPathNode /\ ~OtherNode /\ ~ProcessBetter
    <3>1. first' = first /\ bsf' = bsf
      BY <1>3, <2>7 DEF Next, vars, searchVars, ComputeCanonSparse, RefineNode, FirstPathChild,
                FirstPathSkip, FirstPathEnd, FirstPathReturn, PassReturn, OtherChild, OtherEnd,
                OtherReturn, ProcessInternal, ProcessLikeFirst, ProcessLikeBest, ProcessWorse,
                Answer, Done
    <3> QED
      BY <2>2, <2>3, <3>1
  <2> QED
    BY <2>4, <2>5, <2>6, <2>7
<1> QED
  BY <1>2, <1>3

\* What the disjunction of OnFirstPath leaves when the top is popped.
LEMMA PopOnFirstPath ==
    ASSUME ShapeInv, LevelInv, PathInv, FirstPathEnd \/ OtherEnd \/ PassReturn, lev.gca_first >= 1, OnFirstPath,
           NEW g, g = IF PassReturn /\ AtFirstChild(Top) THEN Len(stack) ELSE lev.gca_first
    PROVE  \/ g <= Len(stack') /\ stack'[g].first
           \/ stack' # <<>> => AtFirstChild(Top')
<1>1. /\ pc \in {"loop", "return"} /\ pc' = "return" /\ stack # <<>>
      /\ Len(stack) \in Nat /\ Len(stack) > 0 /\ Len(stack') = Len(stack) - 1
      /\ \A i \in 1..(Len(stack) - 1) : stack'[i] = stack[i]
  BY NodePopped
<1>2. /\ stack' # <<>> => Len(stack') > 0
  <2>1. ShapeInv' /\ graph' = graph
    BY ShapeStep, NodePopped DEF Next
  <2>2. stack' \in Seq(GoodFrames(graph'))
    BY <1>1, <2>1 DEF ShapeInv
  <2> QED
    BY <2>2
<1>3. ASSUME Top.first PROVE stack' # <<>> => AtFirstChild(Top')
  <2> SUFFICES ASSUME stack' # <<>> PROVE AtFirstChild(Top')
    OBVIOUS
  <2>1. Len(stack) \in 2..Len(stack) /\ Len(stack) - 1 \in 1..(Len(stack) - 1)
    BY <1>1, <1>2
  <2>2. AtFirstChild(stack[Len(stack) - 1])
    BY <1>3, <2>1 DEF PathInv, Top
  <2>3. Top' = stack[Len(stack) - 1]
    BY <1>1, <2>1 DEF Top
  <2> QED
    BY <2>2, <2>3
<1>4. ASSUME ~Top.first PROVE g <= Len(stack') /\ stack'[g].first
  <2>1. ~AtFirstChild(Top) /\ g = lev.gca_first
    BY <1>4 DEF AtFirstChild
  <2>2. lev.gca_first <= Len(stack) /\ stack[lev.gca_first].first
    BY <1>1, <2>1 DEF OnFirstPath
  <2>3. lev.gca_first # Len(stack)
    BY <1>4, <2>2 DEF Top
  <2>4. lev.gca_first \in Nat
    BY DEF ShapeInv, Levels
  <2>5. lev.gca_first \in 1..(Len(stack) - 1)
    BY <1>1, <2>2, <2>3, <2>4
  <2> QED
    BY <1>1, <2>1, <2>2, <2>5
<1> QED
  BY <1>3, <1>4

\* The levels a leaf returns to are those of ancestors.
LEMMA AncestorStep ==
    ShapeInv /\ LevelInv /\ PathInv /\ FirstLeafInv /\ AncestorInv /\ [Next]_vars => AncestorInv'
<1> SUFFICES ASSUME ShapeInv, LevelInv, PathInv, FirstLeafInv, AncestorInv, [Next]_vars, Searching'
             PROVE  /\ lev'.gca_first >= 1
                    /\ OnFirstPath'
                    /\ pc' \in {"doref", "process", "loop"} => lev'.gca_canon <= Len(stack')
  BY DEF AncestorInv, OnFirstPath
<1>1. CASE FirstTerminal
  <2>1. pc = "doref" /\ node.first /\ pc' = "return" /\ stack' = stack /\ lev'.gca_first = node.level
    BY <1>1, LeafWrites DEF FirstTerminal, Refined, Return
  <2>2. node.level >= 1
    BY <2>1, NodeBelow
  <2>3. stack' # <<>> => AtFirstChild(Top')
    BY <2>1 DEF PathInv, Top
  <2> QED
    BY <2>1, <2>2, <2>3 DEF OnFirstPath
<1>2. CASE ~FirstTerminal
  <2>1. Searching /\ pc # "idle"
    BY <1>2, SearchingBefore DEF Searching
  <2>2. /\ lev.gca_first >= 1 /\ OnFirstPath
        /\ pc \in {"doref", "process", "loop"} => lev.gca_canon <= Len(stack)
    BY <2>1 DEF AncestorInv, OnFirstPath
  <2>3. /\ lev.gca_first \in Nat /\ lev.gca_canon \in Nat /\ Len(stack) \in Nat
        /\ stack # <<>> => Len(stack) > 0
    BY <2>1, StackBelow DEF ShapeInv, Levels
  <2>4. CASE FirstPathChild \/ OtherChild \/ FirstPathSkip
    <3>1. TopWritten /\ pc = "loop" /\ pc' \in {"loop", "doref"} /\ Steady
      BY <2>4, ChildWritesTop, OthersWriteTop, SteadySteps DEF FirstPathSkip
    <3>2. lev.gca_first <= Len(stack) /\ stack[lev.gca_first].first
      BY <2>2, <3>1 DEF OnFirstPath
    <3>3. stack'[lev.gca_first].first
      <4>1. CASE lev.gca_first = Len(stack)
        BY <3>1, <3>2, <4>1 DEF TopWritten, Top
      <4>2. CASE lev.gca_first \in 1..(Len(stack) - 1)
        BY <3>1, <3>2, <4>2 DEF TopWritten
      <4> QED
        BY <2>2, <2>3, <3>2, <4>1, <4>2
    <3> QED
      BY <2>2, <3>1, <3>2, <3>3 DEF OnFirstPath, TopWritten, Steady
  <2>5. CASE FirstPathReturn \/ OtherReturn
    <3>1. TopWritten /\ pc = "return" /\ pc' = "loop"
      BY <2>5, OthersWriteTop DEF FirstPathReturn, OtherReturn
    <3>2. /\ lev'.gca_first = IF AtFirstChild(Top) THEN Len(stack) ELSE lev.gca_first
          /\ lev'.gca_canon <= Len(stack)
      BY <2>5, ReturnWrites
    <3>3. Len(stack) > 0 /\ Len(stack') = Len(stack)
      BY <2>3, <3>1 DEF TopWritten
    <3>4. CASE AtFirstChild(Top)
      <4>1. stack'[Len(stack)].first
        BY <3>1, <3>4 DEF TopWritten, AtFirstChild
      <4> QED
        BY <2>3, <3>2, <3>3, <3>4, <4>1 DEF OnFirstPath
    <3>5. CASE ~AtFirstChild(Top)
      <4>1. lev.gca_first <= Len(stack) /\ stack[lev.gca_first].first
        BY <2>2, <3>1, <3>5 DEF OnFirstPath, TopWritten
      <4>2. stack'[lev.gca_first].first
        <5>1. CASE lev.gca_first = Len(stack)
          BY <3>1, <4>1, <5>1 DEF TopWritten, Top
        <5>2. CASE lev.gca_first \in 1..(Len(stack) - 1)
          BY <3>1, <4>1, <5>2 DEF TopWritten
        <5> QED
          BY <2>2, <2>3, <4>1, <5>1, <5>2
      <4> QED
        BY <2>2, <3>2, <3>3, <3>5, <4>1, <4>2 DEF OnFirstPath
    <3> QED
      BY <3>4, <3>5
  <2>6. CASE FirstPathNode \/ ProcessInternal
    <3>1. PICK f : Pushed(f)
      BY <2>6, NodePushed
    <3>2. pc \in {"doref", "process"} /\ pc' = "loop"
      BY <2>6, NodePushed
    <3>3. stack \in Seq(GoodFrames(graph)) /\ f \in GoodFrames(graph) /\ stack' = Append(stack, f)
      BY <3>1, <3>2 DEF ShapeInv, Pushed
    <3>4. Len(stack') = Len(stack) + 1 /\ \A i \in 1..Len(stack) : stack'[i] = stack[i]
      BY <3>3, AppendIs
    <3>5. lev'.gca_first = lev.gca_first /\ lev'.gca_canon = lev.gca_canon
      BY <2>6, PushWrites
    <3>6. lev.gca_first <= Len(stack) /\ stack[lev.gca_first].first
      BY <2>2, <3>2 DEF OnFirstPath
    <3>7. lev.gca_first \in 1..Len(stack)
      BY <2>2, <2>3, <3>6
    <3> QED
      BY <2>2, <2>3, <3>2, <3>4, <3>5, <3>6, <3>7 DEF OnFirstPath
  <2>7. CASE FirstPathEnd \/ OtherEnd \/ PassReturn
    <3> DEFINE g == IF PassReturn /\ AtFirstChild(Top) THEN Len(stack) ELSE lev.gca_first
    <3>1. pc' = "return" /\ stack # <<>>
      BY <2>7, NodePopped
    <3>2. lev'.gca_first = g
      <4>1. CASE PassReturn
        BY <4>1, PassWrites
      <4>2. CASE ~PassReturn
        BY <2>7, <4>2, SteadySteps DEF Steady
      <4> QED
        BY <4>1, <4>2
    <3>3. \/ g <= Len(stack') /\ stack'[g].first
          \/ stack' # <<>> => AtFirstChild(Top')
      BY <2>2, <2>7, PopOnFirstPath
    <3>4. g >= 1
      BY <2>2, <2>3, <3>1
    <3> QED
      BY <3>1, <3>2, <3>3, <3>4 DEF OnFirstPath
  <2>8. CASE Unmoved
    <3>1. /\ stack' = stack
          /\ pc' = "loop" => pc = "loop"
          /\ pc' \in {"doref", "process"} => pc \in {"doref", "process"}
      BY <2>8, StackUnmoved
    <3>2. lev'.gca_first = lev.gca_first
      BY <1>2, <2>8, SteadySteps, LeafWrites, ShapeOtherNode DEF Steady, Unmoved
    <3>3. pc' \in {"doref", "process", "loop"} => lev'.gca_canon = lev.gca_canon
      <4>1. ProcessBetter => pc' = "return"
        BY DEF ProcessBetter, LeaveLeaf, Return
      <4> QED
        BY <1>2, <2>8, <4>1, SteadySteps, ShapeOtherNode DEF Steady, Unmoved
    <3>4. pc = "return" => pc' = "return"
      BY <2>1, <2>8 DEF Unmoved, RefineNode, FirstTerminal, OtherNode, Refined, Answer, Done, vars, ProcessLikeFirst,
                 ProcessLikeBest, ProcessBetter, ProcessWorse, Return, LeaveLeaf, Searching
    <3> QED
      BY <2>2, <3>1, <3>2, <3>3, <3>4 DEF OnFirstPath, Top
  <2>9. CASE ComputeCanonSparse
    BY <2>1, <2>9 DEF ComputeCanonSparse
  <2> QED
    BY <1>2, <2>4, <2>5, <2>6, <2>7, <2>8, <2>9 DEF Next, Unmoved
<1> QED
  BY <1>1, <1>2

-----------------------------------------------------------------------------
(* Returns.                                                                *)

\* At a leaf the levels to return to are those of ancestors.
LEMMA LeafReturns ==
    ASSUME ShapeInv, LevelInv, CheapInv, AncestorInv, FirstLeafInv, pc = "process"
    PROVE  /\ Searching /\ Len(stack) \in Nat /\ Len(stack) < n /\ node.level = Len(stack) + 1 /\ n \in Nat
           /\ lev.gca_first \in 0..Len(stack) /\ lev.gca_canon \in 0..Len(stack)
           /\ lev.noncheaplevel \in 1..(Len(stack) + 1)
           /\ lev.eqlev_canon \in Nat /\ lev.allsamelevel \in Int
<1>1. Len(stack) \in Nat /\ Len(stack) < n /\ node.level = Len(stack) + 1 /\ n \in Nat
  BY StackBelow, NodeBelow
<1>2. lev.eqlev_canon # -1
  BY DEF FirstLeafInv
<1>3. Searching
  BY <1>2 DEF Searching
<1>4. /\ lev.gca_first \in Nat /\ lev.gca_canon \in Nat /\ lev.noncheaplevel \in Nat /\ lev.eqlev_canon \in Int
      /\ lev.allsamelevel \in Int
  BY DEF ShapeInv, Levels
<1>5. lev.gca_first <= Len(stack) /\ lev.gca_canon <= Len(stack)
  BY <1>3 DEF AncestorInv
<1>6. lev.eqlev_canon >= -1 /\ lev.noncheaplevel >= 1 /\ lev.noncheaplevel <= Len(stack) + 1
  BY DEF CheapInv
<1> QED
  BY <1>1, <1>2, <1>3, <1>4, <1>5, <1>6

\* A leaf without an automorphism returns to a level above the node.
LEMMA LeaveIs ==
    ASSUME ShapeInv, LevelInv, CheapInv, AncestorInv, FirstLeafInv, pc = "process", NEW l, LeaveLeaf(l),
           l.noncheaplevel = lev.noncheaplevel, l.eqlev_canon \in Nat, l.allsamelevel \in Int
    PROVE  /\ rtn' \in 0..Len(stack)
           /\ pairs' = pairs \/ \E i \in 1..Len(stack) : pairs' = Store(Fmptn(stack[i].part))
<1> DEFINE save == IF l.allsamelevel > l.eqlev_canon THEN l.allsamelevel - 1 ELSE l.eqlev_canon
           newlevel == IF l.noncheaplevel <= save THEN l.noncheaplevel - 1 ELSE save
<1>1. /\ Len(stack) \in Nat /\ node.level = Len(stack) + 1
      /\ lev.noncheaplevel \in 1..(Len(stack) + 1)
  BY LeafReturns
<1>2. rtn' = newlevel
  BY DEF LeaveLeaf, Return
<1>3. save \in Nat
  OBVIOUS
<1>4. newlevel \in 0..Len(stack)
  <2> HIDE DEF save
  <2> QED
    BY <1>1, <1>3
<1>5. CASE node.level # l.noncheaplevel
  <2>1. pairs' = Store(Fmptn(stack[l.noncheaplevel].part))
    BY <1>5 DEF LeaveLeaf
  <2>2. l.noncheaplevel \in 1..Len(stack)
    BY <1>1, <1>5
  <2> QED
    BY <1>2, <1>4, <2>1, <2>2
<1>6. CASE node.level = l.noncheaplevel
  <2>1. pairs' = pairs
    BY <1>6 DEF LeaveLeaf
  <2> QED
    BY <1>2, <1>4, <2>1
<1> QED
  BY <1>5, <1>6

\* The four ends of a leaf.
LEMMA LeafEnds ==
    ASSUME ShapeInv, LevelInv, CheapInv, AncestorInv, LeavesInv, FirstLeafInv,
           ProcessLikeFirst \/ ProcessLikeBest \/ ProcessBetter \/ ProcessWorse
    PROVE  /\ rtn' \in 0..Len(stack)
           /\ \/ pairs' = pairs
              \/ \E i \in 1..Len(stack) : pairs' = Store(Fmptn(stack[i].part))
              \/ \E perm : DOMAIN perm = Vertices(graph) /\ pairs' = Store(Fmperm(perm))
<1>1. pc = "process"
  BY DEF ProcessLikeFirst, ProcessLikeBest, ProcessBetter, ProcessWorse
<1>2. /\ Searching /\ lev.gca_first \in 0..Len(stack) /\ lev.gca_canon \in 0..Len(stack)
      /\ lev.eqlev_canon \in Nat /\ lev.allsamelevel \in Int
  BY <1>1, LeafReturns
<1>3. DOMAIN first.lab = Vertices(graph) /\ DOMAIN bsf.lab = Vertices(graph)
  BY <1>2 DEF LeavesInv
<1>4. lev \in Levels /\ node.level \in Nat
  BY DEF ShapeInv
<1>5. CASE ProcessLikeFirst
  <2>1. PICK perm : perm = PermFrom(first.lab)
    OBVIOUS
  <2>2. DOMAIN perm = Vertices(graph)
    BY <1>3, <2>1 DEF PermFrom
  <2>3. rtn' = lev.gca_first /\ pairs' = Store(Fmperm(perm))
    BY <1>5, <2>1 DEF ProcessLikeFirst, Return
  <2> QED
    BY <1>2, <2>2, <2>3
<1>6. CASE ProcessLikeBest
  <2>1. PICK perm : perm = PermFrom(bsf.lab)
    OBVIOUS
  <2>2. DOMAIN perm = Vertices(graph)
    BY <1>3, <2>1 DEF PermFrom
  <2>3. rtn' \in {lev.gca_first, lev.gca_canon} /\ pairs' = Store(Fmperm(perm))
    BY <1>6, <2>1 DEF ProcessLikeBest, Return
  <2> QED
    BY <1>2, <2>2, <2>3
<1>7. CASE ProcessBetter
  <2>1. PICK l : l = [lev EXCEPT !.eqlev_canon = node.level, !.gca_canon = node.level, !.comp_canon = 0]
    OBVIOUS
  <2>2. LeaveLeaf(l)
    BY <1>7, <2>1 DEF ProcessBetter
  <2>3. l.noncheaplevel = lev.noncheaplevel /\ l.eqlev_canon = node.level /\ l.allsamelevel = lev.allsamelevel
    BY <1>4, <2>1 DEF Levels
  <2> QED
    BY <1>1, <1>2, <1>4, <2>2, <2>3, LeaveIs
<1>8. CASE ProcessWorse
  <2>1. PICK l : l = lev'
    OBVIOUS
  <2>2. LeaveLeaf(l) /\ (l = lev \/ l = [lev EXCEPT !.comp_canon = Comparison.comp])
    BY <1>8, <2>1 DEF ProcessWorse
  <2>3. l.noncheaplevel = lev.noncheaplevel /\ l.eqlev_canon = lev.eqlev_canon /\ l.allsamelevel = lev.allsamelevel
    BY <1>4, <2>2 DEF Levels
  <2> QED
    BY <1>1, <1>2, <1>4, <2>2, <2>3, LeaveIs
<1> QED
  BY <1>5, <1>6, <1>7, <1>8

\* A return ends at a node of the stack, or after the last one.
LEMMA ReturnStep ==
    /\ ShapeInv /\ LevelInv /\ CheapInv /\ AncestorInv /\ LeavesInv /\ FirstLeafInv /\ ReturnInv
    /\ [Next]_vars
    => ReturnInv'
<1> SUFFICES ASSUME ShapeInv, LevelInv, CheapInv, AncestorInv, LeavesInv, FirstLeafInv, ReturnInv, [Next]_vars
             PROVE  ReturnInv'
  OBVIOUS
<1>1. CASE ComputeCanonSparse
  <2>1. rtn' = rtn /\ pc = "idle" /\ pc' = "doref" /\ graph' = Head(todo)
    BY <1>1 DEF ComputeCanonSparse
  <2>2. n' \in Nat
    <3>1. ShapeInv'
      BY <1>1, ShapeCall
    <3>2. IsColoredGraph(graph')
      BY <2>1, <3>1 DEF ShapeInv
    <3> QED
      BY <3>2, GraphVertices DEF n
  <2> QED
    BY <2>1, <2>2 DEF ReturnInv
<1>2. CASE FirstTerminal
  <2>1. /\ pc = "doref" /\ pc' = "return" /\ rtn' = node.level - 1 /\ stack' = stack /\ graph' = graph
    BY <1>2 DEF FirstTerminal, Refined, Return
  <2>2. node.level = Len(stack) + 1 /\ Len(stack) \in Nat /\ n \in Nat /\ Len(stack) < n
    BY <2>1, NodeBelow, StackBelow
  <2> QED
    BY <2>1, <2>2 DEF ReturnInv, n
<1>3. CASE FirstPathEnd \/ OtherEnd
  <2>1. /\ pc = "loop" /\ rtn' = Top.level - 1 /\ pc' = "return" /\ graph' = graph /\ stack # <<>>
        /\ Len(stack) \in Nat /\ Len(stack) > 0 /\ Len(stack') = Len(stack) - 1
    BY <1>3, NodePopped DEF FirstPathEnd, OtherEnd, Return
  <2>2. Top.level = Len(stack) /\ n \in Nat /\ Len(stack) < n
    BY <2>1, StackBelow
  <2> QED
    BY <2>1, <2>2 DEF ReturnInv, n
<1>4. CASE PassReturn
  <2>1. /\ pc = "return" /\ rtn' = rtn /\ rtn < Top.level /\ pc' = "return" /\ graph' = graph /\ stack # <<>>
        /\ Len(stack) \in Nat /\ Len(stack) > 0 /\ Len(stack') = Len(stack) - 1
    BY <1>4, NodePopped DEF PassReturn
  <2>2. Top.level = Len(stack) /\ n \in Nat /\ Len(stack) < n
    BY <2>1, StackBelow
  <2> QED
    BY <2>1, <2>2 DEF ReturnInv, n
<1>5. CASE ProcessLikeFirst \/ ProcessLikeBest \/ ProcessBetter \/ ProcessWorse
  <2>1. /\ pc = "process" /\ pc' = "return" /\ stack' = stack /\ graph' = graph
    BY <1>5 DEF ProcessLikeFirst, ProcessLikeBest, ProcessBetter, ProcessWorse, Return, LeaveLeaf
  <2>2. rtn' \in 0..Len(stack)
    BY <1>5, LeafEnds
  <2>3. Len(stack) \in Nat /\ n \in Nat /\ Len(stack) < n
    BY <2>1, StackBelow
  <2> QED
    BY <2>1, <2>2, <2>3 DEF ReturnInv, n
<1>6. CASE Answer
  <2>1. pc = "return" /\ stack = <<>> /\ pc' = "idle" /\ rtn' = rtn /\ graph' = graph
    BY <1>6 DEF Answer
  <2>2. rtn <= 0 /\ rtn \in 0..n /\ n \in Nat
    BY <2>1, StackBelow DEF ReturnInv
  <2> QED
    BY <2>1, <2>2 DEF ReturnInv, n
<1>7. CASE \/ FirstPathNode \/ ProcessInternal \/ FirstPathChild \/ OtherChild \/ FirstPathSkip
           \/ FirstPathReturn \/ OtherReturn \/ OtherNode
  <2>1. rtn' = rtn /\ graph' = graph /\ pc' # "idle" /\ pc' # "return"
    BY <1>7 DEF FirstPathNode, ProcessInternal, FirstPathChild, OtherChild, FirstPathSkip, FirstPathReturn,
                OtherReturn, OtherNode, Descend
  <2> QED
    BY <2>1 DEF ReturnInv, n
<1>8. CASE RefineNode \/ Done \/ UNCHANGED vars
  <2>1. rtn' = rtn /\ graph' = graph /\ pc' = pc /\ stack' = stack
    BY <1>8 DEF RefineNode, Done, vars
  <2> QED
    BY <2>1 DEF ReturnInv, n
<1> QED
  BY <1>1, <1>2, <1>3, <1>4, <1>5, <1>6, <1>7, <1>8 DEF Next

-----------------------------------------------------------------------------
(* The pairs that prune.                                                   *)

LEMMA StoreIs ==
    ASSUME NEW T, pairs \in Seq(T), Len(pairs) <= MaxPairs, NEW pair \in T
    PROVE  Store(pair) \in Seq(T) /\ Len(Store(pair)) <= MaxPairs
<1>1. MaxPairs \in Nat /\ MaxPairs > 0 /\ Len(pairs) \in Nat
  BY PairsAssumption
<1>2. CASE Len(pairs) = MaxPairs
  <2>1. pairs # <<>>
    BY <1>1, <1>2
  <2>2. Front(pairs) \in Seq(T) /\ Len(Front(pairs)) = Len(pairs) - 1
    BY <2>1, FrontIs
  <2>3. PICK s : s = Front(pairs)
    OBVIOUS
  <2>4. Append(s, pair) \in Seq(T) /\ Len(Append(s, pair)) = Len(s) + 1
    BY <2>2, <2>3, AppendIs
  <2> QED
    BY <1>1, <1>2, <2>2, <2>3, <2>4 DEF Store
<1>3. CASE Len(pairs) # MaxPairs
  <2>1. Append(pairs, pair) \in Seq(T) /\ Len(Append(pairs, pair)) = Len(pairs) + 1
    BY AppendIs
  <2> QED
    BY <1>1, <1>3, <2>1 DEF Store
<1> QED
  BY <1>2, <1>3

\* The workspace never holds more pairs than it has room for, and they are of vertices of the graph.
LEMMA PairsStep ==
    /\ ShapeInv /\ LevelInv /\ CheapInv /\ AncestorInv /\ LeavesInv /\ FirstLeafInv /\ PairsInv
    /\ [Next]_vars
    => PairsInv'
<1> SUFFICES ASSUME ShapeInv, LevelInv, CheapInv, AncestorInv, LeavesInv, FirstLeafInv, PairsInv, [Next]_vars
             PROVE  PairsInv'
  OBVIOUS
<1>1. CASE ComputeCanonSparse
  <2>1. pairs' = <<>>
    BY <1>1 DEF ComputeCanonSparse
  <2> QED
    BY <2>1, PairsAssumption DEF PairsInv
<1>2. CASE ProcessLikeFirst \/ ProcessLikeBest \/ ProcessBetter \/ ProcessWorse
  <2>1. graph' = graph /\ pc = "process"
    BY <1>2 DEF ProcessLikeFirst, ProcessLikeBest, ProcessBetter, ProcessWorse
  <2>2. \/ pairs' = pairs
        \/ \E i \in 1..Len(stack) : pairs' = Store(Fmptn(stack[i].part))
        \/ \E perm : DOMAIN perm = Vertices(graph) /\ pairs' = Store(Fmperm(perm))
    BY <1>2, LeafEnds
  <2>3. \/ pairs' = pairs
        \/ \E pair \in (SUBSET Vertices(graph)) \X (SUBSET Vertices(graph)) : pairs' = Store(pair)
    <3>1. ASSUME NEW i \in 1..Len(stack)
          PROVE  Fmptn(stack[i].part) \in (SUBSET Vertices(graph)) \X (SUBSET Vertices(graph))
      <4>1. stack[i] \in GoodFrames(graph)
        BY <2>1, StackBelow
      <4>2. DOMAIN stack[i].part = Vertices(graph)
        BY <4>1 DEF GoodFrames, IsPartition
      <4> QED
        BY <4>2 DEF Fmptn
    <3>2. ASSUME NEW perm, DOMAIN perm = Vertices(graph)
          PROVE  Fmperm(perm) \in (SUBSET Vertices(graph)) \X (SUBSET Vertices(graph))
      BY <3>2 DEF Fmperm
    <3> QED
      BY <2>2, <3>1, <3>2
  <2> QED
    BY <2>1, <2>3, StoreIs DEF PairsInv
<1>3. CASE ~(\/ ComputeCanonSparse \/ ProcessLikeFirst \/ ProcessLikeBest \/ ProcessBetter \/ ProcessWorse)
  <2>1. pairs' = pairs /\ graph' = graph
    BY <1>3 DEF Next, vars, searchVars, RefineNode, FirstPathNode, FirstTerminal, FirstPathChild, FirstPathSkip,
            FirstPathEnd, FirstPathReturn, PassReturn, OtherNode, OtherChild, OtherEnd, OtherReturn,
            ProcessInternal, Answer, Done
  <2> QED
    BY <2>1 DEF PairsInv
<1> QED
  BY <1>1, <1>2, <1>3

-----------------------------------------------------------------------------
(* The rows of the best graph.                                             *)

RowsOf(can, lab, same) == \A i \in Vertices(graph) : i < same => can[i] = CanonRow(graph, lab, i)

\* A comparison brings canong up to date, and what it finds equal belongs to the leaf too.
LEMMA ComparisonRows ==
    ASSUME ShapeInv, pc = "process", RowsOf(canong, bsf.lab, samerows)
    PROVE  /\ RowsOf(Comparison.can, bsf.lab, Comparison.same)
           /\ Comparison.comp > 0 => RowsOf(Comparison.can, Lab, Comparison.sr)
<1> DEFINE current == UpdateCan(bsf.lab, samerows)
           rows == Relabel(graph, Lab)
           differ == {i \in 0..(n - 1) : rows[i] # current[i]}
           t == TestCanlab(current, Lab)
<1>1. PICK k \in 1..MaxVertices : Vertices(graph) = 0..(k - 1) /\ n = k
  BY GraphVertices DEF ShapeInv, n
<1>2. Vertices(graph) = 0..(n - 1) /\ n \in Nat
  BY <1>1, MaxVerticesAssumption
<1>3. samerows \in Nat /\ DOMAIN Lab = Vertices(graph)
  BY DEF ShapeInv, RefInv, IsPartition, Lab, LabOf
<1>4. \A i \in Vertices(graph) : current[i] = CanonRow(graph, bsf.lab, i)
  <2> SUFFICES ASSUME NEW i \in Vertices(graph) PROVE current[i] = CanonRow(graph, bsf.lab, i)
    OBVIOUS
  <2>1. current[i] = IF i < samerows THEN canong[i] ELSE CanonRow(graph, bsf.lab, i)
    BY <1>2 DEF UpdateCan
  <2> QED
    BY <2>1 DEF RowsOf
<1>5. \A i \in Vertices(graph) : rows[i] = CanonRow(graph, Lab, i)
  BY <1>3 DEF Relabel, CanonRow
<1>6. /\ differ = {} => t.comp = 0
      /\ differ # {} => t.same = Min(differ)
  BY DEF TestCanlab
<1>7. Comparison =
          IF lev.comp_canon # 0 THEN [comp |-> lev.comp_canon, sr |-> 0, can |-> canong, same |-> samerows]
          ELSE IF node.level < bsf.level THEN [comp |-> 1, sr |-> 0, can |-> canong, same |-> samerows]
          ELSE [comp |-> t.comp, sr |-> t.same, can |-> current, same |-> n]
  BY DEF Comparison
<1>8. differ # {} => Min(differ) \in Nat /\ \A i \in 0..(n - 1) : i < Min(differ) => rows[i] = current[i]
  <2>1. differ \in SUBSET Nat
    BY <1>2
  <2>2. \A i \in 0..(n - 1) : rows[i] # current[i] => i \in differ
    OBVIOUS
  <2> HIDE DEF differ, rows, current
  <2> SUFFICES ASSUME differ # {}
               PROVE  Min(differ) \in Nat /\ \A i \in 0..(n - 1) : i < Min(differ) => rows[i] = current[i]
    OBVIOUS
  <2>3. PICK m : m = Min(differ)
    OBVIOUS
  <2>4. m \in differ /\ m \in Nat /\ \A y \in differ : m <= y
    BY <2>1, <2>3, MinIs
  <2>5. \A i \in 0..(n - 1) : i < m => i \notin differ
    BY <1>2, <2>4
  <2> QED
    BY <2>2, <2>3, <2>4, <2>5
<1> HIDE DEF current, rows, differ, t
<1>9. CASE lev.comp_canon # 0 \/ node.level < bsf.level
  <2>1. Comparison.can = canong /\ Comparison.same = samerows /\ Comparison.sr = 0
    BY <1>7, <1>9
  <2>2. RowsOf(Comparison.can, Lab, Comparison.sr)
    BY <1>2, <2>1 DEF RowsOf
  <2> QED
    BY <2>1, <2>2
<1>10. CASE ~(lev.comp_canon # 0 \/ node.level < bsf.level)
  <2>1. Comparison.can = current /\ Comparison.same = n /\ Comparison.sr = t.same /\ Comparison.comp = t.comp
    BY <1>7, <1>10
  <2>2. RowsOf(Comparison.can, bsf.lab, Comparison.same)
    BY <1>4, <2>1 DEF RowsOf
  <2>3. Comparison.comp > 0 => RowsOf(Comparison.can, Lab, Comparison.sr)
    BY <1>2, <1>5, <1>6, <1>8, <2>1 DEF RowsOf
  <2> QED
    BY <2>2, <2>3
<1> QED
  BY <1>9, <1>10

\* updatecan_sg and the resets of samerows keep the counted rows those of the best leaf.
LEMMA RowsStep ==
    ShapeInv /\ LevelInv /\ FirstLeafInv /\ LeavesInv /\ RowsInv /\ [Next]_vars => RowsInv'
<1> SUFFICES ASSUME ShapeInv, LevelInv, FirstLeafInv, LeavesInv, RowsInv, [Next]_vars, Searching'
             PROVE  \A i \in Vertices(graph') : i < samerows' => canong'[i] = CanonRow(graph', bsf'.lab, i)
  BY DEF RowsInv
<1>1. CASE FirstTerminal
  <2>1. samerows' = 0 /\ graph' = graph /\ pc = "doref"
    BY <1>1 DEF FirstTerminal, ResetSamerows, Refined
  <2>2. \A i \in Vertices(graph) : ~(i < 0)
    BY <2>1, GraphVertices DEF ShapeInv
  <2> QED
    BY <2>1, <2>2
<1>2. CASE ~FirstTerminal
  <2>1. Searching /\ pc # "idle"
    BY <1>2, SearchingBefore DEF Searching
  <2>2. RowsOf(canong, bsf.lab, samerows)
    BY <2>1 DEF RowsInv, RowsOf
  <2>3. graph' = graph
    BY <1>2, <2>1 DEF Next, vars, searchVars, ComputeCanonSparse, RefineNode, FirstPathNode, FirstPathChild,
                FirstPathSkip, FirstPathEnd, FirstPathReturn, PassReturn, OtherNode, OtherChild, OtherEnd,
                OtherReturn, ProcessInternal, ProcessLikeFirst, ProcessLikeBest, ProcessBetter, ProcessWorse,
                Answer, Done
  <2>4. CASE ProcessLikeBest \/ ProcessWorse \/ ProcessBetter
    <3>1. pc = "process"
      BY <2>4 DEF ProcessLikeBest, ProcessWorse, ProcessBetter
    <3>2. /\ RowsOf(Comparison.can, bsf.lab, Comparison.same)
          /\ Comparison.comp > 0 => RowsOf(Comparison.can, Lab, Comparison.sr)
      BY <2>2, <3>1, ComparisonRows
    <3>3. CASE ProcessLikeBest
      <4>1. canong' = Comparison.can /\ samerows' = Comparison.same /\ bsf' = bsf
        BY <3>3 DEF ProcessLikeBest
      <4> QED
        BY <2>3, <3>2, <4>1 DEF RowsOf
    <3>4. CASE ProcessBetter
      <4>1. canong' = Comparison.can /\ samerows' = Comparison.sr /\ bsf'.lab = Lab /\ Comparison.comp > 0
        BY <3>4 DEF ProcessBetter
      <4> QED
        BY <2>3, <3>2, <4>1 DEF RowsOf
    <3>5. CASE ProcessWorse
      <4>1. /\ bsf' = bsf
            /\ \/ canong' = Comparison.can /\ samerows' = Comparison.same
               \/ canong' = canong /\ samerows' = samerows
        BY <3>5 DEF ProcessWorse
      <4> QED
        BY <2>2, <2>3, <3>2, <4>1 DEF RowsOf
    <3> QED
      BY <2>4, <3>3, <3>4, <3>5
  <2>5. CASE OtherNode
    <3>1. canong' = canong /\ samerows' = samerows
          /\ (bsf' = bsf \/ bsf' = [bsf EXCEPT !.code = Put(@, node.level, ref.code)])
      BY <2>5 DEF OtherNode
    <3>2. PICK l, c, v : bsf = [lab |-> l, code |-> c, level |-> v]
      BY <2>1 DEF LeavesInv
    <3>3. PICK d : d = Put(bsf.code, node.level, ref.code)
      OBVIOUS
    <3>4. bsf'.lab = bsf.lab
      BY <3>1, <3>2, <3>3
    <3> QED
      BY <2>2, <2>3, <3>1, <3>4 DEF RowsOf
  <2>6. CASE Answer
    BY <2>6 DEF Answer, Searching
  <2>7. CASE ~(ProcessLikeBest \/ ProcessWorse \/ ProcessBetter \/ OtherNode \/ Answer)
    <3>1. ~ComputeCanonSparse
      BY <2>1 DEF ComputeCanonSparse
    <3>2. canong' = canong /\ samerows' = samerows /\ bsf' = bsf
      BY <1>2, <2>7, <3>1 DEF Next, vars, searchVars, RefineNode, FirstPathNode, FirstPathChild, FirstPathSkip,
                FirstPathEnd, FirstPathReturn, PassReturn, OtherChild, OtherEnd, OtherReturn, ProcessInternal,
                ProcessLikeFirst, Done
    <3> QED
      BY <2>2, <2>3, <3>2 DEF RowsOf
  <2> QED
    BY <2>4, <2>5, <2>6, <2>7
<1> QED
  BY <1>1, <1>2

-----------------------------------------------------------------------------
(* The inductive invariant and what it says.                               *)

\* All parts together: each is kept only with the help of those above it.
Inv ==
    /\ ShapeInv /\ LevelInv /\ PathInv /\ FirstLeafInv
    /\ CheapInv /\ AncestorInv /\ LeavesInv /\ PairsInv /\ ReturnInv /\ RowsInv

\* The inductive invariant holds before the first call.
LEMMA InvInit == Init => Inv
<1> SUFFICES ASSUME Init PROVE Inv
  OBVIOUS
<1>1. ShapeInv /\ LevelInv
  BY ShapeInit, LevelInit
<1>2. pc = "idle" /\ stack = <<>> /\ pairs = <<>> /\ rtn = 0
  BY DEF Init
<1>3. PathInv /\ FirstLeafInv /\ CheapInv /\ AncestorInv /\ LeavesInv /\ RowsInv
  BY <1>2 DEF PathInv, FirstLeafInv, CheapInv, AncestorInv, LeavesInv, RowsInv, Searching
<1>4. PairsInv
  BY <1>2, PairsAssumption DEF PairsInv
<1>5. ReturnInv
  <2>1. Vertices(graph) = {}
    BY DEF Init, Vertices
  <2>2. n = 0
    BY <2>1, FS_EmptySet DEF n
  <2> QED
    BY <1>2, <2>2 DEF ReturnInv
<1> QED
  BY <1>1, <1>3, <1>4, <1>5 DEF Inv

\* Every step of nauty keeps the inductive invariant.
LEMMA InvStep == Inv /\ [Next]_vars => Inv'
<1> SUFFICES ASSUME Inv, [Next]_vars PROVE Inv'
  OBVIOUS
<1>1. /\ ShapeInv /\ LevelInv /\ PathInv /\ FirstLeafInv
      /\ CheapInv /\ AncestorInv /\ LeavesInv /\ PairsInv /\ ReturnInv /\ RowsInv
  BY DEF Inv
<1>2. ShapeInv' /\ LevelInv' /\ PathInv' /\ FirstLeafInv'
  BY <1>1, ShapeStep, LevelStep, PathStep, FirstLeafStep
<1>3. CheapInv' /\ AncestorInv' /\ LeavesInv'
  BY <1>1, CheapStep, AncestorStep, LeavesStep
<1>4. PairsInv' /\ ReturnInv' /\ RowsInv'
  BY <1>1, PairsStep, ReturnStep, RowsStep
<1> QED
  BY <1>2, <1>3, <1>4 DEF Inv

\* The inductive invariant gives every variable its type and bounds.
LEMMA InvTypes == Inv => TypeOK
<1> SUFFICES ASSUME Inv PROVE TypeOK
  OBVIOUS
<1>1. ShapeInv /\ LevelInv /\ PairsInv /\ ReturnInv
  BY DEF Inv
<1>2. lev.comp_canon \in -1..1 /\ samerows \in Nat
  BY <1>1 DEF ShapeInv, Levels
<1>3. ASSUME NEW i \in DOMAIN stack
      PROVE  /\ stack[i].level = i
             /\ stack[i].tcell \subseteq CellAt(stack[i].part, stack[i].tc)
             /\ stack[i].tv \in CellAt(stack[i].part, stack[i].tc) \cup {-1}
  <2>1. pc # "idle"
    BY <1>1 DEF ShapeInv
  <2>2. stack[i] \in GoodFrames(graph)
    BY <1>1, <2>1, StackBelow
  <2> QED
    BY <1>1, <2>2 DEF GoodFrames, LevelInv
<1> QED
  BY <1>1, <1>2, <1>3 DEF TypeOK, ShapeInv, LevelInv, PairsInv, ReturnInv

\* The rows of canong that samerows counts belong to the best leaf (nauty.c:132-133).
LEMMA InvRows == Inv => RowsCorrect
<1> SUFFICES ASSUME Inv, Searching, NEW i \in 0..(Min({samerows, n}) - 1)
             PROVE  canong[i] = CanonRow(graph, bsf.lab, i)
  BY InvTypes DEF RowsCorrect
<1>1. ShapeInv /\ RowsInv /\ pc # "idle"
  BY DEF Inv, Searching
<1>2. PICK k \in 1..MaxVertices : Vertices(graph) = 0..(k - 1) /\ n = k
  BY <1>1, GraphVertices DEF ShapeInv, n
<1>3. Vertices(graph) = 0..(n - 1) /\ n \in Nat /\ samerows \in Nat
  BY <1>1, <1>2, MaxVerticesAssumption DEF ShapeInv
<1>4. PICK S, m : S = {samerows, n} /\ m = Min(S)
  OBVIOUS
<1>5. m \in Nat /\ m <= samerows /\ m <= n
  <2>1. S \in SUBSET Nat /\ S # {}
    BY <1>3, <1>4
  <2>2. m \in S /\ \A y \in S : m <= y
    BY <1>4, <2>1, MinIs
  <2> QED
    BY <1>3, <1>4, <2>2
<1>6. i \in 0..(m - 1)
  BY <1>4
<1> QED
  BY <1>1, <1>3, <1>5, <1>6 DEF RowsInv

\* The inductive invariant of nauty's search (nauty.c:561-1004), whatever graphs are asked
\* one after the other: frames and levels, the first path, the leaves, what was stored and pruned.
THEOREM InvKept == Spec => []Inv
<1>1. Init => Inv
  BY InvInit
<1>2. Inv /\ [Next]_vars => Inv'
  BY InvStep
<1> QED
  BY <1>1, <1>2, PTL DEF Spec

\* Every variable of the search has its type; its stack, pairs and levels stay within their bounds.
THEOREM NautyTypes == Spec => []TypeOK
<1>1. Inv => TypeOK
  BY InvTypes
<1> QED
  BY <1>1, InvKept, PTL

\* The rows of the best graph that are counted as up to date are those of the best leaf.
THEOREM RowsRight == Spec => []RowsCorrect
<1>1. Inv => RowsCorrect
  BY InvRows
<1> QED
  BY <1>1, InvKept, PTL
=============================================================================
