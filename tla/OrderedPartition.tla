-------------------------- MODULE OrderedPartition --------------------------
(***************************************************************************)
(* What the refinements of nauty share: ordered partitions of the vertices *)
(* 0..n-1 and the codes that tell one refinement from another.             *)
(*                                                                         *)
(* The arrays lab and ptn at a level are an ordered partition: a function  *)
(* from a vertex to the position where its cell starts.  The order inside  *)
(* a cell, which the C code permutes as it splits cells, is left out: a    *)
(* vertex is only ever told apart by its cell.                             *)
(***************************************************************************)
EXTENDS ColoredGraph, SequencesExt, FiniteSetsExt

\* The exclusive or of the bits of two numbers.
Xor[x \in Nat] == [y \in Nat |-> IF x = 0 THEN y ELSE 2 * Xor[x \div 2][y \div 2] + ((x + y) % 2)]

\* Codes have fifteen bits.
Masked(x) == x % \o100000
MASH(l, i) == Masked(Xor[\o65435][l] + i)
CLEANUP(l) == l % \o77777

\* MASH of a code with several values in turn.
MashAll(l, values) == FoldLeft(MASH, l, values)

Fuzz1 == <<\o37541, \o61532, \o5257, \o26416>>
Fuzz2 == <<\o6532, \o70236, \o35523, \o62437>>

-----------------------------------------------------------------------------
(* Partitions.                                                             *)

Ascending(S) == [i \in 1..Cardinality(S) |-> CHOOSE x \in S : Cardinality({y \in S : y < x}) = i - 1]

CellAt(part, c) == {x \in DOMAIN part : part[x] = c}
CellSize(part, c) == Cardinality(CellAt(part, c))
CellStarts(part) == {part[x] : x \in DOMAIN part}
NumCells(part) == Cardinality(CellStarts(part))
Discrete(part) == NumCells(part) = Cardinality(DOMAIN part)

\* The array lab of a discrete partition.
LabOf(part) == [i \in DOMAIN part |-> CHOOSE x \in DOMAIN part : part[x] = i]

\* Where the cell of a vertex starts when its old cell is divided by val, the least value first.
Fragment(part, val, x) == part[x] + Cardinality({y \in CellAt(part, part[x]) : val[y] < val[x]})

\* Divide cell c, or all cells, by the values val of their vertices.
Split(part, c, val) == [x \in DOMAIN part |-> IF part[x] = c THEN Fragment(part, val, x) ELSE part[x]]
SplitAll(part, val) == [x \in DOMAIN part |-> Fragment(part, val, x)]

(***************************************************************************)
(* distvals: the distance of every vertex from v, or n if there is none.   *)
(* That is how many of the balls around v do not hold the vertex.          *)
(***************************************************************************)
Distances(G, v) ==
    LET n == Cardinality(Vertices(G))
        ball[k \in 0..n] == IF k = 0 THEN {v} ELSE UNION {{x} \cup G.adj[x] : x \in ball[k - 1]}
    IN  [x \in Vertices(G) |-> Cardinality({k \in 0..(n - 1) : x \notin ball[k]})]
=============================================================================
