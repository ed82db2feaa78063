---------------------------- MODULE MCPartition ----------------------------
(***************************************************************************)
(* Graphs to build indexes of.  How the vertices are numbered decides only *)
(* which of two equal paths is sorted first, so one graph of each set of   *)
(* graphs that differ in the numbers of their vertices is enough.          *)
(***************************************************************************)
EXTENDS Partition

Renamings == {f \in [Vertex -> Vertex] : \A u, v \in Vertex : f[u] = f[v] => u = v}
Renamed(g, f) == {<<f[e[1]], e[2], f[e[3]]>> : e \in g}
Representatives(S) == {CHOOSE h \in {Renamed(g, f) : f \in Renamings} : TRUE : g \in S}

\* At most MaxEdges edges of one label between three vertices, and any edges of two
\* labels between two of them.
CONSTANT MaxEdges

OneLabel == {g \in SUBSET (Vertex \X {0} \X Vertex) : Cardinality(g) <= MaxEdges}
TwoLabels == SUBSET ({0, 1} \X {0, 1} \X {0, 1})

SmallGraphs == Representatives(OneLabel) \cup Representatives(TwoLabels)
=============================================================================
