---------------------------- MODULE MCIndexFile ----------------------------
(***************************************************************************)
(* The graphs of MCPartition, for an index that is saved and read back.    *)
(***************************************************************************)
EXTENDS IndexFile

CONSTANT Label

Renamings == {f \in [Vertex -> Vertex] : \A u, v \in Vertex : f[u] = f[v] => u = v}
Renamed(g, f) == {<<f[e[1]], e[2], f[e[3]]>> : e \in g}

AllGraphs ==
    {CHOOSE h \in {Renamed(g, f) : f \in Renamings} : TRUE :
        g \in SUBSET (Vertex \X Label \X Vertex)}
=============================================================================
