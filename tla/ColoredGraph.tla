---------------------------- MODULE ColoredGraph ----------------------------
(***************************************************************************)
(* The graphs that nauty canonises.  A graph has the vertices 0..n-1; adj  *)
(* gives the successors of a vertex and cells the sets of vertices of the  *)
(* same colour, in the order of the colours.  A labelling lists the        *)
(* vertices: lab[i] is the vertex that becomes vertex i.                   *)
(***************************************************************************)
EXTENDS Integers, Sequences, FiniteSets, TLC

Vertices(G) == DOMAIN G.adj

\* The number of the colour of a vertex.
ColorOf(G, x) == CHOOSE c \in DOMAIN G.cells : x \in G.cells[c]

\* A labelling keeps the cells where the colouring put them.
IsLabelling(G, lab) ==
    /\ DOMAIN lab = Vertices(G)
    /\ {lab[i] : i \in DOMAIN lab} = Vertices(G)
    /\ \A i, j \in DOMAIN lab : i < j => ColorOf(G, lab[i]) <= ColorOf(G, lab[j])

InverseLab(lab) == [x \in DOMAIN lab |-> CHOOSE i \in DOMAIN lab : lab[i] = x]

\* The successors of lab[i], under their new names.
CanonRow(G, lab, i) ==
    LET inv == InverseLab(lab) IN {inv[x] : x \in G.adj[lab[i]]}

Relabel(G, lab) ==
    LET inv == InverseLab(lab)
    IN  [i \in DOMAIN lab |-> {inv[x] : x \in G.adj[lab[i]]}]

(***************************************************************************)
(* The isomorphisms from G to H that respect the colours, built up vertex  *)
(* by vertex: p[k] holds the ways to map the vertices below k, as the      *)
(* sequences of their images.                                              *)
(***************************************************************************)
Isomorphisms(G, H) ==
    LET n == Cardinality(Vertices(G))
        fits(p, x, y) ==
            /\ ColorOf(G, x) = ColorOf(H, y)
            /\ \A z \in 0..(x - 1) : p[z + 1] # y
            /\ x \in G.adj[x] <=> y \in H.adj[y]
            /\ \A z \in 0..(x - 1) :
                   /\ x \in G.adj[z] <=> y \in H.adj[p[z + 1]]
                   /\ z \in G.adj[x] <=> p[z + 1] \in H.adj[y]
        p[k \in 0..n] ==
            IF k = 0 THEN {<<>>}
            ELSE {Append(q[1], q[2]) : q \in {q \in p[k - 1] \X Vertices(H) : fits(q[1], k - 1, q[2])}}
    IN  IF /\ Vertices(G) = Vertices(H)
           /\ [c \in DOMAIN G.cells |-> Cardinality(G.cells[c])]
                = [c \in DOMAIN H.cells |-> Cardinality(H.cells[c])]
        THEN p[n]
        ELSE {}

Automorphisms(G) == Isomorphisms(G, G)
=============================================================================
