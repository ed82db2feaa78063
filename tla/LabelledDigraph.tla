-------------------------- MODULE LabelledDigraph ---------------------------
(***************************************************************************)
(* What the operations on graphs promise, whatever form a graph has: arcs  *)
(* between vertices 0..n-1 and an ordered partition of the vertices, in    *)
(* which every vertex has the number of vertices in earlier cells.         *)
(***************************************************************************)
EXTENDS Integers, FiniteSets

CONSTANTS
    Perms(_),     \* Ways to rename k vertices: the vertex perm[i] becomes i.
    Partials(_)   \* Lists of some of k vertices, as functions from 0..j-1.

VARIABLES arcs, part

Names == DOMAIN part

NameIn(perm, x) == CHOOSE i \in DOMAIN perm : perm[i] = x

\* The subgraph on the vertices of a list, which all vertices are in when renamed.
Take(perm) ==
    LET kept == {perm[i] : i \in DOMAIN perm}
        before(x) == {y \in kept : part[y] < part[x]}
    IN  /\ arcs' = {<<NameIn(perm, a[1]), NameIn(perm, a[2])>> : a \in arcs \cap (kept \X kept)}
        /\ part' = [i \in DOMAIN perm |-> Cardinality(before(perm[i]))]

Reverse == arcs' = {<<a[2], a[1]>> : a \in arcs} /\ UNCHANGED part

\* Loops are complemented if there are any.
Negate ==
    LET loops == \E x \in Names : <<x, x>> \in arcs
    IN  /\ arcs' = {a \in Names \X Names : a \notin arcs /\ (loops \/ a[1] # a[2])}
        /\ UNCHANGED part

\* Two copies of the graph, each with a vertex joined to all of it, are joined to
\* each other where the graph is not.
Double ==
    LET k == Cardinality(Names)
        copy(x, side) == x + 1 + side * (k + 1)
        both(a, b) == {<<a, b>>, <<b, a>>}
        sides == {0, 1}
    IN  /\ arcs' = UNION ({both(side * (k + 1), copy(x, side)) : x \in Names, side \in sides}
                          \cup {{<<copy(a[1], side), copy(a[2], side)>> : side \in sides} :
                                    a \in {a \in arcs : a[1] # a[2]}}
                          \cup {both(copy(a[1], 0), copy(a[2], 1)) :
                                    a \in {a \in Names \X Names : a[1] # a[2] /\ a \notin arcs}})
        /\ part' = [x \in 0..(2 * k + 1) |-> 0]

\* The vertex v alone in front of the rest of its cell, or of all.
Single(v) ==
    /\ part' = [x \in Names |-> IF part[x] = part[v] /\ x # v THEN part[x] + 1 ELSE part[x]]
    /\ UNCHANGED arcs

Fix(v) == part' = [x \in Names |-> IF x = v THEN 0 ELSE 1] /\ UNCHANGED arcs
Unit == part' = [x \in Names |-> 0] /\ UNCHANGED arcs

\* Cells are divided where they are.
Divide ==
    /\ DOMAIN part' = Names
    /\ \A x \in Names : part'[x] = Cardinality({y \in Names : part'[y] < part'[x]})
    /\ \A x, y \in Names : part[x] < part[y] => part'[x] < part'[y]
    /\ UNCHANGED arcs

Next ==
    LET k == Cardinality(Names)
    IN  \/ \E perm \in Perms(k) \cup Partials(k) : Take(perm)
        \/ Reverse \/ Negate \/ Double \/ Unit \/ Divide
        \/ \E v \in Names : Single(v) \/ Fix(v)

Spec == part = [x \in Names |-> 0] /\ [][Next]_<<arcs, part>>
=============================================================================
