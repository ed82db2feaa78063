---------------------------- MODULE MCGraphForms ----------------------------
(***************************************************************************)
(* Graphs for GraphForms: all of a few vertices, and some larger ones with *)
(* much symmetry.                                                          *)
(***************************************************************************)
EXTENDS GraphForms

AllGraphs(k, dir, draws) == {<<k, dir, kept>> : kept \in SUBSET draws}

Ring(k) == {<<i, i + 1>> : i \in 0..(k - 2)} \cup {<<0, k - 1>>}
Prism == {<<0, 1>>, <<1, 2>>, <<0, 2>>, <<3, 4>>, <<4, 5>>, <<3, 5>>, <<0, 3>>, <<1, 4>>, <<2, 5>>}
TwoTriangles == {<<0, 1>>, <<1, 2>>, <<0, 2>>, <<3, 4>>, <<4, 5>>, <<3, 5>>}
Cubic == Ring(8) \cup {<<0, 2>>, <<1, 5>>, <<3, 7>>, <<4, 6>>}
Tree == {<<0, 1>>, <<0, 2>>, <<1, 3>>, <<1, 4>>, <<2, 5>>}
\* A path with two triangles at its ends.
Chain == {<<0, 1>>, <<0, 2>>, <<1, 2>>, <<2, 3>>, <<3, 4>>, <<4, 5>>, <<5, 6>>, <<4, 6>>}

\* All graphs of few vertices up to some renaming: without edges or with a first one.
Some(graphs, edge) == {s \in graphs : s[3] = {} \/ edge \in s[3]}

TheSparseStarts ==
    Some(AllGraphs(3, TRUE, DrawsSg(3, TRUE)), <<0, 1>>)
    \cup Some(AllGraphs(4, FALSE, DrawsSg(4, FALSE)), <<0, 1>>)
    \cup AllGraphs(3, FALSE, DrawsSg(3, FALSE))
    \cup {<<1, FALSE, {}>>, <<2, FALSE, {<<0, 1>>}>>}
    \cup {<<k, FALSE, Ring(k)>> : k \in {5, 6}}
    \cup {<<6, FALSE, Prism>>, <<6, FALSE, TwoTriangles>>, <<6, FALSE, Tree>>, <<7, FALSE, Chain>>,
          <<8, FALSE, Cubic>>}

TheDenseStarts ==
    AllGraphs(2, TRUE, Draws(2, TRUE))
    \cup {<<3, TRUE, Draws(3, TRUE)>>, <<3, TRUE, {<<0, 0>>, <<1, 1>>, <<0, 1>>, <<2, 0>>}>>, <<6, FALSE, Tree \cup {<<4, 5>>}>>}

\* Two operations on a small graph, one on a larger one.
TheSteps(k) == IF k <= 4 THEN 2 ELSE 1

\* All choices for few vertices, otherwise some.
TheRandoms(k) ==
    IF k <= 3 THEN {c \in [1..(k - 1) -> 0..(k - 1)] : \A i \in 1..(k - 1) : c[i] <= i}
    ELSE {[i \in 1..(k - 1) |-> i], [i \in 1..(k - 1) |-> 0], [i \in 1..(k - 1) |-> i \div 2]}

ThePartials(k) ==
    IF k < 3 THEN {} ELSE {[i \in 0..(k - 2) |-> i + 1], [i \in 0..1 |-> k - 1 - 2 * i]}
=============================================================================
