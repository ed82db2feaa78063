------------------------------ MODULE MCNauty ------------------------------
(***************************************************************************)
(* Graphs for the native method: all small coloured digraphs, graphs with  *)
(* much symmetry, and those of NautyTest.  Each is asked, and then again   *)
(* with its vertices renamed.                                              *)
(***************************************************************************)
EXTENDS Nauty

CONSTANT Size   \* The vertices of the small digraphs.

V(k) == 0..(k - 1)
Rename(G, p) ==
    [adj |-> [y \in Vertices(G) |-> LET x == CHOOSE x \in Vertices(G) : p[x] = y IN {p[z] : z \in G.adj[x]}],
     cells |-> [c \in DOMAIN G.cells |-> {p[x] : x \in G.cells[c]}]]

Bijections(k) == {p \in [V(k) -> V(k)] : \A x, y \in V(k) : x # y => p[x] # p[y]}

Colorings(k) == {<<V(k)>>} \cup {<<S, V(k) \ S>> : S \in (SUBSET V(k)) \ {{}, V(k)}}

SmallGraphs ==
    {[adj |-> a, cells |-> c] :
        a \in {a \in [V(Size) -> SUBSET V(Size)] : \A x \in V(Size) : x \notin a[x]},
        c \in Colorings(Size)}

\* All small graphs, each before one of its renamings.
SmallWorkloads == {<<G, Rename(G, p)>> : G \in SmallGraphs, p \in Bijections(Size)}

-----------------------------------------------------------------------------
(* Larger graphs, each before some of its renamings.                       *)

Digraph(k, E, cells) == [adj |-> [x \in V(k) |-> {e[2] : e \in {e \in E : e[1] = x}}], cells |-> cells]
Both(E) == E \cup {<<e[2], e[1]>> : e \in E}

\* Directed cycles on the vertices from..from+k-1.
Cycle(from, k) == {<<from + i, from + ((i + 1) % k)>> : i \in 0..(k - 1)}

Cycles34 == Digraph(7, Cycle(0, 3) \cup Cycle(3, 4), <<V(7)>>)
Cycles224 == Digraph(8, Cycle(0, 2) \cup Cycle(2, 2) \cup Cycle(4, 4), <<V(8)>>)
Prism == Digraph(6, Both(Cycle(0, 3) \cup Cycle(3, 3) \cup {<<i, i + 3>> : i \in 0..2}), <<V(6)>>)
Star == Digraph(7, {<<0, 1>>, <<0, 2>>, <<1, 3>>, <<1, 4>>, <<2, 4>>, <<2, 5>>, <<0, 6>>}, <<{0, 1, 2}, {3, 4, 5, 6}>>)
Ring16 == Digraph(16, Cycle(0, 16), <<V(16)>>)

Petersen ==
    Digraph(10, Both(Cycle(0, 5) \cup {<<i, i + 5>> : i \in 0..4} \cup {<<5 + i, 5 + ((i + 2) % 5)>> : i \in 0..4}),
            <<V(10)>>)
\* Two undirected paths, whose refinement takes many splits.
Path(from, k) == {<<from + i, from + i + 1>> : i \in 0..(k - 2)}
Paths == Digraph(16, Both(Path(0, 8) \cup Path(8, 8)), <<V(16)>>)
\* A regular digraph that only has a trivial automorphism.
Rigid == [adj |-> [x \in V(7) |-> <<{2, 3}, {2, 4}, {5, 6}, {0, 5}, {1, 3}, {0, 6}, {1, 4}>>[x + 1]], cells |-> <<V(7)>>]
\* A cubic graph with three orbits.
Cubic == Digraph(8, Both(Cycle(0, 8) \cup {<<0, 2>>, <<1, 5>>, <<3, 7>>, <<4, 6>>}), <<V(8)>>)
Shift(k) == [x \in V(k) |-> (x + 1) % k]
Swap(k, y, z) == [x \in V(k) |-> IF x = y THEN z ELSE IF x = z THEN y ELSE x]
Mirror(k) == [x \in V(k) |-> k - 1 - x]

-----------------------------------------------------------------------------
(* The graphs of NautyTest and what its tests expect of them.              *)

Graph8(rows, cells) == [adj |-> [x \in V(8) |-> rows[x + 1]], cells |-> cells]

FullCanon0 == Graph8(<<{5}, {4}, {7, 6}, {}, {3}, {3}, {1}, {0}>>, <<{4}, {5}, {6, 7}, {0, 1, 2, 3}>>)
FullCanon1 == Graph8(<<{5}, {4}, {7, 6}, {}, {3}, {3}, {0}, {1}>>, <<{4}, {5}, {6, 7}, {0, 1, 2, 3}>>)
FullCanon4 == Graph8(<<{3}, {6}, {7, 5}, {4}, {}, {0}, {4}, {1}>>, <<{2}, {4}, {5, 7}, {6}, {3}, {0, 1}>>)
FullCanon5 == Graph8(<<{3}, {6}, {7, 5}, {4}, {}, {0}, {4}, {1}>>, <<{2}, {4}, {5, 7}, {3}, {6}, {0, 1}>>)
FullCanon6 == Graph8(<<{6}, {3}, {7, 5}, {4}, {}, {0}, {4}, {1}>>, <<{2}, {4}, {5, 7}, {3}, {6}, {0, 1}>>)

TestGraph == <<{2, 3}, {}, {6}, {7}, {1}, {1}, {5}, {4}>>
Array(s) == [i \in 0..(Len(s) - 1) |-> s[i + 1]]

\* The labellings and relabelled graphs that the tests of the native method expect
\* (NautyTest.java:44-101) are what the search computes: the code values, the order
\* of the cells and the choice of target cells are those of the code.
NautyTests ==
    \A i \in DOMAIN answers :
        LET G == answers[i].graph
            lab == answers[i].lab
        IN  /\ G = FullCanon0 => lab = Array(<<4, 5, 6, 7, 2, 1, 0, 3>>)
            /\ G = FullCanon1 => lab = Array(<<4, 5, 7, 6, 2, 1, 0, 3>>)
            /\ G \in {FullCanon4, FullCanon5, FullCanon6} => Relabel(G, lab) = Array(TestGraph)

LargeWorkloads ==
    {<<G, Rename(G, p)>> : G \in {Cycles34, Star}, p \in {Mirror(7), Swap(7, 0, 4)}}
    \cup {<<G, Rename(G, p)>> : G \in {Cycles224}, p \in {Shift(8), Swap(8, 0, 4)}}
    \cup {<<G, Rename(G, p)>> : G \in {Prism}, p \in {Shift(6), Mirror(6), Swap(6, 0, 4)}}
    \cup {<<Cubic, Rename(Cubic, p)>> : p \in {Shift(8), Mirror(8), Swap(8, 1, 3)}}
    \cup {<<Cubic, Prism, Rename(Cubic, Shift(8)), Rename(Prism, Shift(6))>>}
    \cup {<<Rigid, Rename(Rigid, p)>> : p \in {Shift(7), Mirror(7), Swap(7, 0, 4), Swap(7, 1, 5)}}
    \cup {<<Paths, Rename(Paths, Swap(16, 0, 4))>>}
    \cup {<<Petersen, Rename(Petersen, Swap(10, 2, 8))>>}
    \cup {<<Ring16, Rename(Ring16, Mirror(16))>>}
    \cup {<<FullCanon0, FullCanon1>>, <<FullCanon4, FullCanon5, FullCanon6>>}

AllWorkloads == SmallWorkloads \cup LargeWorkloads
=============================================================================
