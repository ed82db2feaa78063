---------------------------- MODULE SparseGraph -----------------------------
(***************************************************************************)
(* The sparse form of a graph in nauty: the successors of vertex i are the *)
(* d[i] entries from v[i] on of one array e, in any order and with gaps    *)
(* between the lists.  The operations of nausparse.c and naututil.c on it. *)
(*                                                                         *)
(* The field e maps the places of the lists, and elen is how many places   *)
(* are allocated.  What lies between the lists is left out, as are the     *)
(* weights of edges.                                                       *)
(***************************************************************************)
EXTENDS DenseGraph

CONSTANTS
    MaxVertices,   \* A bound on the vertices of a graph,
    Inc            \* by how much rangraph2_sg makes its array longer.

ASSUME SparseAssumption == MaxVertices \in Nat /\ Inc \in Nat /\ Inc >= 2

List(s, i) == [j \in 1..s.d[i] |-> s.e[s.v[i] + j - 1]]
Successors(s, i) == ToSet(List(s, i))
Rows(s) == [i \in DOMAIN s.v |-> Successors(s, i)]
Arcs(s) == {<<i, j>> \in (DOMAIN s.v) \X (DOMAIN s.v) : j \in Successors(s, i)}

\* Sums of the numbers that stand before a place.
Before(count) == [i \in DOMAIN count |-> MapThenSumSet(LAMBDA k : count[k], 0..(i - 1))]
Total(count) == MapThenSumSet(LAMBDA k : count[k], DOMAIN count)

\* What a loop over the vertices adds to a list, in that order.
InTurn(lists) == FoldLeft(LAMBDA e, i : e \o lists[i], <<>>, Ascending(DOMAIN lists))

\* A graph with its lists one after another.
Pack(lists, elen) ==
    LET d == [i \in DOMAIN lists |-> Len(lists[i])]
        all == InTurn(lists)
    IN  [nv |-> Cardinality(DOMAIN lists), nde |-> Len(all), v |-> Before(d), d |-> d,
         e |-> [k \in 0..(Len(all) - 1) |-> all[k + 1]], elen |-> elen]

(***************************************************************************)
(* A graph whose lists are filled one entry <<i, x>> after another: x goes *)
(* to the next place of the list of i, wherever that is.                   *)
(***************************************************************************)
Fill(v, nde, elen, entries) ==
    LET put(s, w) ==
            [s EXCEPT !.e = (s.v[w[1]] + s.d[w[1]] :> w[2]) @@ @, !.d[w[1]] = @ + 1]
        empty == [nv |-> Cardinality(DOMAIN v), nde |-> nde, v |-> v, d |-> [i \in DOMAIN v |-> 0],
                  e |-> <<>>, elen |-> elen]
    IN  FoldLeft(put, empty, entries)

-----------------------------------------------------------------------------
(* Copying, comparing and relabelling.                                     *)

SgToNauty(s) == Rows(s)
NautyToSg(g) ==
    LET s == Pack([i \in DOMAIN g |-> Ascending(g[i])], 0) IN [s EXCEPT !.elen = s.nde]

\* The copy has the same places, up to the end of the last list.
CopySg(s) == [s EXCEPT !.elen = Max({0} \cup {s.v[i] + s.d[i] : i \in DOMAIN s.v})]

SortlistsSg(s) ==
    LET sorted == [i \in DOMAIN s.v |-> Ascending(Successors(s, i))]
        places(i) == s.v[i]..(s.v[i] + s.d[i] - 1)
        owner(k) == {i \in DOMAIN s.v : k \in places(i)}
    IN  [s EXCEPT !.e = [k \in DOMAIN s.e |->
            IF owner(k) = {} THEN s.e[k] ELSE LET i == Min(owner(k)) IN sorted[i][k - s.v[i] + 1]]]

\* Vertex by vertex: the same degree, and no successor that is not one of the other.
AresameSg(s, t) ==
    /\ s.nv = t.nv
    /\ s.nde = t.nde
    /\ \A i \in DOMAIN s.v : s.d[i] = t.d[i] /\ ToSet(List(t, i)) \subseteq ToSet(List(s, i))

\* updatecan_sg and updatecan_tr: row i is the list of lab[i] under the new names.
\* The rows before samerows stay, and the others follow them.
UpdatecanSg(s, canong, lab, samerows) ==
    LET inv == InverseLab(lab)
        kept == [i \in DOMAIN s.v |-> IF i < samerows THEN List(canong, i)
                                      ELSE [j \in 1..s.d[lab[i]] |-> inv[List(s, lab[i])[j]]]]
    IN  [Pack(kept, canong.elen) EXCEPT !.nde = s.nde]

RelabelSg(s, perm) == UpdatecanSg(CopySg(s), s, perm, 0)

(***************************************************************************)
(* testcanlab_sg and testcanlab_tr: the first row that differs decides, by *)
(* its length or else by the least vertex that only one of them holds.     *)
(***************************************************************************)
CompareRows_FirstOnly(mine, other) ==
    IF Cardinality(other) # Cardinality(mine) THEN IF Cardinality(other) < Cardinality(mine) THEN -1 ELSE 1
    ELSE IF Min(other) < Min(mine) THEN -1
    ELSE 1
CompareRows(mine, other) ==
    LET lessOnly == Min(mine \ other)
    IN  IF Cardinality(other) # Cardinality(mine) THEN IF Cardinality(other) < Cardinality(mine) THEN -1 ELSE 1
        ELSE IF \E x \in other \ mine : x < lessOnly THEN -1
        ELSE 1

TestcanlabTr(s, canong, lab) ==
    LET inv == InverseLab(lab)
        mine(i) == Permset(Successors(s, lab[i]), inv)
        differ == {i \in DOMAIN s.v : mine(i) # Successors(canong, i)}
        i == Min(differ)
    IN  IF differ = {} THEN [comp |-> 0, samerows |-> s.nv]
        ELSE [comp |-> CompareRows(mine(i), Successors(canong, i)), samerows |-> i]

(***************************************************************************)
(* comparelab_tr: only the rows of vertices in cells of their own, of whose*)
(* successors only the cells count.  A row is how many successors lie in   *)
(* each cell.                                                              *)
(***************************************************************************)
ComparelabTr(s, lab1, lab2, col) ==
    LET hits(lab, i) ==
            [c \in ToSet([k \in 1..s.nv |-> col[k - 1]]) |->
                Cardinality({x \in Successors(s, lab[i]) : col[InverseLab(lab)[x]] = c})]
        single == {i \in DOMAIN s.v : \A k \in DOMAIN s.v : col[k] = col[i] => k = i}
        differ == {i \in single : hits(lab1, i) # hits(lab2, i)}
        i == Min(differ)
        more == Min({c \in DOMAIN hits(lab2, i) : hits(lab2, i)[c] > hits(lab1, i)[c]})
    IN  IF differ = {} THEN 0
        ELSE IF s.d[lab1[i]] # s.d[lab2[i]] THEN IF s.d[lab1[i]] < s.d[lab2[i]] THEN -1 ELSE 1
        ELSE IF \E c \in DOMAIN hits(lab1, i) : c < more /\ hits(lab1, i)[c] > hits(lab2, i)[c] THEN -1
        ELSE 1

-----------------------------------------------------------------------------
(* New graphs.                                                             *)

\* The subgraph on the vertices perm lists, under their places in the list.  What
\* is outside of it is passed over when a list is copied.
SublabelSg(s, perm) ==
    LET place(x) == CHOOSE i \in DOMAIN perm : perm[i] = x
        within(x) == \E i \in DOMAIN perm : perm[i] = x
        lists == [i \in DOMAIN perm |->
                    LET l == SelectSeq(List(s, perm[i]), within) IN [j \in DOMAIN l |-> place(l[j])]]
    IN  Pack(lists, s.elen)

\* The places are the sums of the indegrees, counted first.
ConverseSg_Shifted(s) ==
    LET indegree == [i \in DOMAIN s.v |-> Cardinality({p \in Arcs(s) : p[1] = i})]
    IN  Fill(Before(indegree), s.nde, s.nde,
             InTurn([i \in DOMAIN s.v |-> [j \in 1..s.d[i] |-> <<List(s, i)[j], i>>]]))
ConverseSg(s) ==
    LET indegree == [i \in DOMAIN s.v |-> Cardinality({p \in Arcs(s) : p[2] = i})]
    IN  Fill(Before(indegree), s.nde, s.nde,
             InTurn([i \in DOMAIN s.v |-> [j \in 1..s.d[i] |-> <<List(s, i)[j], i>>]]))

\* How many loops there are decides the space, and whether there are any the loops.
ComplementSg(s) ==
    LET loops == Cardinality({i \in DOMAIN s.v : i \in Successors(s, i)})
        elen == s.nv * s.nv - s.nde - (IF loops > 1 THEN 0 ELSE s.nv)
        kept(i) == (DOMAIN s.v \ Successors(s, i)) \ (IF loops = 0 THEN {i} ELSE {})
    IN  Pack([i \in DOMAIN s.v |-> Ascending(kept(i))], elen)

\* Mathon doubling of an undirected graph, in lists of nv entries each.
MathonSg(s) ==
    LET n1 == s.nv
        n2 == 2 * n1 + 2
        ends(i) == << <<0, i + 1>>, <<i + 1, 0>>, <<n1 + 1, i + n1 + 2>>, <<i + n1 + 2, n1 + 1>> >>
        inside(i) == FoldLeft(LAMBDA w, k : IF k = i THEN w
                                            ELSE w \o << <<i + 1, k + 1>>, <<i + n1 + 2, k + n1 + 2>> >>,
                              <<>>, List(s, i))
        across(i) == FoldLeft(LAMBDA w, k : w \o << <<i + 1, k + n1 + 2>>, <<k + n1 + 2, i + 1>> >>,
                              <<>>, Ascending((DOMAIN s.v \ Successors(s, i)) \ {i}))
    IN  Fill([i \in 0..(n2 - 1) |-> i * n1], n2 * n1, n2 * n1,
             InTurn([i \in DOMAIN s.v |-> ends(i)]) \o InTurn([i \in DOMAIN s.v |-> inside(i) \o across(i)]))

(***************************************************************************)
(* rangraph2_sg.  An edge of an undirected graph is written to the list of *)
(* its lesser end as it is drawn, and to that of the greater end when all  *)
(* are drawn; the list of a vertex starts after all that the vertices      *)
(* before it will need.  The array is made longer by Inc whenever it is    *)
(* too short.  It begins with the least length, that of rare edges.        *)
(***************************************************************************)
DrawsSg(k, digraph) == {p \in (0..(k - 1)) \X (0..(k - 1)) : p[1] < p[2] \/ (digraph /\ p[1] # p[2])}
Grown(elen, nde) == IF nde <= elen THEN elen ELSE elen + Inc * ((nde - elen + Inc - 1) \div Inc)
Rangraph2Sg(k, digraph, kept) ==
    LET out(i) == Ascending({p[2] : p \in {p \in kept : p[1] = i}})
        in(i) == {p[1] : p \in {p \in kept : p[2] = i}}
        forward(i) == [j \in DOMAIN out(i) |-> <<i, out(i)[j]>>]
        back(i) == [j \in DOMAIN out(i) |-> <<out(i)[j], i>>]
        d == [i \in 0..(k - 1) |-> Len(out(i)) + (IF digraph THEN 0 ELSE Cardinality(in(i)))]
    IN  Fill(Before(d), Total(d), Grown(4 * Inc, Total(d)),
             InTurn([i \in DOMAIN d |-> forward(i)]) \o (IF digraph THEN <<>> ELSE InTurn([i \in DOMAIN d |-> back(i)])))

-----------------------------------------------------------------------------
(* Cells and values of vertices.                                           *)

\* bestcell_sg counts how many cells, its own among them, the first vertex of a
\* cell is joined to but not completely.
BestcellSg(s, part) ==
    LET cells == NonSingletons(part)
        hits(c, d) == Setinter(Successors(s, FirstOf(part, c)), CellAt(part, d))
        count == [c \in cells |-> Cardinality({d \in cells : hits(c, d) \in 1..(CellSize(part, d) - 1)})]
    IN  IF cells = {} THEN s.nv ELSE FirstGreatest(cells, count)

TargetcellSg(s, part, level, tc_level, hint) == TargetcellBy(BestcellSg(s, part), part, level, tc_level, hint)

\* The code of a vertex of the cell with number w at distance d.
FuzzOne(x) == Xor[x][Fuzz1[(x % 4) + 1]]
VertexCode == [w, d \in 1..MaxVertices |-> FuzzOne(d + FuzzOne(w))]

\* The number of the cell of a vertex.
CellNumber_Place(part, x) == Cardinality({c \in CellStarts(part) : c <= x})
CellNumber(part, x) == Cardinality({c \in CellStarts(part) : c <= part[x]})

(***************************************************************************)
(* distances_sg: a code of the cells that a vertex has at every distance   *)
(* up to a limit, of the cells in turn until one is divided by it.  (@@    *)
(* makes TLC work the distances out once.)                                 *)
(***************************************************************************)
DistancesSg(s, part, invararg) ==
    LET dlim == IF invararg > s.nv \/ invararg = 0 THEN s.nv ELSE invararg + 1
        adj == [adj |-> Rows(s)]
        code(x) ==
            LET dist == Distances(adj, x) @@ <<>>
                reached == {y \in DOMAIN part : dist[y] \in 1..Min({dlim, s.nv - 1})}
            IN  CLEANUP(Masked(MapThenSumSet(LAMBDA y : VertexCode[CellNumber(part, y), dist[y]], reached)))
        divided == {c \in NonSingletons(part) : Cardinality({code(x) : x \in CellAt(part, c)}) > 1}
        seen == {c \in NonSingletons(part) : \A d \in divided : c <= d}
    IN  [x \in DOMAIN part |-> IF part[x] \in seen THEN code(x) ELSE 0]
=============================================================================
