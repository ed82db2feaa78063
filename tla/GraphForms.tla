----------------------------- MODULE GraphForms -----------------------------
(***************************************************************************)
(* A graph in the dense and in the sparse form, and the arrays lab and ptn *)
(* of a partition of its vertices at level 0: every operation is applied   *)
(* to both forms, as a caller does who may use either.                     *)
(***************************************************************************)
EXTENDS SparseGraph

CONSTANTS
    SparseStarts,   \* The graphs that rangraph2_sg makes: <<k, digraph, kept>>,
    DenseStarts,    \* the graphs that rangraph and rangraph2 make,
    Randoms(_),     \* the sequences of choices ranperm makes for k vertices,
    Partials(_),    \* the lists of some of k vertices,
    MaxDoubled,     \* the vertices of a graph that is doubled
    Steps(_)        \* and the number of operations on a graph of k vertices.

VARIABLES digraph, sg, g, lab, ptn, left

vars == <<digraph, sg, g, lab, ptn, left>>

n == sg.nv

-----------------------------------------------------------------------------
(* The arrays lab and ptn.  An entry of ptn is 0 at the end of a cell, and *)
(* 1 stands for the other values, which all mean the same at level 0.      *)

\* ranperm: the place i is swapped with one that is not after it.
Ranperm(k, choice) ==
    FoldLeft(LAMBDA p, i : [p EXCEPT ![k - i] = p[choice[k - i]], ![choice[k - i]] = p[k - i]],
             [i \in 0..(k - 1) |-> i], [i \in 1..(k - 1) |-> i])
Perms(k) == {Ranperm(k, choice) : choice \in Randoms(k)}

Unitptn(k) == [lab |-> [i \in 0..(k - 1) |-> i], ptn |-> [i \in 0..(k - 1) |-> IF i = k - 1 THEN 0 ELSE 1]]

Fixit(k, v) ==
    [lab |-> [i \in 0..(k - 1) |-> IF i = 0 THEN v ELSE IF i = v THEN 0 ELSE i],
     ptn |-> [i \in 0..(k - 1) |-> IF i \in {0, k - 1} THEN 0 ELSE 1]]

Cellstarts == {i \in 0..(n - 1) : i = 0 \/ ptn[i - 1] = 0}
Countcells == Cardinality({i \in 0..(n - 1) : ptn[i] = 0})

CellStartOf(i) == Max({c \in Cellstarts : c <= i})

\* Nothing happens to a vertex that is alone in its cell.
Individualise(v) ==
    LET i == InverseLab(lab)[v]
        j == CellStartOf(i)
    IN  IF ptn[j] = 0 THEN [lab |-> lab, ptn |-> ptn]
        ELSE [lab |-> [lab EXCEPT ![i] = lab[j], ![j] = v], ptn |-> [ptn EXCEPT ![j] = 0]]

\* The vertices that stay keep their order.  A cell that loses its last vertices
\* ends at the last one that stays.
CloseCell_Open(ends, end) == ends
CloseCell(ends, end) ==
    IF ends # <<>> /\ end < Last(ends) THEN [ends EXCEPT ![Len(ends)] = end] ELSE ends
Subpartition(perm) ==
    LET place(x) == CHOOSE j \in DOMAIN perm : perm[j] = x
        stays(x) == \E j \in DOMAIN perm : perm[j] = x
        step(s, i) ==
            IF stays(lab[i]) THEN [lab |-> Append(s.lab, place(lab[i])), ptn |-> Append(s.ptn, ptn[i])]
            ELSE [s EXCEPT !.ptn = CloseCell(@, ptn[i])]
        end == FoldLeft(step, [lab |-> <<>>, ptn |-> <<>>], [i \in 1..n |-> i - 1])
    IN  [lab |-> [j \in DOMAIN perm |-> end.lab[j + 1]], ptn |-> [j \in DOMAIN perm |-> end.ptn[j + 1]]]

\* The partition as a function, and arrays for such a function.
Part == [x \in 0..(n - 1) |-> CellStartOf(InverseLab(lab)[x])]
ArraysOf(part) ==
    LET place == [x \in DOMAIN part |->
                    part[x] + Cardinality({y \in DOMAIN part : part[y] = part[x] /\ y < x})]
    IN  [lab |-> InverseLab(place),
         ptn |-> [i \in DOMAIN part |-> IF i + 1 \in DOMAIN part \ CellStarts(part) THEN 1 ELSE 0]]

-----------------------------------------------------------------------------
(* The operations.                                                         *)

Init ==
    /\ \/ \E s \in SparseStarts :
              digraph = s[2] /\ sg = Rangraph2Sg(s[1], s[2], s[3]) /\ g = SgToNauty(sg)
       \/ \E s \in DenseStarts :
              digraph = s[2] /\ g = Rangraph(s[1], s[2], s[3]) /\ sg = NautyToSg(g)
    /\ lab = Unitptn(n).lab
    /\ ptn = Unitptn(n).ptn
    /\ left = Steps(n)

Step == left > 0 /\ left' = left - 1

Arrays(a) == lab' = a.lab /\ ptn' = a.ptn

\* relabel and relabel_sg, which permute lab too.
Relabelling(perm) ==
    /\ Step
    /\ g' = RelabelDense(g, perm)
    /\ sg' = RelabelSg(sg, perm)
    /\ lab' = [i \in DOMAIN lab |-> InverseLab(perm)[lab[i]]]
    /\ UNCHANGED <<digraph, ptn>>

Sublabelling(perm) ==
    /\ Step
    /\ g' = Sublabel(g, perm)
    /\ sg' = SublabelSg(sg, perm)
    /\ Arrays(Subpartition(perm))
    /\ UNCHANGED digraph

Reversal ==
    /\ Step
    /\ g' = Converse(g)
    /\ sg' = ConverseSg(sg)
    /\ UNCHANGED <<digraph, lab, ptn>>

\* Of a graph with a single loop complement_sg writes more than it allocates.
Complementing ==
    /\ Step
    /\ Cardinality({x \in 0..(n - 1) : x \in g[x]}) # 1
    /\ g' = Complement(g)
    /\ sg' = ComplementSg(sg)
    /\ UNCHANGED <<digraph, lab, ptn>>

\* For digraphs the two forms of doubling are different.
Doubling ==
    /\ Step
    /\ ~digraph
    /\ n <= MaxDoubled
    /\ g' = Mathon(g)
    /\ sg' = MathonSg(sg)
    /\ Arrays(Unitptn(2 * n + 2))
    /\ UNCHANGED digraph

\* Other lists for the same graph.
Listing ==
    /\ Step
    /\ sg' \in {NautyToSg(g), CopySg(sg), SortlistsSg(sg)}
    /\ UNCHANGED <<digraph, g, lab, ptn>>

Partitioning ==
    /\ Step
    /\ \/ Arrays(Unitptn(n))
       \/ \E v \in 0..(n - 1) : Arrays(Fixit(n, v)) \/ Arrays(Individualise(v))
       \/ Arrays(ArraysOf(Refine(g, Part, Cellstarts).part))
    /\ UNCHANGED <<digraph, sg, g>>

Next ==
    \/ \E perm \in Perms(n) : Relabelling(perm)
    \/ \E perm \in Partials(n) : Sublabelling(perm)
    \/ Reversal \/ Complementing \/ Doubling \/ Listing \/ Partitioning

Spec == Init /\ [][Next]_vars

-----------------------------------------------------------------------------
(* What the operations do.                                                 *)

Places(i) == sg.v[i]..(sg.v[i] + sg.d[i] - 1)

\* The lists lie in the space allocated and apart from each other, without an entry
\* twice, although their places are computed before they are filled
\* (naututil.c:2608-2611, 2712-2716, 2898-2910).  Both forms are the same graph, and
\* lab and ptn are arrays of a partition (naututil.c:1925-1941, 2425-2449).
FormsAgree ==
    LET names == 0..(n - 1)
    IN  /\ \A i \in names :
               /\ Places(i) \subseteq 0..(sg.elen - 1) /\ Places(i) \subseteq DOMAIN sg.e
               /\ Cardinality(Successors(sg, i)) = sg.d[i]
               /\ \A j \in names \ {i} : Places(i) \cap Places(j) = {}
        /\ sg.nde = Total(sg.d)
        /\ SgToNauty(sg) = g
        /\ digraph \/ Converse(g) = g
        /\ DOMAIN lab = names /\ {lab[i] : i \in names} = names
        /\ DOMAIN ptn = names /\ ptn[n - 1] = 0 /\ Countcells = Cardinality(Cellstarts)

Abstract == INSTANCE LabelledDigraph WITH arcs <- Arcs(sg), part <- Part

\* The operations do to the graph and its cells what their comments say, in whatever
\* order they are called and however the lists lie (naututil.c:2323-2329, 2452-2458,
\* 2415-2423, 2582-2587, 2623-2629, 2677-2682, 1917-1923).
ImplementsDigraph == Abstract!Spec

-----------------------------------------------------------------------------
(* Comparing and refining.                                                 *)

Loopless == \A x \in 0..(n - 1) : x \notin g[x]

\* The leaves of a search are compared through graphs that were relabelled with the
\* best of them so far, row by row up to the first that differs.  In both forms that
\* is an order of the relabelled graphs, so that the best leaf does not depend on
\* when the others are found, and it counts the rows that agree (naugraph.c:91-100,
\* nausparse.c:340-350, 408-418).  comparelab_tr says the same without such a graph.
\* An automorphism is told by the edges alone (naugraph.c:62-67).
ComparisonsRight ==
    LET perms == {[perm |-> p, dense |-> RelabelDense(g, p), sparse |-> RelabelSg(sg, p)] : p \in Perms(n)}
        each == [i \in 0..(n - 1) |-> i]
        cells == [i \in 0..(n - 1) |-> CellStartOf(i)]
        differ(p, q) == {i \in 0..(n - 1) : p.dense[i] # q.dense[i]}
        dense == {<<p, q, Testcanlab(g, p.dense, q.perm)>> : p \in perms, q \in perms}
        sparse == {<<p, q, TestcanlabTr(sg, p.sparse, q.perm)>> : p \in perms, q \in perms}
        less(table, p) == Cardinality({t \in table : t[2] = p /\ t[3].comp = -1})
        \* The more of them are greater, the less it is.
        Ordered(table) ==
            LET rank == {<<p, less(table, p)>> : p \in perms}
            IN  \A a, b \in rank : \A t \in table :
                    t[1] = a[1] /\ t[2] = b[1] =>
                        /\ t[3].comp = -1 <=> b[2] > a[2]
                        /\ t[3].comp = 1 <=> b[2] < a[2]
                        /\ t[3].comp = 0 <=> differ(t[1], t[2]) = {}
                        /\ t[3].samerows = Min(differ(t[1], t[2]) \cup {n})
    IN  /\ Ordered(dense)
        /\ Ordered(sparse)
        /\ \A t \in dense : Updatecan(g, t[1].dense, t[2].perm, t[3].samerows) = t[2].dense
        /\ \A t \in sparse :
               /\ ComparelabTr(sg, t[1].perm, t[2].perm, each) = t[3].comp
               /\ ComparelabTr(sg, t[1].perm, t[2].perm, cells) = -ComparelabTr(sg, t[2].perm, t[1].perm, cells)
               /\ AresameSg(t[1].sparse, t[2].sparse) <=> t[1].dense = t[2].dense
               /\ SgToNauty(UpdatecanSg(sg, t[1].sparse, t[2].perm, t[3].samerows)) = t[2].dense
        /\ \A p \in perms : Loopless \/ digraph => (Isautom(g, p.perm, digraph) <=> p.dense = g)

EquitablePart(part) ==
    \A c \in CellStarts(part) : \A x, y \in DOMAIN part :
        part[x] = part[y] => Setinter(CellAt(part, c), g[x]) = Setinter(CellAt(part, c), g[y])

\* The coarsest equitable partition that is finer than part: all cells divided by
\* how many neighbours their vertices have in every cell, over and over.
Coarsest(part) ==
    LET count(p, c) == [x \in DOMAIN p |-> Setinter(CellAt(p, c), g[x])]
        round(p) == FoldLeft(LAMBDA r, c : SplitAll(r, count(p, c)) @@ r, p, Ascending(CellStarts(p)))
    IN  FoldLeft(LAMBDA p, i : IF EquitablePart(p) THEN p ELSE round(p), part, [i \in 1..n |-> i])

RefinesTo(part, fine) ==
    /\ LET coarsest == Coarsest(part)
       IN  \A x, y \in DOMAIN part : fine[x] = fine[y] <=> coarsest[x] = coarsest[y]
    /\ \A x, y \in DOMAIN part : part[x] < part[y] => fine[x] < fine[y]
    /\ EquitablePart(fine)

AloneIn(part, v) == [x \in DOMAIN part |-> IF part[x] = part[v] /\ x # v THEN part[x] + 1 ELSE part[x]]

\* refine ends at the coarsest equitable partition that is finer, although of the parts
\* of a cell one never becomes active; from an equitable partition with one vertex put
\* in a cell of its own, that cell alone needs to be active (naugraph.c:160-170).
RefinesRight ==
    ~digraph =>
        LET fine == Refine(g, Part, Cellstarts).part
        IN  /\ RefinesTo(Part, fine)
            /\ \A v \in DOMAIN fine :
                   LET single == AloneIn(fine, v)
                   IN  RefinesTo(single, Refine(g, single, {single[v]}).part)

\* The code of a refinement, the order of the cells it makes, the values of distances_sg
\* and the cell chosen to be split do not change if the vertices have other names: the
\* search prunes by all of them (naugraph.c:172-174, nausparse.c:1532-1537).
NamesImmaterial ==
    LET part == Part
        fine == Refine(g, part, Cellstarts)
        far == DistancesSg(sg, part, 0)
        near == DistancesSg(sg, part, 1)
        others == {[perm |-> p, g |-> RelabelDense(g, p), sg |-> RelabelSg(sg, p),
                    part |-> [i \in DOMAIN p |-> part[p[i]]]] : p \in Perms(n)}
    IN  \A o \in others :
            LET other == Refine(o.g, o.part, Cellstarts)
                named(f) == [i \in DOMAIN o.perm |-> f[o.perm[i]]]
            IN  /\ other.code = fine.code
                /\ other.part = named(fine.part)
                /\ DistancesSg(o.sg, o.part, 0) = named(far)
                /\ DistancesSg(o.sg, o.part, 1) = named(near)
                /\ ~digraph =>
                       /\ Targetcell(o.g, other.part, 1, 1, -1) = Targetcell(g, fine.part, 1, 1, -1)
                       /\ TargetcellSg(o.sg, other.part, 1, 1, -1) = TargetcellSg(sg, fine.part, 1, 1, -1)

\* The automorphisms that keep the cells of a partition.
CellAutomorphisms(part) ==
    LET starts == Ascending(CellStarts(part))
    IN  Automorphisms([adj |-> g, cells |-> [c \in DOMAIN starts |-> CellAt(part, starts[c])]])

\* When cheapautom says so, the cells of an equitable partition are the orbits of the
\* automorphisms that keep them, and the search takes them to be without looking
\* (naugraph.c:482-493).  The cell chosen is the first that is joined, but not
\* completely, to the greatest number of others whichever of its vertices is looked at
\* (naugraph.c:517-523); in the sparse form a cell also counts itself.
CellChoices ==
    ~digraph /\ Loopless =>
        LET fine == Refine(g, Part, Cellstarts).part
            cells == NonSingletons(fine)
            joined(x, d) == Setinter(g[x], CellAt(fine, d)) \in 1..(CellSize(fine, d) - 1)
            count(own) ==
                [c \in cells |-> Cardinality({d \in cells : (own \/ d # c) /\ \E x \in CellAt(fine, c) : joined(x, d)})]
        IN  /\ Cheapautom(fine, FALSE) =>
                   LET group == CellAutomorphisms(fine)
                   IN  \A x, y \in DOMAIN fine : fine[x] = fine[y] => \E p \in group : p[x + 1] = y
            /\ cells # {} =>
                   /\ Targetcell(g, fine, 1, 1, -1) = FirstGreatest(cells, count(FALSE))
                   /\ TargetcellSg(sg, fine, 1, 1, -1) = FirstGreatest(cells, count(TRUE))
=============================================================================
