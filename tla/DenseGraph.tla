----------------------------- MODULE DenseGraph -----------------------------
(***************************************************************************)
(* The dense form of a graph in nauty: row i is the set of the successors  *)
(* of vertex i.  The operations of naugraph.c and naututil.c on it, with   *)
(* refine, the refinement of the dense form, which refine1 repeats for     *)
(* rows of one word.                                                       *)
(***************************************************************************)
EXTENDS OrderedPartition

Setinter(S, T) == Cardinality(S \cap T)
Permset(S, perm) == {perm[x] : x \in S}

-----------------------------------------------------------------------------
(* Relabelling and comparing.                                              *)

\* Rows samerows and later of canong are those of g under the labelling.
Updatecan(g, canong, lab, samerows) ==
    LET inv == InverseLab(lab)
    IN  [i \in DOMAIN g |-> IF i < samerows THEN canong[i] ELSE Permset(g[lab[i]], inv)]

RelabelDense(g, perm) == Updatecan(g, g, perm, 0)

\* Rows are compared as words whose highest bit is vertex 0.
Testcanlab(g, canong, lab) ==
    LET rows == Updatecan(g, canong, lab, 0)
        differ == {i \in DOMAIN g : rows[i] # canong[i]}
        i == Min(differ)
        bit == Min((rows[i] \ canong[i]) \cup (canong[i] \ rows[i]))
    IN  IF differ = {} THEN [comp |-> 0, samerows |-> Cardinality(DOMAIN g)]
        ELSE [comp |-> IF bit \in canong[i] THEN -1 ELSE 1, samerows |-> i]

\* The edges of an undirected graph are looked at from their lesser end.
Isautom(g, perm, digraph) ==
    \A i \in DOMAIN g : \A pos \in g[i] : digraph \/ pos > i => perm[pos] \in g[perm[i]]

-----------------------------------------------------------------------------
(* New graphs.                                                             *)

\* The subgraph on the vertices perm lists, under their places in the list.
Sublabel(g, perm) == [i \in DOMAIN perm |-> {j \in DOMAIN perm : perm[j] \in g[perm[i]]}]

Converse(g) ==
    [i \in DOMAIN g |->
        LET flip == {j \in DOMAIN g \ {i} : (j \in g[i]) # (i \in g[j])}
        IN  (g[i] \ flip) \cup (flip \ g[i])]

\* Loops are complemented if there are any.
Complement(g) ==
    LET loops == \E i \in DOMAIN g : i \in g[i]
    IN  [i \in DOMAIN g |-> (DOMAIN g \ g[i]) \ (IF loops THEN {} ELSE {i})]

\* Two copies of the graph, joined where it is not, with a vertex on each.
Mathon(g) ==
    LET n1 == Cardinality(DOMAIN g)
        others(i) == DOMAIN g \ {i}
    IN  [x \in 0..(2 * n1 + 1) |->
            IF x = 0 THEN 1..n1
            ELSE IF x = n1 + 1 THEN (n1 + 2)..(2 * n1 + 1)
            ELSE IF x <= n1
                 THEN {0} \cup {j + 1 : j \in g[x - 1] \ {x - 1}} \cup {j + n1 + 2 : j \in others(x - 1) \ g[x - 1]}
            ELSE LET i == x - n1 - 2
                 IN  {n1 + 1} \cup {j + n1 + 2 : j \in g[i] \ {i}} \cup {j + 1 : j \in others(i) \ g[i]}]

\* The pairs that rangraph and rangraph2 draw, each kept or not.
Draws(k, digraph) == {p \in (0..(k - 1)) \X (0..(k - 1)) : digraph \/ p[1] < p[2]}
Rangraph(k, digraph, kept) ==
    [i \in 0..(k - 1) |->
        {j \in 0..(k - 1) : <<i, j>> \in kept \/ (~digraph /\ <<j, i>> \in kept)}]

-----------------------------------------------------------------------------
(* refine.                                                                 *)

(***************************************************************************)
(* A singleton splits every cell into the vertices it hits and the others; *)
(* the part that becomes active is the larger one only if the cell is      *)
(* active already.                                                         *)
(***************************************************************************)
SplitByVertex_OneActive(g, v, st, c) ==
    LET cell == CellAt(st.part, c)
        hit == cell \cap g[v]
        rest == c + Cardinality(hit)
    IN  IF hit \in {{}, cell} THEN st
        ELSE [part |-> [x \in cell \ hit |-> rest] @@ st.part,
              active |-> st.active \cup {c},
              hint |-> st.hint,
              code |-> MASH(st.code, rest - 1)]
SplitByVertex(g, v, st, c) ==
    LET cell == CellAt(st.part, c)
        hit == cell \cap g[v]
        rest == c + Cardinality(hit)
        takesRest == c \in st.active \/ Cardinality(hit) >= Cardinality(cell \ hit)
        new == IF takesRest THEN rest ELSE c
        single == 1 = Cardinality(IF takesRest THEN cell \ hit ELSE hit)
    IN  IF hit \in {{}, cell} THEN st
        ELSE [part |-> [x \in cell \ hit |-> rest] @@ st.part,
              active |-> st.active \cup {new},
              hint |-> IF single THEN new ELSE st.hint,
              code |-> MASH(st.code, rest - 1)]

(***************************************************************************)
(* A larger cell splits by how many of its vertices a vertex is joined to. *)
(* All parts become active but the first of the largest ones, unless the   *)
(* cell is active already.                                                 *)
(***************************************************************************)
SplitByCell(g, S, st, c) ==
    LET cell == CellAt(st.part, c)
        count == [x \in cell |-> Setinter(S, g[x])]
        part == [x \in cell |-> Fragment(st.part, count, x)] @@ st.part
        starts == Ascending({part[x] : x \in cell})
        values == Ascending({count[x] : x \in cell})
        size(i) == CellSize(part, starts[i])
        maxcell == CHOOSE i \in DOMAIN starts :
                       \A j \in DOMAIN starts : size(j) < size(i) \/ (size(j) = size(i) /\ i <= j)
        singles == {starts[i] : i \in {i \in DOMAIN starts : i > 1 /\ size(i) = 1}}
        new == st.active \cup (ToSet(starts) \ {c})
    IN  IF Len(starts) = 1 THEN [st EXCEPT !.code = MASH(@, values[1] + c)]
        ELSE [part |-> part,
              active |-> IF c \in st.active THEN new ELSE (new \cup {c}) \ {starts[maxcell]},
              hint |-> IF singles = {} THEN st.hint ELSE Max(singles),
              code |-> MashAll(st.code, [i \in DOMAIN starts |-> values[i] + starts[i]])]

\* The next active cell: the hint, otherwise the next after it, otherwise the first.
NextActive(st) ==
    IF st.hint \in st.active THEN st.hint
    ELSE IF \E c \in st.active : c > st.hint THEN Min({c \in st.active : c > st.hint})
    ELSE Min(st.active)

\* A turn of the loop of refine: every cell of more than one vertex is split.
RefineTurn(g, st) ==
    LET split == NextActive(st)
        S == CellAt(st.part, split)
        cells == Ascending({c \in CellStarts(st.part) : CellSize(st.part, c) > 1})
        rest == [st EXCEPT !.active = @ \ {split}, !.code = MASH(@, 2 * split + Cardinality(S) - 1)]
    IN  IF st.active = {} \/ Discrete(st.part) THEN st
        ELSE IF Cardinality(S) = 1
        THEN FoldLeft(LAMBDA s, c : SplitByVertex(g, CHOOSE v \in S : TRUE, s, c), rest, cells)
        ELSE FoldLeft(LAMBDA s, c : SplitByCell(g, S, s, c), [rest EXCEPT !.code = MASH(@, Cardinality(S))], cells)

\* Each turn takes one active cell, and a new one is a new cell.
Refine(g, part, active) ==
    LET turns == [i \in 1..(2 * Cardinality(DOMAIN g)) |-> i]
        start == [part |-> part, active |-> active, hint |-> 0, code |-> NumCells(part)]
        end == FoldLeft(LAMBDA st, i : RefineTurn(g, st), start, turns)
    IN  [part |-> end.part, code |-> CLEANUP(MASH(end.code, NumCells(end.part)))]

-----------------------------------------------------------------------------
(* The choice of a cell at a node.                                         *)

\* Are the cells of an equitable partition the orbits of some automorphisms?
\* cheapautom and cheapautom_sg.
Cheapautom_Always(part, digraph) == ~digraph
Cheapautom(part, digraph) ==
    LET k == Cardinality(DOMAIN part) - NumCells(part)
        nnt == Cardinality({c \in CellStarts(part) : CellSize(part, c) > 1})
    IN  ~digraph /\ (k <= nnt + 1 \/ k <= 4)

NonSingletons(part) == {c \in CellStarts(part) : CellSize(part, c) > 1}

\* The first vertex of a cell.  All of a cell of an equitable partition are alike.
FirstOf(part, c) == Min(CellAt(part, c))

\* The first of a set of cells where count is greatest.
FirstGreatest(cells, count) ==
    CHOOSE c \in cells : \A d \in cells : count[d] < count[c] \/ (count[d] = count[c] /\ c <= d)

\* bestcell counts every pair of cells that are joined, but not completely, once.
Bestcell(g, part) ==
    LET cells == NonSingletons(part)
        joined(c, d) ==
            LET row == g[FirstOf(part, c)] IN CellAt(part, d) \cap row # {} /\ CellAt(part, d) \ row # {}
        bucket == [c \in cells |-> Cardinality({d \in cells : IF c < d THEN joined(c, d) ELSE d < c /\ joined(d, c)})]
    IN  IF cells = {} THEN Cardinality(DOMAIN g) ELSE FirstGreatest(cells, bucket)

\* A hint is followed if a cell of more than one vertex starts there.
TargetcellBy(best, part, level, tc_level, hint) ==
    IF hint \in NonSingletons(part) THEN hint
    ELSE IF level <= tc_level THEN best
    ELSE IF NonSingletons(part) = {} THEN 0
    ELSE Min(NonSingletons(part))

Targetcell(g, part, level, tc_level, hint) == TargetcellBy(Bestcell(g, part), part, level, tc_level, hint)
=============================================================================
