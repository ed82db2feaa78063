----------------------------- MODULE CanonCode -----------------------------
(***************************************************************************)
(* CanonForm.computeCanon from the core of a query to the bytes that stand *)
(* for it as a key of the index: the core becomes a graph whose vertices   *)
(* are coloured, the colours are passed to nauty, nauty's labelling is     *)
(* applied, and the canonical form is packed into bits.                    *)
(*                                                                         *)
(* A query graph has the vertices 0..vertices-1 and a sequence of edges    *)
(* <<source, label, target>>, labels being predicate ids (gMark has no     *)
(* inverse labels in query graphs).  An adjacency row, which is sorted     *)
(* before it is used, is a set.                                            *)
(***************************************************************************)
EXTENDS BitWriter, Sequences, FiniteSets, FiniteSetsExt, SequencesExt

CONSTANTS
    Cores,          \* The query graphs of the cores to compute keys of.
    MaxLabelBits,   \* MAX_LABEL_BITS,
    MaxVertexBits   \* and MAX_VERTEX_BITS.

ASSUME BitsAssumption == MaxLabelBits \in Nat \ {0} /\ MaxVertexBits \in Nat \ {0}

VARIABLES
    pc,       \* "colour", "parse", "label", "relabel", "write" or "done".
    core,     \* The core.
    colors,   \* The colour data passed to the native code.
    lab,      \* nauty's labelling: first the coloured vertices, then the result,
    ptn,      \* and where its cells end.
    form,     \* The canonical form.
    queue     \* What is still to be written, as <<integer, number of bits>>.

vars == <<pc, core, colors, lab, ptn, form, queue, writerVars>>

Size(g) == g.vertices + Len(g.edges)
Nodes(g) == 0..(Size(g) - 1)
EdgeNode(g, i) == g.vertices + i - 1

Init ==
    /\ core \in Cores
    /\ pc = "colour"
    /\ colors = <<>>
    /\ lab = <<>>
    /\ ptn = <<>>
    /\ form = <<>>
    /\ queue = <<>>
    /\ data = <<>>
    /\ pos = 0
    /\ sub = 8
    /\ value = 0
    /\ bits = 0

-----------------------------------------------------------------------------
(* toColoredGraph, prepareColors and parseColoring.                        *)

\* Every edge becomes a node between its source and its target.
Adjacency(g) ==
    [x \in Nodes(g) |->
        IF x < g.vertices THEN {EdgeNode(g, i) : i \in {i \in DOMAIN g.edges : g.edges[i][1] = x}}
        ELSE {g.edges[x - g.vertices + 1][3]}]

Ascending(S) == SetToSortSeq(S, <)

LabelsOf(g) == Ascending({g.edges[i][2] : i \in DOMAIN g.edges})

\* The edge nodes of a label; the array is filled from its end.
LabelGroup(g, l) == Reverse(Ascending({EdgeNode(g, i) : i \in {i \in DOMAIN g.edges : g.edges[i][2] = l}}))

NoLabel(g) == Ascending((0..(g.vertices - 1)) \ {g.source, g.target})

ColorLists(g) ==
    LET labels == LabelsOf(g)
    IN  <<<<g.source>>>>
        \o (IF g.target = g.source THEN <<>> ELSE <<<<g.target>>>>)
        \o [i \in DOMAIN labels |-> LabelGroup(g, labels[i])]
        \o (IF NoLabel(g) = <<>> THEN <<>> ELSE <<NoLabel(g)>>)

\* The first instead of the last vertex of each colour negated.
PrepareGroup_First(group) ==
    [i \in DOMAIN group |-> IF i = 1 THEN -group[i] - 1 ELSE group[i] + 1]
PrepareGroup(group) ==
    [i \in DOMAIN group |-> IF i = Len(group) THEN -group[i] - 1 ELSE group[i] + 1]

Colors(g) ==
    LET groups == ColorLists(g)
    IN  FlattenSeq([i \in DOMAIN groups |-> PrepareGroup(groups[i])])

\* The arrays of the native code are indexed from 0.
Labels(c) == [i \in 0..(Len(c) - 1) |-> IF c[i + 1] < 0 THEN -c[i + 1] - 1 ELSE c[i + 1] - 1]
Ptn(c) == [i \in 0..(Len(c) - 1) |-> IF c[i + 1] < 0 THEN 0 ELSE 1]

PrepareColors ==
    /\ pc = "colour"
    /\ colors' = Colors(core)
    /\ pc' = "parse"
    /\ UNCHANGED <<core, lab, ptn, form, queue, writerVars>>

ParseColoring ==
    /\ pc = "parse"
    /\ lab' = Labels(colors)
    /\ ptn' = Ptn(colors)
    /\ pc' = "label"
    /\ UNCHANGED <<core, colors, form, queue, writerVars>>

-----------------------------------------------------------------------------
(* nauty, by what Canonizer promises and Nauty is shown to implement: of   *)
(* all the orders of the nodes that keep each cell of the colouring in its *)
(* place it returns one that gives the same relabelled graph for all       *)
(* graphs that can be relabelled to one another.                           *)

\* A cell ends at a position whose ptn is 0.
Cell(p, i) == {j \in DOMAIN p : \A m \in Min({i, j})..(Max({i, j}) - 1) : p[m] # 0}

Orders(l, p) ==
    LET colour == [i \in DOMAIN l |-> {l[j] : j \in Cell(p, i)}]
        upTo[n \in 0..Cardinality(DOMAIN l)] ==
            IF n = 0 THEN {<<>>}
            ELSE UNION {{r @@ (n - 1 :> x) : x \in colour[n - 1] \ Range(r)} : r \in upTo[n - 1]}
    IN  upTo[Cardinality(DOMAIN l)]

InverseOf(r) == [x \in DOMAIN r |-> CHOOSE i \in DOMAIN r : r[i] = x]
Relabelled(g, r) ==
    LET adj == Adjacency(g)
        inv == InverseOf(r)
    IN  [i \in DOMAIN r |-> {inv[x] : x \in adj[r[i]]}]

Labellings(g, l, p) ==
    LET orders == Orders(l, p)
        canonical == CHOOSE h \in {Relabelled(g, r) : r \in orders} : TRUE
    IN  {r \in orders : Relabelled(g, r) = canonical}

ComputeCanonSparse ==
    /\ pc = "label"
    /\ lab' \in Labellings(core, lab, ptn)
    /\ pc' = "relabel"
    /\ UNCHANGED <<core, colors, ptn, form, queue, writerVars>>

-----------------------------------------------------------------------------
(* The canonical form and its bytes.                                       *)

\* Relabelling with nauty's labelling instead of its inverse.
CanonForm_NotInverse(g, r) ==
    LET labels == LabelsOf(g)
        adj == Adjacency(g)
    IN  [source |-> r[g.source],
         target |-> r[g.target],
         labels |-> [i \in DOMAIN labels |-> <<labels[i], Len(LabelGroup(g, labels[i]))>>],
         graph |-> [i \in DOMAIN r |-> {r[x] : x \in adj[r[i]]}]]

CanonForm(g, r) ==
    LET labels == LabelsOf(g)
        adj == Adjacency(g)
        inv == InverseOf(r)
    IN  [source |-> inv[g.source],
         target |-> inv[g.target],
         labels |-> [i \in DOMAIN labels |-> <<labels[i], Len(LabelGroup(g, labels[i]))>>],
         graph |-> [i \in DOMAIN r |-> {inv[x] : x \in adj[r[i]]}]]

ComputeCanon ==
    /\ pc = "relabel"
    /\ form' = CanonForm(core, lab)
    /\ pc' = "write"
    /\ UNCHANGED <<core, colors, lab, ptn, queue, writerVars>>

\* The bits needed for a vertex: the logarithm of their number, rounded up.
VertexBits(n) == CHOOSE b \in 0..n : 2^b >= n /\ \A c \in 0..(b - 1) : 2^c < n

\* Without room for the number of edges per label.
RequiredBits_NoCounts(f) ==
    LET n == Cardinality(DOMAIN f.graph)
        vb == VertexBits(n)
    IN  MaxVertexBits + vb * 2 + Len(f.labels) * MaxLabelBits + MaxLabelBits
            + n * vb + MapThenSumSet(LAMBDA i : Cardinality(f.graph[i]) * vb, DOMAIN f.graph)
RequiredBits(f) ==
    LET n == Cardinality(DOMAIN f.graph)
        vb == VertexBits(n)
    IN  MaxVertexBits + vb * 2 + Len(f.labels) * MaxLabelBits + MaxLabelBits + vb * Len(f.labels)
            + n * vb + MapThenSumSet(LAMBDA i : Cardinality(f.graph[i]) * vb, DOMAIN f.graph)

Row(edges, vb) ==
    LET row == Ascending(edges)
    IN  <<<<Len(row), vb>>>> \o [i \in DOMAIN row |-> <<row[i], vb>>]

Writes(f) ==
    LET n == Cardinality(DOMAIN f.graph)
        vb == VertexBits(n)
    IN  <<<<n, MaxVertexBits>>, <<f.source, vb>>, <<f.target, vb>>, <<Len(f.labels), MaxLabelBits>>>>
        \o FlattenSeq([i \in DOMAIN f.labels |->
               <<<<f.labels[i][1], MaxLabelBits>>, <<f.labels[i][2], vb>>>>])
        \o FlattenSeq([i \in 1..n |-> Row(f.graph[i - 1], vb)])

StartWriting ==
    /\ pc = "write"
    /\ data = <<>>
    /\ NewWriter(RequiredBits(form))
    /\ queue' = Writes(form)
    /\ UNCHANGED <<pc, core, colors, lab, ptn, form>>

WriteNext ==
    /\ pc = "write"
    /\ queue # <<>>
    /\ WriteInt(queue[1][1], queue[1][2])
    /\ queue' = Tail(queue)
    /\ UNCHANGED <<pc, core, colors, lab, ptn, form>>

WriteBits ==
    /\ WriteStep
    /\ UNCHANGED <<pc, core, colors, lab, ptn, form, queue>>

Finish ==
    /\ pc = "write"
    /\ data # <<>>
    /\ queue = <<>>
    /\ bits = 0
    /\ pc' = "done"
    /\ UNCHANGED <<core, colors, lab, ptn, form, queue, writerVars>>

Done == pc = "done" /\ UNCHANGED vars

Next ==
    \/ PrepareColors
    \/ ParseColoring
    \/ ComputeCanonSparse
    \/ ComputeCanon
    \/ StartWriting
    \/ WriteNext
    \/ WriteBits
    \/ Finish
    \/ Done

Spec == Init /\ [][Next]_vars

-----------------------------------------------------------------------------
(* Properties.                                                             *)

\* Every variable has its type.
TypeOK ==
    /\ pc \in {"colour", "parse", "label", "relabel", "write", "done"}
    /\ core.source \in 0..(core.vertices - 1) /\ core.target \in 0..(core.vertices - 1)
    /\ \A i \in DOMAIN colors : colors[i] \in -Size(core)..Size(core) \ {0}
    /\ lab # <<>> => lab \in [Nodes(core) -> Nodes(core)]
    /\ ptn # <<>> => ptn \in [Nodes(core) -> 0..1]
    /\ \A i \in DOMAIN queue : queue[i] \in Nat \X Nat
    /\ WriterTypeOK

\* The cells nauty is given (CanonForm.java:169-223, Nauty.java:72-82 and
\* 178-195, core.c:73-85) are the colours of the graph: the source alone, then
\* the target alone unless it is the source, then the edges of each label in the
\* order of the labels, then the other vertices.
CellsAreColours ==
    pc = "label" =>
        LET colour(x) == IF x >= core.vertices THEN core.edges[x - core.vertices + 1][2] + 2
                         ELSE IF x = core.source THEN 0
                         ELSE IF x = core.target THEN 1
                         ELSE 2 + Size(core) + Max({0} \cup {core.edges[i][2] : i \in DOMAIN core.edges})
        IN  /\ {lab[i] : i \in DOMAIN lab} = Nodes(core)
            /\ \A i, j \in DOMAIN lab :
                   /\ j \in Cell(ptn, i) <=> colour(lab[i]) = colour(lab[j])
                   /\ i < j => colour(lab[i]) <= colour(lab[j])
            /\ ptn[Size(core) - 1] = 0

\* Any two graphs that differ in the names of their vertices and in the order of
\* their edges only: gMark numbers both as it meets them in the query.
Variants(g) ==
    {[g EXCEPT !.source = m[@],
               !.target = m[@],
               !.edges = [i \in DOMAIN g.edges |->
                   LET e == g.edges[o[i]] IN <<m[e[1]], e[2], m[e[3]]>>]] :
        m \in Permutations(0..(g.vertices - 1)), o \in Permutations(DOMAIN g.edges)}

\* The canonical form (CanonForm.java:121-159) of a query does not depend on how
\* the vertices and edges of its core are numbered, so that a query asked finds
\* the query indexed; nor does it if the cells of the colouring are not the colours.
FormCanonical ==
    /\ CellsAreColours
    /\ (pc = "write" /\ data = <<>>) =>
           \A h \in Variants(core) :
               LET c == Colors(h)
               IN  \A r \in Labellings(h, Labels(c), Ptn(c)) : CanonForm(h, r) = form

\* The writer (BitWriter.java:48-85) is never at work past the end of the array
\* that toBinaryCanon sized in advance (CanonForm.java:288-297), and leaves less
\* than a byte of it unused.
ArrayFits ==
    /\ TypeOK
    /\ bits > 0 => pos \in DOMAIN data
    /\ pc = "done" => 8 * Cardinality(DOMAIN data) - Written \in 0..7

\* The bit at an offset, and the integer of w bits there.
Bit(o) == o \div 8 \in DOMAIN data /\ 7 - (o % 8) \in data[o \div 8]
ReadInt(o, w) == MapThenSumSet(LAMBDA k : IF Bit(o + k) THEN 2^(w - 1 - k) ELSE 0, 0..(w - 1))

\* The graph whose nodes are coloured that the bytes stand for: a row of n numbers
\* starts where the row before it ends, and the edges of a label follow the source,
\* the target and the edges of the labels before it.
Decoded ==
    LET n == ReadInt(0, MaxVertexBits)
        vb == VertexBits(n)
        source == ReadInt(MaxVertexBits, vb)
        target == ReadInt(MaxVertexBits + vb, vb)
        first == MaxVertexBits + 2 * vb + MaxLabelBits
        count == ReadInt(first - MaxLabelBits, MaxLabelBits)
        label(j) == ReadInt(first + (j - 1) * (MaxLabelBits + vb), MaxLabelBits)
        times(j) == ReadInt(first + (j - 1) * (MaxLabelBits + vb) + MaxLabelBits, vb)
        row[i \in 0..n] ==
            IF i = 0 THEN first + count * (MaxLabelBits + vb)
            ELSE row[i - 1] + vb * (1 + ReadInt(row[i - 1], vb))
        start[j \in 1..(count + 1)] ==
            IF j = 1 THEN (IF source = target THEN 1 ELSE 2) ELSE start[j - 1] + times(j - 1)
    IN  [nodes |-> n,
         source |-> source,
         target |-> target,
         edges |-> [j \in 1..count |-> [label |-> label(j), at |-> start[j]..(start[j + 1] - 1)]],
         graph |-> [i \in 0..(n - 1) |-> {ReadInt(row[i] + k * vb, vb) : k \in 1..ReadInt(row[i], vb)}]]

\* The bytes of a query determine it: what a reader of them rebuilds is the core up
\* to the names of its vertices, so that two queries that differ never get one key
\* (CanonForm.java:287-319).
CodeDetermines ==
    pc = "done" =>
        LET d == Decoded
        IN  /\ d.nodes = Size(core)
            /\ \E m \in Permutations(Nodes(core)) :
                   /\ m[core.source] = d.source
                   /\ m[core.target] = d.target
                   /\ \A i \in DOMAIN core.edges : \E j \in DOMAIN d.edges :
                          /\ d.edges[j].label = core.edges[i][2]
                          /\ m[EdgeNode(core, i)] \in d.edges[j].at
                   /\ \A x \in Nodes(core) : d.graph[m[x]] = {m[y] : y \in Adjacency(core)[x]}
=============================================================================
