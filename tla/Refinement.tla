----------------------------- MODULE Refinement -----------------------------
(***************************************************************************)
(* The refinement of a partition at a node of nauty's search tree: doref   *)
(* with refine_sg and the vertex invariant adjacencies_sg, the ones that   *)
(* the options for sparse digraphs choose.                                 *)
(*                                                                         *)
(* Every turn of the loop of refine_sg is a step of its own, and every     *)
(* cell that is split in it.                                               *)
(***************************************************************************)
EXTENDS OrderedPartition

CONSTANT MaxVertices   \* A bound on the vertices of a graph.

ASSUME MaxVerticesAssumption == MaxVertices \in Nat

VARIABLE ref   \* What doref is at: [step, level, part, queue, code, outer, by, val, cells].

\* A graph of at most so many vertices, each of one colour.
IsColoredGraph(G) ==
    /\ \E k \in 1..MaxVertices :
           G \in [adj : [0..(k - 1) -> SUBSET (0..(k - 1))], cells : Seq(SUBSET (0..(k - 1)))]
    /\ \A x \in Vertices(G) : \E c \in DOMAIN G.cells : x \in G.cells[c]
    /\ \A c, d \in DOMAIN G.cells : c # d => G.cells[c] \cap G.cells[d] = {}

FUZZ1 == [x \in 1..MaxVertices |-> Xor[x][Fuzz1[(x % 4) + 1]]]
FUZZ2 == [x \in 1..MaxVertices |-> Xor[x][Fuzz2[(x % 4) + 1]]]

\* The partition the arrays labels and ptn of the binding stand for.
PartOf(G) ==
    [x \in Vertices(G) |-> Cardinality(UNION {G.cells[c] : c \in 1..(ColorOf(G, x) - 1)})]

-----------------------------------------------------------------------------
(* refine_sg.  Its state is part, queue and code; the set active of the    *)
(* code always holds the cells of the queue.  In a turn of its loop cells  *)
(* are still to be split by the values val, which come from a vertex, from *)
(* a larger cell or from the distances from a vertex.                      *)

StartDoref(part, active, level) ==
    [step |-> "start", level |-> level, part |-> part, queue |-> Ascending(active),
     code |-> NumCells(part), outer |-> -1, by |-> "vertex", val |-> part, cells |-> <<>>]

(***************************************************************************)
(* The fragments of a cell that was split become active, except for one:   *)
(* of two fragments the larger one, of more the first of the largest ones, *)
(* unless the cell itself still was active.                                *)
(***************************************************************************)
ActivateTwo(queue, starts, size) ==
    IF size[starts[1]] <= size[starts[2]] /\ ~Contains(queue, starts[1]) THEN Append(queue, starts[1])
    ELSE Append(queue, starts[2])

Largest(starts, size) ==
    CHOOSE i \in DOMAIN starts :
        /\ \A j \in DOMAIN starts : size[starts[j]] <= size[starts[i]]
        /\ \A j \in 1..(i - 1) : size[starts[j]] < size[starts[i]]

\* The place in the queue that is overwritten by the first fragment, or -1.
BigPos(queue, starts, size) ==
    LET big == Largest(starts, size)
    IN  IF big = 1 \/ Contains(queue, starts[1]) THEN -1 ELSE Len(queue) + big - 2

ActivateMany(queue, starts, size) ==
    LET longer == queue \o Tail(starts)
        bigpos == BigPos(queue, starts, size)
    IN  IF bigpos = -1 THEN longer ELSE [longer EXCEPT ![bigpos + 1] = starts[1]]

Activate_None(queue, starts, size) == queue
Activate(queue, starts, size) ==
    IF Len(starts) = 2 THEN ActivateTwo(queue, starts, size) ELSE ActivateMany(queue, starts, size)

(***************************************************************************)
(* What MASH adds to the code when a cell is split: starts and values are  *)
(* those of its fragments.                                                 *)
(***************************************************************************)
CodesByVertex(c, starts, hits) == <<c, hits>> \o Tail(starts)

CodesByCell(c, starts, values) ==
    LET first == starts[2] - c
        second == starts[3] - starts[2]
    IN  <<c>>
        \o (IF Len(starts) = 1 THEN <<>> ELSE <<values[1], starts[2]>>)
        \o (IF Len(starts) <= 2 THEN <<>>
            ELSE <<starts[3]>> \o (IF first >= second THEN <<>> ELSE <<second>>)
                 \o SubSeq(values, 3, Len(values)))

CodesByDistance(c, starts, values, bigpos) ==
    <<c>>
    \o (IF Len(starts) = 1 THEN <<>> ELSE <<values[2], starts[2]>>)
    \o (IF Len(starts) <= 2 THEN <<>>
        ELSE [i \in 1..(Len(starts) - 2) |-> starts[i + 2] - 1]
             \o (IF bigpos = -1 THEN <<>> ELSE <<bigpos>>))

\* The next cell of a turn is split.
SplitNext ==
    LET c == Head(ref.cells)
        cell == CellAt(ref.part, c)
        part == Split(ref.part, c, ref.val)
        starts == Ascending({part[x] : x \in cell})
        values == Ascending({ref.val[x] : x \in cell})
        size == [s \in ToSet(starts) |-> CellSize(part, s)]
        codes ==
            IF ref.by = "vertex" THEN CodesByVertex(c, starts, Cardinality({x \in cell : ref.val[x] = 1}))
            ELSE IF ref.by = "cell" THEN CodesByCell(c, starts, values)
            ELSE CodesByDistance(c, starts, values, BigPos(ref.queue, starts, size))
    IN  /\ ref.step = "loop"
        /\ ref.cells # <<>>
        /\ ref' = [ref EXCEPT !.part = part,
                              !.cells = Tail(@),
                              !.code = MashAll(@, codes),
                              !.queue = IF Len(starts) = 1 THEN @ ELSE Activate(@, starts, size)]

\* The non-singleton cells, and those that hold successors of the vertices of a set.
LargeCells(part) == {c \in CellStarts(part) : CellSize(part, c) > 1}
HitCells(G, part, S) == {c \in LargeCells(part) : \E x \in S : \E y \in G.adj[x] : part[y] = c}

\* How many vertices of a set hit each vertex.
Hits(G, S) == [x \in Vertices(G) |-> Cardinality({y \in S : x \in G.adj[y]})]

(***************************************************************************)
(* The next active cell: the first singleton among the first ten, whose    *)
(* place the last of the queue takes, or else the last.                    *)
(***************************************************************************)
Singletons(st) ==
    {i \in DOMAIN st.queue : i <= 10 /\ CellSize(st.part, st.queue[i]) = 1}
Pick_Last(st) == Len(st.queue)
Pick(st) == IF Singletons(st) # {} THEN Min(Singletons(st)) ELSE Len(st.queue)

\* The beginning of refine_sg.  With few cells near the root a single active singleton
\* splits the cells by distance.
RefineBegin(G) ==
    LET byDistance ==
            /\ ref.level <= 2
            /\ Len(ref.queue) = 1
            /\ CellSize(ref.part, ref.queue[1]) = 1
            /\ NumCells(ref.part) <= Cardinality(DOMAIN ref.part) \div 8
        v == CHOOSE x \in DOMAIN ref.part : ref.part[x] = ref.queue[1]
    IN  /\ ref.step = "start"
        /\ ref' = IF byDistance
                  THEN [ref EXCEPT !.step = "loop", !.queue = <<>>, !.by = "distance",
                                   !.val = Distances(G, v), !.cells = Ascending(LargeCells(ref.part))]
                  ELSE [ref EXCEPT !.step = "loop"]

Finished == ref.cells = <<>> /\ (ref.queue = <<>> \/ Discrete(ref.part))

\* The beginning of a turn of its loop.  An active cell is to split the cells it hits, a
\* singleton into the vertices it hits and the others, and a larger one by how many of
\* its vertices hit a vertex.
RefineStep(G) ==
    LET i == Pick(ref)
        split == ref.queue[i]
        S == CellAt(ref.part, split)
        hit == HitCells(G, ref.part, S)
    IN  /\ ref.step = "loop"
        /\ ref.cells = <<>>
        /\ ~Finished
        /\ ref' = [ref EXCEPT !.queue = Front([@ EXCEPT ![i] = Last(ref.queue)]),
                              !.code = MashAll(@, <<split, Cardinality(hit)>>),
                              !.by = IF CellSize(ref.part, split) = 1 THEN "vertex" ELSE "cell",
                              !.val = Hits(G, S),
                              !.cells = Ascending(hit)]

\* Its end, and what doref does with the code of the second refinement.
RefineEnd ==
    LET code == CLEANUP(MASH(ref.code, NumCells(ref.part)))
    IN  /\ ref.step = "loop"
        /\ Finished
        /\ ref' = IF ref.outer = -1
                  THEN [ref EXCEPT !.code = code, !.step = IF Discrete(ref.part) THEN "done" ELSE "invariant"]
                  ELSE [ref EXCEPT !.code = CLEANUP(MASH(ref.outer, code)), !.step = "done"]

-----------------------------------------------------------------------------
(* adjacencies_sg and the rest of doref.                                   *)

\* A code of the cells that a vertex is joined to and from.
Adjacencies(G, part) ==
    LET index == [x \in DOMAIN part |-> Cardinality({c \in CellStarts(part) : c <= part[x]})]
        from(x) == {y \in DOMAIN part : x \in G.adj[y]}
    IN  [x \in DOMAIN part |->
            Masked(MapThenSumSet(LAMBDA y : FUZZ1[index[y]], from(x))
                   + MapThenSumSet(LAMBDA y : FUZZ2[index[y]], G.adj[x]))]

ApplyInvariant_Again(G) ==
    LET finer == SplitAll(ref.part, Adjacencies(G, ref.part))
    IN  /\ ref.step = "invariant"
        /\ ref' = StartDoref(finer, CellStarts(finer) \ CellStarts(ref.part), ref.level)

\* Cells that the invariant splits are refined again, with the new cells active.
ApplyInvariant(G) ==
    LET finer == SplitAll(ref.part, Adjacencies(G, ref.part))
        new == CellStarts(finer) \ CellStarts(ref.part)
    IN  /\ ref.step = "invariant"
        /\ ref' = IF new = {} THEN [ref EXCEPT !.step = "done"]
                  ELSE [StartDoref(finer, new, ref.level) EXCEPT !.outer = ref.code]

Doref(G) == RefineBegin(G) \/ RefineStep(G) \/ SplitNext \/ RefineEnd \/ ApplyInvariant(G)
=============================================================================
