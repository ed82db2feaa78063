----------------------------- MODULE Partition -----------------------------
(***************************************************************************)
(* The construction of an Index up to its blocks: Index.partition computes *)
(* layer by layer which vertex pairs are connected by a path of that many  *)
(* edges and numbers their equivalence classes (k-path-bisimulation), and  *)
(* Index.computeBlocks turns the classes into blocks, those of the last    *)
(* layer completed by the pairs that only lower layers hold.               *)
(*                                                                         *)
(* A LabelledPath is named by <<layer, pair>>: each layer has one per pair.*)
(* A PathPair is the pair of segment ids that its equals and compareTo     *)
(* look at, and a Block is referred to by its place <<layer, index>>.      *)
(* An edge is <<source, label, target>>; a label is its id, and an inverse *)
(* label is coded as LabelSequence.write does.                             *)
(***************************************************************************)
EXTENDS Integers, Sequences, FiniteSets, FiniteSetsExt

CONSTANTS
    K,              \* The diameter k of the index.
    Vertex,         \* The vertices of the graphs.
    Graphs,         \* The graphs to build an index of, as sets of edges.
    ComputeLabels,  \* Whether the blocks keep their label sequences.
    None            \* A null reference.

ASSUME DiameterAssumption == K \in Nat \ {0}
ASSUME GraphAssumption ==
    /\ Vertex \subseteq Nat /\ IsFiniteSet(Vertex)
    /\ \A g \in Graphs :
           IsFiniteSet(g) /\ \A e \in g : e[1] \in Vertex /\ e[2] \in Nat /\ e[3] \in Vertex
    /\ ComputeLabels \in BOOLEAN
ASSUME NoneAssumption == None \notin Nat \X (Vertex \X Vertex) /\ None \notin Nat \X Nat

VARIABLES
    graph,      \* The graph of the index.
    pc,         \* "edges", "number", "join", "blocks", "remaining", "built" or "failed".
    layer,      \* The layer being partitioned, or turned into blocks.
    split,      \* The length of the first part of the next join.
    path,       \* The labelled paths: ancestor, segments, labels and id.
    segments,   \* The sorted paths of each finished layer.
    history,    \* The last path made for each pair.
    lastId,     \* The last segment id given out.
    blocks,     \* The blocks of each layer.
    blockOf,    \* The block each labelled path was put in.
    unused      \* The pairs no block of the last layer holds, with their path.

partitionVars == <<graph, path, segments, history, lastId>>
blockVars == <<blocks, blockOf, unused>>
vars == <<pc, layer, split, partitionVars, blockVars>>

\* A map after entries were put into it.
Put(entries, map) ==
    [x \in DOMAIN entries \cup DOMAIN map |-> IF x \in DOMAIN entries THEN entries[x] ELSE map[x]]

Backward(label) == -label - 1
IsLoop(r) == r[2][1] = r[2][2]
PathsOf(l) == {r \in DOMAIN path : r[1] = l}

Init ==
    /\ graph \in Graphs
    /\ pc = "edges"
    /\ layer = 1
    /\ split = 0
    /\ path = <<>>
    /\ segments = [l \in 1..K |-> <<>>]
    /\ history = <<>>
    /\ lastId = 0
    /\ blocks = [l \in 1..K |-> <<>>]
    /\ blockOf = <<>>
    /\ unused = <<>>

-----------------------------------------------------------------------------
(* The order of the paths of a layer and their numbering.                  *)

\* Sequences of numbers: shorter ones first, then by the first difference.
SeqLess(s, t) ==
    \/ Len(s) < Len(t)
    \/ /\ Len(s) = Len(t)
       /\ \E i \in 1..Len(s) : s[i] < t[i] /\ \A j \in 1..(i - 1) : s[j] = t[j]

\* Sorted sets of them: smaller sets first, then by the first difference,
\* which is the least element the two do not share.
SetLess(A, B) ==
    \/ Cardinality(A) < Cardinality(B)
    \/ /\ Cardinality(A) = Cardinality(B)
       /\ \E x \in A \ B : \A y \in SymDiff(A, B) : ~SeqLess(y, x)

PairKey(r) == <<IF IsLoop(r) THEN 1 ELSE 0, r[2][1], r[2][2]>>

\* The cached hash code of the segments, whether there is an ancestor, and
\* its id: what compareSegmentsTo looks at before the segments themselves.
SegmentHash(segs) == LET h(s) == 31 * s[1] + s[2] IN MapThenSumSet(h, segs)

\* Forgetting to compare the ancestors.
SegmentKey_NoAncestor(r) == <<SegmentHash(path[r].segs)>>
SegmentKey(r) ==
    <<SegmentHash(path[r].segs)>> \o
        IF path[r].anc = None THEN <<1, 0>> ELSE <<0, path[path[r].anc].id>>

SameSegments(a, b) == SegmentKey(a) = SegmentKey(b) /\ path[a].segs = path[b].segs
SegmentsLess(a, b) ==
    \/ SeqLess(SegmentKey(a), SegmentKey(b))
    \/ (SegmentKey(a) = SegmentKey(b) /\ SetLess(path[a].segs, path[b].segs))

SameLabels(a, b) == path[a].labels = path[b].labels
LabelsLess(a, b) == SetLess(path[a].labels, path[b].labels)

\* sortOnePath and sortPaths: the labels or segments, loops last, the pair.
SortPaths(l, a, b) ==
    LET same == IF l = 1 THEN SameLabels(a, b) ELSE SameSegments(a, b)
        less == IF l = 1 THEN LabelsLess(a, b) ELSE SegmentsLess(a, b)
    IN  less \/ (same /\ SeqLess(PairKey(a), PairKey(b)))

Sorted(S, Less(_, _)) ==
    [i \in 1..Cardinality(S) |->
        CHOOSE x \in S : Cardinality({y \in S : Less(y, x)}) = i - 1]

\* Numbering without regard to loops.
StartsId_NoLoops(l, a, b) == ~(IF l = 1 THEN SameLabels(a, b) ELSE SameSegments(a, b))

\* A new id starts where a path differs from the one sorted before it.
StartsId(l, a, b) ==
    \/ ~(IF l = 1 THEN SameLabels(a, b) ELSE SameSegments(a, b))
    \/ IsLoop(a) # IsLoop(b)

\* Sorting layer l and giving its paths the ids from first on.
NumberLayer(l, first) ==
    LET less(a, b) == SortPaths(l, a, b)
        s == Sorted(PathsOf(l), less)
        id(i) == first + Cardinality({j \in 2..i : StartsId(l, s[j], s[j - 1])})
        place(r) == CHOOSE i \in DOMAIN s : s[i] = r
    IN  /\ segments' = [segments EXCEPT ![l] = s]
        /\ path' = [r \in DOMAIN path |->
                       IF r[1] = l THEN [path[r] EXCEPT !.id = id(place(r))] ELSE path[r]]
        /\ lastId' = IF s = <<>> THEN first ELSE id(Len(s))

-----------------------------------------------------------------------------
(* Index.partition.                                                        *)

NewPath(ancestor) == [anc |-> ancestor, segs |-> {}, labels |-> {}, id |-> -1]

\* Every edge labels its pair, and the inverse label the pair backwards.
EdgeSteps_Forward == graph
EdgeSteps == graph \cup {<<e[3], Backward(e[2]), e[1]>> : e \in graph}

CollectEdges ==
    LET steps == EdgeSteps
        pairs == {<<s[1], s[3]>> : s \in steps}
        labels(p) == {<<s[2]>> : s \in {s \in steps : <<s[1], s[3]>> = p}}
    IN  /\ pc = "edges"
        /\ path' = [r \in {1} \X pairs |-> [NewPath(None) EXCEPT !.labels = labels(r[2])]]
        /\ history' = [p \in pairs |-> <<1, p>>]
        /\ pc' = "number"
        /\ UNCHANGED <<graph, layer, split, segments, lastId, blockVars>>

\* After the last layer the paths are turned into blocks, layer by layer.
NextLayer ==
    IF layer < K
    THEN pc' = "join" /\ layer' = layer + 1 /\ split' = layer
    ELSE pc' = "blocks" /\ layer' = 1 /\ split' = 0

Number ==
    /\ pc = "number"
    /\ NumberLayer(layer, lastId + 1)
    /\ NextLayer
    /\ UNCHANGED <<graph, history, blockVars>>

\* The paths of length split joined with those that lead on from their target.
\* A pair met for the first time in this layer gets a path whose ancestor is
\* the last path made for the pair.
Join ==
    LET rest == layer - split
        joins == {j \in PathsOf(split) \X PathsOf(rest) : j[1][2][2] = j[2][2][1]}
        key(j) == <<j[1][2][1], j[2][2][2]>>
        of(r) == {j \in joins : key(j) = r[2]}
        labels(j) == IF rest = 1 /\ ComputeLabels
                     THEN {x[1] \o x[2] : x \in path[j[1]].labels \X path[j[2]].labels}
                     ELSE {}
        old(r) == IF r \in DOMAIN path THEN path[r]
                  ELSE NewPath(IF r[2] \in DOMAIN history THEN history[r[2]] ELSE None)
        made == {<<layer, key(j)>> : j \in joins}
        joined(r) == [anc |-> old(r).anc,
                      segs |-> old(r).segs \cup {<<path[j[1]].id, path[j[2]].id>> : j \in of(r)},
                      labels |-> old(r).labels \cup UNION {labels(j) : j \in of(r)},
                      id |-> old(r).id]
    IN  /\ pc = "join"
        /\ path' = Put([r \in made |-> joined(r)], path)
        /\ history' = Put([p \in {r[2] : r \in made} |-> <<layer, p>>], history)
        /\ split' = split - 1
        /\ pc' = IF split = 1 THEN "number" ELSE "join"
        /\ UNCHANGED <<graph, layer, segments, lastId, blockVars>>

-----------------------------------------------------------------------------
(* Index.computeBlocks.                                                    *)

\* With labels kept, the labels of the ancestor are taken over.
InheritedLabels(ancestor) ==
    IF ComputeLabels /\ ancestor # None THEN blocks[ancestor[1]][ancestor[2]].labels ELSE {}

\* The Block of layer k made of a slice of paths with one id, one of which
\* stands for all of them.
MakeBlock(k, slice, range, blockAt) ==
    LET combined(s) == <<blockAt[CHOOSE r \in DOMAIN blockAt : path[r].id = s[1]],
                         blockAt[CHOOSE r \in DOMAIN blockAt : path[r].id = s[2]]>>
        ancestor == IF path[range].anc = None THEN None ELSE blockAt[path[range].anc]
        own == IF ComputeLabels \/ path[range].segs = {} THEN path[range].labels ELSE {}
    IN  [k |-> k,
         id |-> path[range].id,
         paths |-> {r[2] : r \in slice},
         combinations |-> {combined(s) : s \in path[range].segs},
         ancestor |-> ancestor,
         labels |-> own \cup InheritedLabels(ancestor)]

\* The maximal runs of equal ids in a sequence of paths.
Slices(s) ==
    LET less(i, j) == i < j
        starts == Sorted({i \in DOMAIN s : i = 1 \/ path[s[i]].id # path[s[i - 1]].id}, less)
        end(n) == IF n = Len(starts) THEN Len(s) ELSE starts[n + 1] - 1
    IN  [n \in DOMAIN starts |-> SubSeq(s, starts[n], end(n))]

Members(slice) == {slice[i] : i \in DOMAIN slice}

\* The pairs of a lower layer wait for a block of the last layer.
UnusedAfter(pairs) ==
    IF layer < K THEN Put([p \in pairs |-> <<layer, p>>], unused)
    ELSE [p \in DOMAIN unused \ pairs |-> unused[p]]

BlocksOfLayer ==
    LET slices == Slices(segments[layer])
        made == Members(segments[layer])
        place == [r \in made |->
                     <<layer, CHOOSE n \in DOMAIN slices : r \in Members(slices[n])>>]
        pairs == {r[2] : r \in made}
    IN  /\ pc = "blocks"
        /\ segments[layer] # <<>>
        /\ blocks' = [blocks EXCEPT ![layer] =
                         [n \in DOMAIN slices |->
                             MakeBlock(layer, Members(slices[n]), slices[n][1], blockOf)]]
        /\ blockOf' = Put(place, blockOf)
        /\ unused' = UnusedAfter(pairs)
        /\ IF layer < K THEN layer' = layer + 1 /\ pc' = pc
           ELSE layer' = layer /\ pc' = "remaining"
        /\ UNCHANGED <<split, partitionVars>>

\* The first id of a layer is asked for before its paths are looked at.
EmptyLayer ==
    /\ pc = "blocks"
    /\ segments[layer] = <<>>
    /\ pc' = "failed"
    /\ UNCHANGED <<layer, split, partitionVars, blockVars>>

\* The pairs left over, taken from a hash table: only their ids are sorted, so
\* that any path of a slice may come first.
Remaining ==
    LET left == {unused[p] : p \in DOMAIN unused}
        less(i, j) == i < j
        ids == Sorted({path[r].id : r \in left}, less)
        slice(n) == {r \in left : path[r].id = ids[n]}
        old == Len(blocks[K])
    IN  /\ pc = "remaining"
        /\ \E first \in SUBSET left :
               /\ \A n \in DOMAIN ids : Cardinality(first \cap slice(n)) = 1
               /\ Cardinality(first) = Len(ids)
               /\ blocks' = [blocks EXCEPT ![K] = @ \o
                     [n \in DOMAIN ids |->
                         MakeBlock(K, slice(n), CHOOSE r \in first : r \in slice(n), blockOf)]]
        /\ blockOf' = Put([r \in left |-> <<K, old + (CHOOSE n \in DOMAIN ids : r \in slice(n))>>],
                          blockOf)
        /\ pc' = "built"
        /\ UNCHANGED <<layer, split, partitionVars, unused>>

-----------------------------------------------------------------------------
Done == pc \in {"built", "failed"} /\ UNCHANGED vars

Next ==
    \/ CollectEdges
    \/ Number
    \/ Join
    \/ BlocksOfLayer
    \/ EmptyLayer
    \/ Remaining
    \/ Done

Spec == Init /\ [][Next]_vars

-----------------------------------------------------------------------------
(* Properties.                                                             *)

Ref == INSTANCE PathSemantics

Refs == (1..K) \X (Vertex \X Vertex)
BlockRefs == {<<l, n>> : l \in 1..K, n \in 1..(2 * Cardinality(Vertex \X Vertex))}

TypeOK ==
    /\ graph \in Graphs
    /\ pc \in {"edges", "number", "join", "blocks", "remaining", "built", "failed"}
    /\ layer \in 1..K /\ split \in 0..(K - 1) /\ lastId \in Nat
    /\ DOMAIN path \subseteq Refs
    /\ \A r \in DOMAIN path :
           /\ path[r].anc \in DOMAIN path \cup {None}
           /\ path[r].id \in 1..lastId \cup {-1}
           /\ path[r].segs \subseteq (1..lastId) \X (1..lastId)
    /\ \A l \in 1..K : Members(segments[l]) \subseteq PathsOf(l)
    /\ \A p \in DOMAIN history : history[p] \in DOMAIN path
    /\ DOMAIN blockOf \subseteq DOMAIN path
    /\ \A r \in DOMAIN blockOf : blockOf[r] \in BlockRefs
    /\ \A p \in DOMAIN unused : unused[p] \in DOMAIN path

\* The segment ids are k-path-bisimulation classes: after partitioning, the
\* paths of layer i are the pairs connected by exactly i edges, and two paths
\* of any layers have one id exactly if they are in one layer and bisimilar.
\* Sorting, hashing, comparing neighbours and numbering must all agree.
IdsAreClasses ==
    pc = "blocks" /\ layer = 1 =>
        LET W == Ref!Walks(graph, K)
            B == Ref!Bisimilar(graph, K)
        IN  /\ graph # {} => \A l \in 1..K : {r[2] : r \in PathsOf(l)} = W[l]
            /\ \A a, b \in DOMAIN path :
                   path[a].id = path[b].id <=> (a[1] = b[1] /\ <<a[2], b[2]>> \in B[a[1]])

\* The blocks of the last layer, those left over included, hold every pair
\* that a path of at most K edges connects, and each of them once.
BlocksPartition ==
    pc = "built" =>
        LET W == Ref!Walks(graph, K)
            last == blocks[K]
        IN  /\ UNION {last[n].paths : n \in DOMAIN last} = UNION {W[l] : l \in 1..K}
            /\ \A m, n \in DOMAIN last : m # n => last[m].paths \cap last[n].paths = {}

\* What a block was made of lies in lower layers, and no layer is empty: computeCores
\* depends on both.
ReadsBelow ==
    \A l \in 1..K :
        /\ blocks[l] # <<>>
        /\ \A n \in DOMAIN blocks[l] :
               LET b == blocks[l][n]
                   read == (UNION {{c[1], c[2]} : c \in b.combinations}) \cup ({b.ancestor} \ {None})
               IN  \A r \in read : r[1] < l /\ r[2] \in DOMAIN blocks[r[1]]

\* Only pairs of the last layer but one can be left over: every edge can be followed back
\* and forth, so a pair of layer l is in layer l + 2 as well.  Saving an index relies on it,
\* which stores such a block under the id of the block of layer K - 1 it was taken from.
RemainingArePenultimate == \A p \in DOMAIN unused : unused[p][1] = K - 1

\* Blocks are built from lower, non-empty layers and from what is left over of the last
\* layer but one.  Only a graph without edges cannot be indexed.
BlocksBuiltFromBelow ==
    /\ pc = "built" => ReadsBelow
    /\ pc = "remaining" => RemainingArePenultimate
    /\ pc = "failed" => graph = {}

\* What is built, at every moment: no pair lost or in two blocks, although some are put
\* into blocks of another layer than the one they were found in.
WellFormed == TypeOK /\ BlocksPartition /\ BlocksBuiltFromBelow

\* With labels kept, the labels of a block are all the label sequences of at
\* most K edges between the vertices of each of its pairs, although they come
\* from the one pair that stands for the block, and from its ancestors'.
LabelsComplete ==
    pc = "built" /\ ComputeLabels =>
        LET W == Ref!LabelWalks(graph, K)
        IN  \A n \in DOMAIN blocks[K] : \A p \in blocks[K][n].paths :
                blocks[K][n].labels =
                    UNION {{w[2] : w \in {w \in W[l] : w[1] = p}} : l \in 1..K}

\* No CPQ of diameter at most K tells two pairs of one block apart: it answers
\* with all of a block or nothing of it, which is what makes a list of blocks
\* the answer to a query.  Nor do their labels.
BlocksUniform ==
    /\ LabelsComplete
    /\ pc = "built" =>
           LET D == Ref!Definable(graph, Vertex, K)[K]
           IN  \A n \in DOMAIN blocks[K] : \A r \in D :
                   blocks[K][n].paths \subseteq r \/ blocks[K][n].paths \cap r = {}
=============================================================================
