----------------------------- MODULE IndexFile -----------------------------
(***************************************************************************)
(* The life of an Index after its blocks were built: its cores are         *)
(* computed, it is sorted, saved to a file in full or only for queries,    *)
(* and read back, in any order the guards of these methods permit.         *)
(*                                                                         *)
(* Of the cores of a block only those that are plain label sequences are   *)
(* modelled: they are computed from plain label sequences alone, whatever  *)
(* the limit on intersections, and each is its own canonical form.  A      *)
(* block in memory is named by its place <<layer, index>> when it was made *)
(* or read.  A reference in a file is a block id.                          *)
(***************************************************************************)
EXTENDS Partition

CONSTANTS
    MaxReads,       \* How often an index is read back.
    SortsEarly      \* Whether sort is also called before the cores are computed.

ASSUME BoundAssumption == MaxReads \in Nat /\ SortsEarly \in BOOLEAN

VARIABLES
    phase,      \* "building", "ready", "computing", or "stuck" computing for ever.
    index,      \* The index in memory.
    coreLayer,  \* The layer computeCores works on.
    computed,   \* The blocks of it that were computed.
    file,       \* What was last saved.
    reads       \* How often an index was read back.

computation == <<coreLayer, computed>>
indexVars == <<vars, phase, index, computation, file, reads>>

Objects(layers) == UNION {{<<l, n>> : n \in DOMAIN layers[l]} : l \in DOMAIN layers}
LastBlocks(i) == {i.layers[K][n] : n \in DOMAIN i.layers[K]}

\* The names of the blocks of each layer in the order they were made.
Named(layers) == [l \in DOMAIN layers |-> [n \in DOMAIN layers[l] |-> <<l, n>>]]

\* The labels, combinations, cores and canonical cores of a block are lists that may be null:
\* such a field is a set with the list in it, or an empty set.
Null == {}
OrEmpty(list) == UNION list

\* Before the constructor ends there is no index, before the first save no file; nor
\* is there one to read after a save that failed.
NoIndex ==
    [predicates |-> FALSE, computeCores |-> FALSE, layers |-> <<>>, heap |-> <<>>, coreToBlock |-> <<>>]
NoFile == [full |-> FALSE, computeCores |-> FALSE, size |-> 0, layers |-> <<>>, coreToBlock |-> <<>>]

IndexInit ==
    /\ Init
    /\ phase = "building"
    /\ index = NoIndex
    /\ coreLayer = 0
    /\ computed = {}
    /\ file = NoFile
    /\ reads = 0

BuildStep ==
    /\ phase = "building"
    /\ pc # "built"
    /\ Next
    /\ UNCHANGED <<phase, index, computation, file, reads>>

\* The end of the constructor, before it calls computeCores if asked to.
Construct ==
    /\ phase = "building"
    /\ pc = "built"
    /\ phase' = "ready"
    /\ index' = [predicates |-> TRUE,
                 computeCores |-> FALSE,
                 layers |-> Named(blocks),
                 heap |-> [o \in Objects(blocks) |->
                     [id |-> blocks[o[1]][o[2]].id,
                      k |-> blocks[o[1]][o[2]].k,
                      paths |-> blocks[o[1]][o[2]].paths,
                      labels |-> IF ComputeLabels \/ blocks[o[1]][o[2]].combinations = {}
                                 THEN {blocks[o[1]][o[2]].labels} ELSE Null,
                      ancestor |-> blocks[o[1]][o[2]].ancestor,
                      combinations |-> {blocks[o[1]][o[2]].combinations},
                      cores |-> {{}},
                      canonCores |-> {{}}]],
                 coreToBlock |-> <<>>]
    /\ UNCHANGED <<vars, computation, file, reads>>

-----------------------------------------------------------------------------
(* computeCores, layer by layer, the blocks of one layer in any order.     *)

ComputeCores ==
    /\ phase = "ready"
    /\ ~index.computeCores
    /\ index.predicates
    /\ phase' = "computing"
    /\ coreLayer' = 1
    /\ computed' = {}
    /\ UNCHANGED <<vars, index, file, reads>>

\* Reading the cores of a null block, or cores that are null.
NoCores(b) == b = None \/ (b # None /\ index.heap[b].cores = Null)
CoresOf(b) == OrEmpty(index.heap[b].cores)

\* The second block's cores are only read for a core of the first.
ConcatThrows(c) == NoCores(c[1]) \/ (CoresOf(c[1]) # {} /\ NoCores(c[2]))
Throws(b) ==
    \/ b.ancestor # None /\ NoCores(b.ancestor)
    \/ \E c \in OrEmpty(b.combinations) : ConcatThrows(c)

Concat(c) == {x \o y : x \in CoresOf(c[1]), y \in CoresOf(c[2])}

Inherited(b) == IF b.ancestor = None THEN {} ELSE CoresOf(b.ancestor)

OwnCores(b) ==
    IF OrEmpty(b.combinations) = {} THEN OrEmpty(b.labels)
    ELSE UNION {Concat(c) : c \in OrEmpty(b.combinations)}

\* Forgetting that labels were asked for.
NoSave_Always(b) == ~ComputeLabels
NoSave(b) == b.k = K /\ ~ComputeLabels

Computed(b) ==
    LET cores == Inherited(b) \cup OwnCores(b)
    IN  IF NoSave(b)
        THEN [b EXCEPT !.canonCores = {cores}, !.cores = Null, !.labels = Null,
                       !.ancestor = None, !.combinations = Null]
        ELSE [b EXCEPT !.canonCores = {cores}, !.cores = {cores}]

ToCompute ==
    {b \in {index.layers[coreLayer][n] : n \in DOMAIN index.layers[coreLayer]} : b \notin computed}

ComputeBlock(b) ==
    /\ phase = "computing"
    /\ b \in ToCompute
    /\ ~Throws(index.heap[b])
    /\ index' = [index EXCEPT !.heap[b] = Computed(@)]
    /\ computed' = computed \cup {b}
    /\ UNCHANGED <<vars, phase, coreLayer, file, reads>>

\* A block that is never counted: the caller never sees its layer finished.
ComputeBlockThrows(b) ==
    /\ phase = "computing"
    /\ b \in ToCompute
    /\ Throws(index.heap[b])
    /\ phase' = "stuck"
    /\ UNCHANGED <<vars, index, computation, file, reads>>

CoreLayerDone ==
    /\ phase = "computing"
    /\ ToCompute = {}
    /\ coreLayer < K
    /\ coreLayer' = coreLayer + 1
    /\ computed' = {}
    /\ UNCHANGED <<vars, phase, index, file, reads>>

CoreToBlock(i) ==
    [core \in UNION {OrEmpty(i.heap[b].canonCores) : b \in LastBlocks(i)} |->
        {b \in LastBlocks(i) : core \in OrEmpty(i.heap[b].canonCores)}]

MapCoresToBlocks ==
    /\ phase = "computing"
    /\ ToCompute = {}
    /\ coreLayer = K
    /\ phase' = "ready"
    /\ index' = [index EXCEPT
           !.computeCores = TRUE,
           !.coreToBlock = CoreToBlock(index),
           !.heap = [b \in DOMAIN @ |->
               IF b \in LastBlocks(index) /\ ~ComputeLabels
               THEN [@[b] EXCEPT !.canonCores = Null] ELSE @[b]]]
    /\ coreLayer' = 0
    /\ computed' = {}
    /\ UNCHANGED <<vars, file, reads>>

-----------------------------------------------------------------------------
(* Sorting, saving and reading back.                                       *)

\* Only the order of the blocks matters here; their paths are disjoint sets.
Sort ==
    LET first(b) == CHOOSE p \in index.heap[b].paths :
                        \A q \in index.heap[b].paths : ~SeqLess(q, p)
        less(a, b) == SeqLess(first(a), first(b))
    IN  /\ phase = "ready"
        /\ index.computeCores \/ SortsEarly
        /\ index' = [index EXCEPT !.layers[K] = Sorted(LastBlocks(index), less)]
        /\ UNCHANGED <<vars, phase, computation, file, reads>>

\* The id of a reference, -1 for null.
IdOf(b) == IF b = None THEN -1 ELSE index.heap[b].id

\* The ancestor is not saved.
WriteBlock_NoAncestor(b, full) ==
    IF full
    THEN [id |-> b.id, paths |-> b.paths, k |-> b.k, labels |-> OrEmpty(b.labels), ancestor |-> -1,
          combinations |-> {<<IdOf(c[1]), IdOf(c[2])>> : c \in OrEmpty(b.combinations)},
          canonCores |-> OrEmpty(b.canonCores)]
    ELSE [id |-> b.id, paths |-> b.paths]

WriteBlock(b, full) ==
    IF full
    THEN [id |-> b.id,
          paths |-> b.paths,
          k |-> b.k,
          labels |-> OrEmpty(b.labels),
          ancestor |-> IdOf(b.ancestor),
          combinations |-> {<<IdOf(c[1]), IdOf(c[2])>> : c \in OrEmpty(b.combinations)},
          canonCores |-> OrEmpty(b.canonCores)]
    ELSE [id |-> b.id, paths |-> b.paths]

Written(l, full) ==
    IF full \/ l = K
    THEN [n \in DOMAIN index.layers[l] |-> WriteBlock(index.heap[index.layers[l][n]], full)]
    ELSE <<>>

MapSize == Max({index.heap[b].id : b \in LastBlocks(index)}) + 1

Write(full) ==
    /\ phase = "ready"
    /\ full => index.predicates
    /\ file' = [full |-> full,
                computeCores |-> index.computeCores,
                size |-> MapSize,
                layers |-> [l \in 1..K |-> Written(l, full)],
                coreToBlock |-> [core \in DOMAIN index.coreToBlock |->
                                    {index.heap[b].id : b \in index.coreToBlock[core]}]]
    /\ UNCHANGED <<vars, phase, index, computation, reads>>

\* Saving in full what was not read in full fails after the header is written.
WriteFails ==
    /\ phase = "ready"
    /\ ~index.predicates
    /\ file' = NoFile
    /\ UNCHANGED <<vars, phase, index, computation, reads>>

\* A block of the file comes before another one.
Before(a, b) == a[1] < b[1] \/ (a[1] = b[1] /\ a[2] < b[2])

\* The block map keeps the first block of an id.
Resolve_First(id, read) ==
    LET found == {b \in read : file.layers[b[1]][b[2]].id = id}
    IN  IF found = {} THEN None ELSE CHOOSE b \in found : \A a \in found : ~Before(a, b)

\* The block an id stands for when the blocks in read have been read: each
\* takes the place of any earlier one of its id in the block map.
Resolve(id, read) ==
    LET found == {b \in read : file.layers[b[1]][b[2]].id = id}
    IN  IF found = {} THEN None ELSE CHOOSE b \in found : \A a \in found : ~Before(b, a)

ReadBlock(b) ==
    LET r == file.layers[b[1]][b[2]]
        read == {a \in Objects(file.layers) : Before(a, b)}
    IN  IF file.full
        THEN [id |-> r.id,
              paths |-> r.paths,
              k |-> r.k,
              labels |-> {r.labels},
              ancestor |-> IF r.ancestor = -1 THEN None ELSE Resolve(r.ancestor, read),
              combinations |-> {{<<Resolve(c[1], read), Resolve(c[2], read)>> : c \in r.combinations}},
              canonCores |-> {r.canonCores},
              cores |-> {{}}]
        ELSE [id |-> r.id, paths |-> r.paths, k |-> -1, labels |-> Null, ancestor |-> None,
              combinations |-> Null, canonCores |-> Null, cores |-> Null]

Read ==
    /\ phase = "ready"
    /\ file.layers # <<>>
    /\ reads < MaxReads
    /\ reads' = reads + 1
    /\ index' = [predicates |-> file.full,
                 computeCores |-> file.computeCores,
                 layers |-> Named(file.layers),
                 heap |-> [b \in Objects(file.layers) |-> ReadBlock(b)],
                 coreToBlock |-> [core \in DOMAIN file.coreToBlock |->
                     {Resolve(id, Objects(file.layers)) : id \in file.coreToBlock[core]}]]
    /\ UNCHANGED <<vars, phase, computation, file>>

-----------------------------------------------------------------------------
\* A graph without edges has no index; a computation may be stuck.
IndexDone == (pc = "failed" \/ phase = "stuck") /\ UNCHANGED indexVars

IndexNext ==
    \/ BuildStep
    \/ Construct
    \/ ComputeCores
    \/ \E b \in Objects(blocks) : ComputeBlock(b) \/ ComputeBlockThrows(b)
    \/ CoreLayerDone
    \/ MapCoresToBlocks
    \/ Sort
    \/ \E full \in BOOLEAN : Write(full)
    \/ WriteFails
    \/ Read
    \/ IndexDone

IndexSpec == IndexInit /\ [][IndexNext]_indexVars

-----------------------------------------------------------------------------
(* Properties.                                                             *)

IndexTypeOK ==
    /\ phase \in {"building", "ready", "computing", "stuck"}
    /\ coreLayer \in 0..K
    /\ coreLayer = 0 <=> phase \notin {"computing", "stuck"}
    /\ reads \in 0..MaxReads
    /\ phase = "building" <=> index.layers = <<>>
    /\ phase # "building" =>
           /\ computed \subseteq DOMAIN index.heap
           /\ \A l \in 1..K : \A n \in DOMAIN index.layers[l] : index.layers[l][n] \in DOMAIN index.heap

\* Every id in a file is one the reader's block map has room for, and every
\* block a saved block refers to comes before it.
FileReadable ==
    \A b \in Objects(file.layers) :
        LET r == file.layers[b[1]][b[2]]
            read == {a \in Objects(file.layers) : Before(a, b)}
            refs == IF file.full THEN (UNION {{c[1], c[2]} : c \in r.combinations}) \cup
                                      ({r.ancestor} \ {-1})
                    ELSE {}
        IN  /\ r.id \in 0..(file.size - 1)
            /\ \A id \in refs : Resolve(id, read) # None

\* What core computation starts from: a block with the blocks it refers to,
\* each known by its layer and id.
Shape(b, place) ==
    LET key(a) == IF a = None THEN None ELSE <<a[1], index.heap[a].id>>
    IN  [layer |-> place[1], id |-> b.id, k |-> b.k, paths |-> b.paths,
         ancestor |-> key(b.ancestor),
         combinations |-> {<<key(c[1]), key(c[2])>> : c \in OrEmpty(b.combinations)}]
BuiltShape(b, place) ==
    LET key(a) == IF a = None THEN None ELSE <<a[1], blocks[a[1]][a[2]].id>>
    IN  [layer |-> place[1], id |-> b.id, k |-> b.k, paths |-> b.paths,
         ancestor |-> key(b.ancestor),
         combinations |-> {<<key(c[1]), key(c[2])>> : c \in b.combinations}]

\* An index read back from a full file is the one that was built, up to the
\* order of its blocks: every reference, although saved as an id that a block
\* of layer K - 1 may share with one of layer K, leads to the same block.
ReadBackSame ==
    phase = "ready" /\ index.predicates /\ ~index.computeCores =>
        {Shape(index.heap[b], b) : b \in DOMAIN index.heap} =
            {BuiltShape(blocks[b[1]][b[2]], b) : b \in Objects(blocks)}

\* A file is always as good as the index it was made of.
FileFaithful == IndexTypeOK /\ FileReadable /\ ReadBackSame

\* An index with cores answers a query for a label sequence with exactly the
\* pairs that the sequence connects, each once, whether it was just computed,
\* sorted, saved in full or not, read back, or computed after reading.
QueriesExact ==
    index.computeCores =>
        LET W == Ref!LabelWalks(graph, K)
        IN  \A q \in DOMAIN index.coreToBlock \cup UNION {{w[2] : w \in W[l]} : l \in 1..K} :
                /\ q \in DOMAIN index.coreToBlock /\ Len(q) \in 1..K
                /\ LET found == index.coreToBlock[q]
                   IN  /\ \A b \in found : b \in LastBlocks(index)
                       /\ UNION {index.heap[b].paths : b \in found} =
                              {w[1] : w \in {w \in W[Len(q)] : w[2] = q}}

\* An index saved in full and read back can have its cores computed: the
\* computation comes to an end.
ComputationEnds == phase # "stuck"
=============================================================================
