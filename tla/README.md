# CPQ-native Index: specifications, model checking and proofs

The CPQ-native Index is a graph database index for conjunctive path queries
(CPQs). It partitions all pairs of vertices connected by at most *k* edges
into blocks no CPQ of diameter *k* can tell apart, computes for each block the
cores (minimal CPQs) its pairs satisfy, and answers a query by looking up the
blocks listed under the query's canonical form. This directory holds TLA+
modules that model it, the TLC configurations that check them, and proofs
checked by TLAPS. Source paths below are relative to
`src/CPQ-native Index/`; Java classes are in `src/dev/roanh/cpqindex/`, the C
code of nauty in `native/nauty/`.

## The system and its parts

| Part | Code | State | Operations |
|---|---|---|---|
| Partitioning | `Index.partition`, `LabelledPath`, `PathPair`, `Pair`, `LabelSequence` | the labelled paths of each layer (segments, labels, ancestor, segment id), the last path of each pair | collect edges, join, sort, number |
| Block construction | `Index.computeBlocks`, `Block(int, List)` | the blocks of each layer, which block a path is in, pairs still unused | slice, make a block, add the left-over pairs |
| Core computation | `Index.computeCores(int)` | a lock, condition and counter per layer, the pool's queue and threads | submit, wait, compute, count, signal, shut down |
| Cores of a block | `Block.computeCores`, `computeIntersectionCores`, `addCore` | `cores`, `canonCores`, conflicts, the selection in progress | inherit, concatenate, intersect, intersect with identity |
| Saved index | `Index.write`, `Index(InputStream)`, `Block.write`, `Block(DataInputStream, ...)`, `BlockPair`, `sort`, `setIntersections` | the file, the block map | save (in full or for queries), read back, sort |
| Query lookup | `streamBlocks`, `mapCoresToBlocks` | `coreToBlock` | map, look up |
| Canonical forms | `CanonForm`, `BitWriter` | the byte array and cursor of the writer | colour, relabel, pack into bits, hash |
| Nauty binding | `Nauty`, `native/core.c`, `native/dev_roanh_cpqindex_Nauty.c` | thread-local workspaces | pass a coloured graph, label it canonically |
| nauty | `nauty.c`, `nausparse.c`, `nautil.c`, `sorttemplates.c` | static thread-local variables: partitions, leaves, codes, orbits, stored automorphisms | refine, search, prune, compare, sort |
| nauty, graph operations | `naugraph.c`, `naututil.c`, parts of `nausparse.c` | a dense or sparse graph, `lab` and `ptn` | relabel, complement, double, make at random, compare, refine |
| nauty, permutation groups | `schreier.c` | a ring of permutations and a chain of levels, reference counts, free lists | add, sift, change the base, ask for orbits and order |
| Command line | `cli/.../Main.java` | none | one sequence of calls |
| Graph reading, progress, printing | `IndexUtil`, `ProgressListener`, `print` | none | input and output |
| External | gMark (library) | | CPQs, query graphs, homomorphisms, cores |

How they interact: the constructor runs partitioning and block construction in
one thread. Partitioning hands over the sorted paths of each layer; block
construction turns runs of equal ids into blocks that refer to blocks of lower
layers by object reference. `computeCores` runs one task per block in a thread
pool, layer by layer; a task reads the cores of the blocks it refers to without
a lock, so that the layers' order is all that synchronises them. Every core is
given a canonical form, for which the task's thread calls nauty, whose
workspaces are that thread's own and keep their contents between calls. Saving
turns references into ids, and reading turns ids back into references through a
map that is overwritten as the file is read. `computeCores` may be called on a
new index or on one read back from a full file. The native method runs only a
part of the vendored nauty: the search for sparse digraphs with its refinement,
one invariant and the sorting procedures. The operations on graphs and the
permutation groups are in the repository and can be called or switched on, but
the native method does neither.

What is hard about it:

* the wait loop of `computeCores`: `await` with a time limit, `tryLock` in most
  tasks and `lock` in the last, a condition per layer, failing tasks, interrupts;
* reads without a lock, justified only by the order of the layers;
* segment ids that must agree with bisimulation although they come from a sort
  whose first key is a hash, from comparisons of neighbours, and from segments
  that are compared by the ids of earlier layers;
* one representative path standing for all the paths of a block;
* left-over pairs: blocks of the last layer that share their id with a block of
  the layer before it, which matters for saving, reading and sorting;
* a search for intersections that skips whatever it takes to be found elsewhere;
* a search tree that is pruned by symmetries found elsewhere in it, with a dozen
  variables that every return must set back, and that keep the values of the
  graph before;
* sorting that stores equal elements over one another, on a stack of fixed size;
* reference counts without a check, and knowledge about a group that must stay
  true when its base changes;
* two forms of one graph that are changed and compared by separate code.

## Modules

Each module's header says what it abstracts. One action per operation or step;
mutated definitions (`X_Y` beside a definition `X`) are plausible mistakes in
that code, used only to confirm that a property notices them. Every module has
one type invariant, in some as the first part of another invariant.

### The index

**`LayeredCores`** is the abstract specification of core computation: blocks
become ready layer by layer, a layer closes when all its blocks are ready, the
mapping is built once after the last, or the caller gives up.

**`CorePool`** is `Index.computeCores(int)` (lines 567-637), one action per step
between two points where threads can interleave. The caller: `Submit`,
`Submitted`, `MainLock` (613), `Await`/`Timeout`/`InterruptedInAwait`/
`SpuriousWakeup`/`Reacquire` (614), `Check` (615-619), `Again`/`Leave`/`Raise`
(the `finally` at 626), `NextLayer`, `Shutdown` (634) and `MapCores` (636). A
thread: `Take`, `Compute` (589), `Throw` (602), `Count` (591), `LastLock` (592),
`TryLock`/`GiveUp` (593-594), `Signal` (598), `Unlock` (600), `Exit`.
The pool's queue is a set, any of whose tasks may be taken next, which allows
more than the FIFO queue of the code. Threads exist from the start, idle;
`newFixedThreadPool` makes them when needed. A block's cores are its status.
Properties: tasks read only counted blocks (`DepsReady`), the mapping is built
from complete results (`MapComplete`), locks are held exactly inside the critical
sections of their layer (`LockDiscipline`), closed layers do not change
(`ClosedLayersFrozen`), `LayeredCores` is implemented (`ImplementsLayered`), no
thread hangs and the pool ends (`PoolTerminates`), and a caller that waits when the
last block is counted goes on (`PromptLayerEnds`).

**`PathSemantics`** are reference definitions: which pairs are connected by *n*
edges, by which label sequences, k-path-bisimulation, and the relations CPQs
denote. They use neither ids nor sorting. What a CPQ denotes is gMark's,
and external to this repository.

**`Partition`** is `Index.partition` (645-753) with the comparators (787-822,
`LabelledPath` 90-271) and `Index.computeBlocks` (495-552) with the `Block`
constructor (878-906). Its steps: `CollectEdges`, `Number` (sort and ids of a
layer), `Join` (one split of a layer), `BlocksOfLayer`, `EmptyLayer` (line 505 on a
graph without edges) and `Remaining`. The order in which a hash table yields the
left-over paths is left open: any path may stand for its block. The hash code of a
set of segments is computed as the code does but without the wrap at 2^32, which
no instance here reaches.
Properties: ids are bisimulation classes (`IdsAreClasses`); `WellFormed`: the last
layer's blocks partition the connected pairs (`BlocksPartition`) and blocks are built
from lower, non-empty layers (`BlocksBuiltFromBelow`: what `CorePool` assumes of its
blocks as `BlockAssumption`); labels are complete and no CPQ of diameter k separates
the pairs of a block (`BlocksUniform`).

**`IndexFile`** extends `Partition` with the life of an index after its
construction (`IndexSpec`, of which the steps of `Partition` are the first): `ComputeCores` with `ComputeBlock` in any order within a layer and
`ComputeBlockThrows`, `MapCoresToBlocks`, `Sort`, `Write`, `WriteFails` and `Read`, in
any order the guards of the methods permit. The cores are restricted to those that
are plain label sequences, which depend on plain label sequences alone; each is its
own canonical form. `Resolve` is the block map at the moment a reference is read.
Properties: `FileFaithful` (the reader never finds an id it has no place for,
`FileReadable`, and references survive being saved as ids that are not unique,
`ReadBackSame`), `QueriesExact` (a query for a label sequence is answered with exactly
the pairs it connects, however the index came about), `ComputationEnds`. A task of the
same layer is one step here; that tasks only read finished layers is what `CorePool`
shows, provided the references lead to lower layers.

**`BlockCores`** is `Block.computeCores` with `computeIntersectionCores` and `addCore`
(1066-1262), for a chain of blocks of which each inherits the cores of the one before:
`OwnCore`, `OwnDone` (where `skip` and the restricted range are set), the loop over
pairs that finds conflicts (`PairInConflict`, `HoldPair`, `NextRow`, `PairsDone`), the
recursive enumeration of larger intersections (`DontPick`, `CannotPick`, `Pick`, `Unpick`,
`Subset`, `SubsetsDone`) with its calls as a stack, then `AddHeld`, `HeldDone`,
`Identity`, `Finish`. A CPQ is a set of branches with or without the identity; which
branch maps to which, and what more maps when the identity joins source and target, is
given as data, since homomorphisms are gMark's. `Expected` is the reference: the cores
of all intersections within the limit, without any pruning.
Properties: no intersection that is tried has more cores than the limit, two inherited
ones or two in conflict (`SelectionAdmissible`), the pruned search finds exactly the
expected cores (`NothingLost`), and each core is kept as one CPQ of which it is the core
(`CoresMatchForms`).

**`BitWriter`** is the class of that name: `WriteInt` enters `writeInt`, and each `WriteStep`
(`FullyFits`, lines 66-76, or `NeedsSplit`, 77-83) is one turn of its loop. A byte is the set
of the positions of its ones.

**`CanonCode`** extends it to `CanonForm.computeCanon` and `toBinaryCanon`, from a core to the bytes
of its key: `PrepareColors` (`toColoredGraph`, `getColorLists` and `prepareColors`), `ParseColoring`
(`parseColoring` in `core.c`), `ComputeCanonSparse`, `ComputeCanon` (inverse, relabelling),
`StartWriting` (the array's size), `WriteNext` and `WriteBits`, `Finish`. What nauty returns is
any labelling that `Canonizer` allows: one that keeps the cells it was given in place and yields
one chosen graph among those this can yield. That the native method is such a canonizer is what
`Nauty` shows.
Properties: the cells are the colours of the graph and renumbering the vertices and edges of a
core leaves its form the same (`FormCanonical`), the writer stays in its array (`ArrayFits`),
and a reader of the bytes recovers the core up to the names of its vertices (`CodeDetermines`).
`FormCanonical` and `CodeDetermines` together are what makes the bytes usable as keys: equal
queries have equal keys, and different ones different keys.

### nauty, as the native method runs it

**`ColoredGraph`** are the coloured digraphs nauty is given, labellings, relabelling and
isomorphisms; **`Canonizer`** the abstract specification of the native method: asked for one
graph after the other, it answers each with a labelling that respects the colours, and
isomorphic graphs become the same graph.

**`OrderedPartition`** is what all refinements share: the arrays `lab` and `ptn` at a level as a
function from a vertex to the position of its cell, dividing a cell, and the fifteen-bit codes
with their two tables. The order inside a cell is left out.

**`Refinement`** is `doref` (nautil.c:502) with `refine_sg` (nausparse.c:642) and `adjacencies_sg`:
every turn of the loop of `refine_sg` is a step, and inside it the touched cells are divided one after
the other (`SplitNext`); which cells become active after a split is decided as in the code, and the
codes are computed bit by bit, because the search compares them.

**`Nauty`** is the native method on one thread: the binding's `computeCanonSparse`, `sparsenauty` and
the search of nauty.c. The recursive calls of `firstpathnode0` and `othernode0` are frames of a
stack: a node is refined (`RefineNode`) and entered (`FirstPathNode`, `OtherNode`, which compares
its code with those of two leaves); `processnode` is `FirstTerminal`, `ProcessInternal`,
`ProcessLikeFirst`, `ProcessLikeBest`, `ProcessBetter` and `ProcessWorse`; the loops over a target
cell are `FirstPathChild`, `FirstPathSkip`, `FirstPathReturn`, `FirstPathEnd` and `OtherChild`,
`OtherReturn`, `OtherEnd`, and `PassReturn` passes through a node that a return jumps over.
`Shortprune` and `Longprune` use the stored pairs of fixed points and cycle representatives, and
`Recover` sets the levels back. The variables but the graph and the lists of requests and answers
are static in the code and keep their values from one call to the next.
Properties: split partitions are equitable (`Equitable`), the rows of the best graph that are
counted as up to date are (`RowsCorrect`), the orbits and the group size found are those of all
automorphisms (`GroupExact`), the tests of the repository are reproduced (`NautyTests`),
`Canonizer` is implemented (`CanonizerSpec`) and every call ends (`CallsReturn`).

**`Sorting`** is `sorttemplates.c`: `sortints`, `sortparallel` and `sortindirect` for one array of
values with a payload. Segments are taken off the stack (`TakeShort`, `TakeLong`), sorted by
insertion (`Insert`) or split around a median by the four pointers of the code, with equal values
collected at both ends (`Rise`, `Sink`, `Swap`) and exchanged into the middle (`MoveLeft`,
`MoveRight`), and their two parts pushed (`Push`).
Properties: what is returned is an ascending permutation of the array (`Sorts`), the segments on
the stack halve, so that its forty places are enough (`StackHalves`), and sorting ends (`Returns`).

### nauty, the rest of the library

These modules are of code that is in the repository and that the native method does not call.

**`Schreier`** is `schreier.c`: the ring of permutations with reference counts and a free list, the
levels with orbits and trees, `filterschreier`, `addgenerator`, `expandschreier`, `getorbits`,
`getorbitsmin`, `pruneset` and `grouporder`, with the changes of the base they make. A random product
may be any permutation of the group.
Properties: what a tree points to is in the ring and counted (`ReferencesCounted`), orbits and trees
never claim more than is true, also after the base changed (`LevelsSound`), the marked permutations
generate the group (`GeneratorsKept`), queries are sound (`AnswersSound`), and levels that nothing can
improve are exact (`ClosedIsExact`).

**`LabelledDigraph`** is the abstract specification of the operations on graphs: arcs between
vertices and an ordered partition. **`DenseGraph`** and **`SparseGraph`** are the two forms of a graph
and their operations: sets of successors, and lists that lie anywhere in one array (naugraph.c,
nausparse.c, naututil.c). **`GraphForms`** applies each operation to both, with the arrays `lab` and
`ptn`, as a caller does who may use either.
Properties: both forms stay the same graph and the lists do not overlap or leave their array
(`FormsAgree`), together they implement `LabelledDigraph` (`ImplementsDigraph`), the comparisons of
leaves are an order of the relabelled graphs (`ComparisonsRight`), `refine` ends at the coarsest equitable
partition although not all cells become active (`RefinesRight`), codes, cells, distances and target
cells do not depend on the names of vertices (`NamesImmaterial`), and target cells and `cheapautom` are
what their comments say (`CellChoices`).

### Proofs and instances

`CorePoolProofs`, `PartitionProofs`, `IndexFileProofs`, `BitWriterProofs`, `BlockCoresProofs`,
`SortingProofs` and `NautyProofs` (also about `Refinement`) hold the proofs about the modules they are
named for; `DataLemmas` are lemmas on numbers, finite sets, orders and recursive functions that several
of them use. `IndexFileProofs` continues `PartitionProofs`.
`MCCorePool`, `MCPartition`, `MCIndexFile`, `MCBlockCores`, `MCCanonCode`, `MCNauty`, `MCSorting`,
`MCSchreier` and `MCGraphForms` give the constants values for TLC; `MCNauty` also holds the graphs of `NautyTest` and what the tests expect.

## Runs

| Run | Question | Bounds |
|---|---|---|
| `core_pool` | safety of `computeCores`, that it implements `LayeredCores`, and what does terminate under fair scheduling | 3 layers of 2, 1, 1 blocks, 3 threads, any block may fail, interrupts |
| `core_pool_lost_wakeup` | does a counted layer always end? (no) | layers of 2 and 1 blocks, 2 threads, no failures, no interrupts |
| `partition` | ids, blocks, left-overs, labels, uniformity | all graphs of at most 5 edges of one label on 3 vertices, and all of two labels on 2 vertices, k = 4 |
| `index_file` | computing, saving, reading, querying | all graphs on 2 vertices with two labels, k = 3, two reads, sorted only with cores |
| `index_file_sorted` | does an index saved in full always compute? (not if sorted) | all graphs on 2 vertices with one label, k = 3, two reads |
| `block_cores` | what the pruned search for intersections finds | all orders of 4 branches, chains of 2 or 3 blocks, at most 2 or 3 intersections; all orders of 3 loops and the identity, at most 1 to 3 |
| `canon_code` | colours, canonical form, bytes | all cores of at most 3 vertices and 3 edges over two labels, the code's widths of 5 and 10 bits |
| `canon_code_labels` | do the bytes determine the core for every label id? (no) | cores of one edge with label 1 or 33 |
| `nauty` | refinement, pruning, comparison, what a call leaves behind | all digraphs of 3 vertices with one or two colours, symmetric ones of up to 16, those of `NautyTest`; 2 to 4 calls each |
| `sorting` | order, stack, termination | all arrays of at most 7 elements and three values, some of 10 to 14 |
| `schreier` | reference counts, soundness under changes of the base | the symmetric group of 3 points, the square, a rotation of 7 points; up to 4, 3 and 2 calls |
| `graph_forms` | both forms of a graph, comparisons, dense refinement, target cells | all digraphs of 3 and graphs of 4 vertices up to some renaming, some with loops, larger symmetric ones; two operations, or one |

Why the bounds are enough for the cases of interest.

* `CorePool`: three layers have a first, a middle and a last one; a layer of two blocks
  distinguishes the last counted block from the other, and three threads leave tasks of a closed
  layer at their lock while the next layer runs.
* `Partition`, `IndexFile`: three vertices give loops, joins through a third vertex and pairs that
  do not occur at every length; k = 3 has lengths with two splits and ancestors two layers back;
  k = 4 has an ancestor's ancestor. Two reads include saving an index that was not read in full
  again. Graphs are taken up to renaming their vertices, which only changes which of equal paths is
  sorted first.
* `BlockCores`: three layers have cores that are inherited twice; four branches give two pairs in
  conflict that share a core or do not; a limit of three is met and exceeded. The last shape of a
  block of loops has as own core the concatenation of two loops, which with the identity is their
  intersection. `MaxIntersections` and `computeLabels` are those of the chain, and the order of the
  own cores is given.
* `CanonCode`: three edges over two labels give colours of one, two and three nodes, nodes that nauty
  may and may not exchange, and integers that end at, before and after the end of a byte.
  `MCCanonCode` enumerates graphs that are connected and cannot be folded, which are the cores;
  every renumbering of each is compared with it.
* `Nauty`: graphs on three vertices are searched two levels deep. The larger ones are chosen for what
  happens in them: refinements of many turns (two paths), `adjacencies_sg` splitting a cell (a regular
  digraph without symmetry), leaves equal to the best but not the first (a cubic graph with three
  orbits), more automorphisms than the workspace holds (`MaxPairs` is 2; in the code it is
  500), jumps over several levels (Petersen's graph). Graphs of different sizes follow each other.
* `Sorting`: `MinPartition` is 3 and `MinMedian9` 6 instead of the code's 11 and 320, so that arrays
  of seven elements are split, split again and sorted by insertion, and longer ones split at a
  median of nine.
* `Schreier`: `Fails`, the products in a row that must teach nothing, is 1 (10 in the code): every
  number is reached by some sequence of products, and fewer make less be known. `MaxOrder` bounds the
  groups, whose elements are enumerated. The rotation of seven points has powers that `applyperm`
  computes by cubes and by cycles.
* `GraphForms`: `Inc` stands for `inc`, by which `rangraph2_sg` makes its array longer (at least 21 in
  the code), and its array starts with the least length, so that it grows. `MaxVertices` bounds the
  table of codes, `MaxDoubled` the graphs that are doubled. Larger graphs take one operation, since one
  is enough to leave the form that a graph was made in. Operations that are told a graph is undirected
  are given one without loops.

`Partition`, `IndexFile`, `BlockCores`, `CanonCode`, `Schreier` and `GraphForms` state no fairness: their
properties are about states and steps. The graph without edges ends in "failed", and final states stutter
explicitly. Only `Schreier.cfg` and `GraphForms.cfg` switch deadlock checking off: the number of calls
and of operations is bounded there, and a caller that makes no more is not stuck.

**Fairness.** `CorePool`: weak fairness of the caller and of each thread: the
scheduler runs what can run, and a block's computation ends. Strong fairness of
`LastLock`: the thread that waits in `lock()` is queued at the lock and gets it although the
caller takes and leaves the lock again and again. No fairness for time limits, interrupts
and spurious wake-ups: nothing obliges them to happen. `TimedSpec`, used for the
counterexample, adds that the ten minutes do pass; without it the caller might seem
stuck only because time stands still. `Nauty` and `Sorting` are single calls of sequential code:
weak fairness of `Next` says that the processor goes on. In `Nauty` it is written out (a step can
always be taken while there is work, so that either work ends or steps never do) because the
enabling condition of so large a step is costly to evaluate.

## Findings

* **A lost wake-up** (`Index.java:614`, run `core_pool_lost_wakeup`). The caller compares the
  counter with the total only after an `await` that was signalled. When the last thread counts,
  locks, signals and unlocks before the caller has reached `await` - one fast layer is enough - no
  signal is left to come. Each ten-minute limit makes `await` return false, the counter is not
  looked at, and the caller waits for ever although all blocks were computed. What does hold, under
  the same fairness, is `PromptLayerEnds`: a caller already waiting when the last block is counted
  goes on.
* **Sorting spoils a full save** (`Index.java:393`, run `index_file_sorted`). A left-over block of
  the last layer has the id of a block of layer k - 1. Reading resolves an id to the block last
  read under it; in the order of construction the left-over blocks come last and no reference is
  resolved after them. `sort` reorders them. After `sort`, `write(out, true)`, reading and
  `computeCores`, a block of layer k refers to another one of layer k, whose cores may have been
  set to null: its task throws, the layer is never counted and the caller waits for ever. The
  documentation of `sort` says that it only matters for printing.
* **Label ids above 31** (`CanonForm.java:307`, run `canon_code_labels`). Ids are written with five
  bits, of which `CanonForm.java:48` says that they always suffice; nothing checks it, and
  `writeInt` drops the higher bits. In a graph with more than 32 labels, two cores that differ
  in a label have the same bytes, hence one entry in the index.

Smaller disagreements noted while modelling; the models follow the code in each:

* `Nauty.java:55` and `core.c:65` say that the start of each colour range is negated; `prepareColors`
  (`Nauty.java:79`) negates its end, which is what `parseColoring` needs. Harmless.
* `LabelledPath.java:54` and `Index.java:868` place an ancestor in "the previous" layer, but it is the
  last path of the pair in any lower layer (`Index.java:712`).
* `Index.java:1049` calls the list of a block its cores; it may hold an intersection with the identity
  that is not a core itself, kept for the core it has (`CoresMatchForms`).
* `complement_sg` (naututil.c:2647) allocates for the complement of a graph with exactly one loop as if
  there were no loops, although it complements them. `GraphForms` does not complement such graphs.
* `bestcell_sg` (nausparse.c:1171) says that it counts other cells; it also counts the cell itself,
  where `bestcell` of the dense form does not. `CellChoices` states both.
* `mathon` and `mathon_sg` differ for directed graphs, and `rangraph` makes loops in digraphs while
  `rangraph2_sg` does not. `GraphForms` only doubles undirected graphs.

## Proofs

**`CorePoolProofs`** proves, for every number of layers, blocks and threads and every dependency
relation between layers: type correctness (`TypeCorrect`), `LocksHeldInside`, `DependenciesReady`,
`MappingComplete`, `ClosedLayersStayFrozen` and `Refinement` (`CorePool` implements
`LayeredCores`: the initial states and every step map to it).

The assumptions are those of `CorePool`: k >= 1; finitely many blocks, each in one of the layers
and with dependencies in strictly lower ones; no layer empty; at least one thread; and the caller,
the threads and `Nobody` all different. That the blocks of an index have such dependencies, and that no layer
is empty unless there is no edge, is `WellFormed` of `Partition` (`PartitionProofs`).

The argument is the inductive invariant `IInv`. None of the properties is inductive alone, because
the code decides on the counter, not on the blocks:

* `TasksInv`: a thread's position determines the status of its block, and no two threads compute
  one block;
* `CounterInv`: the counter of a layer is the number of its counted blocks, hence (lemma
  `AllDoneMeansCounted`) a counter equal to the total means that every block was counted, as
  a subset of a finite set with its cardinality is that set;
* `LayerInv`: layers below the current one are counted, layers above it untouched;
* `LockDiscipline` and `TypeOK`.

`Invariance` shows that `IInv` holds initially and is preserved, one step per action; the
properties follow from it, and the refinement uses it to find the dependencies of a computed
block among the ready ones.

**`PartitionProofs`** proves of `partition` and `computeBlocks`, for every finite graph, every diameter and
with and without labels, the three properties that the runs check: ids are the classes of bisimilar pairs
(`IdsRight`), what is built is well formed (`WellFormedAlways`) and no query tells pairs of a block apart
(`QueriesUniform`). The assumptions are those of `Partition`: k >= 1, vertices and labels are numbers,
vertices and edges are finitely many, and `None` is neither a path nor a block. Two invariants carry it.

* `PathInv` (`PathsRight`). The paths of each layer that was made are the walks of its length, as far as
  the join has come; each has the last lower path of its pair as ancestor, the segments of every pair of
  parts, and all labels. A numbered layer is sorted and its ids rise from those of the layer below
  (`IdsRise`); two paths of it have one id exactly if what `partition` compares is the same (`IdsAlike`).
  The code only compares neighbours after sorting, segments as sets of ids, and ids of other layers; so
  the proof needs that the comparators order the paths in a line (that of sets, by descending size and
  then ids, is one because ids are numbers), that sorting by counting reaches every place
  (`OntoByCount`), and that ids of different layers do not overlap, since a loop's ancestor and the
  segments hold ids alone.
  `IdsFit` says of one layer that its ids are the bisimulation of that length, defined by recursion over
  the parts; it follows, layer by layer, from `IdsAlike` and `IdsFit` of the lower ones.
* `BlockInv` (`BlocksAreRight`). Blocks hold pairs of one id with the labels of all of them, a path is in
  exactly the block that `blockOf` names, blocks read blocks of shorter paths, and the pairs waiting in
  `unused` are those of lower layers that no longer path took up. That the left-over pairs of the last
  round all have length k - 1 needs an argument about graphs: an edge can be followed there and
  back, so that a pair connected by n edges is connected by n + 2.

`QueriesUniform` goes from pairs to queries. Pairs are `Similar` up to i if both or neither are loops and one
is bisimilar to the other at each length up to i that the other occurs at; ancestors bring this about for
two pairs of one block. A `Uniform` relation holds with a pair all those similar to it. Labels and the
identity are uniform, conjunctions of uniform relations are, and so are compositions, of diameters that
add up: this is where segments of *all* splits are needed. A loop at a vertex that no edge touches is in
the identity though it occurs at no length, and is treated apart (`AllLoops`). The queries of a diameter
are a closure of those of lower ones, so that the proof is an induction over the diameter.

`BlocksAreExact` says what the blocks are made of (`BlocksExact`). `computeBlocks` looks at one path of a
block only, and `partition` has only ids to offer of its parts. Yet the ancestor is the block of the last
shorter path of *every* pair of the block, the combinations are the blocks of the parts of *each* of its
paths and no others, the ids of one layer's blocks are distinct, and left-over blocks are the last ones of
their layer. It needs `IdsAlike`, and that `blockOf` leads from the id of a part to one block.

**`IndexFileProofs`** proves of the life of an index, for every finite graph and diameter, with and without
labels, however often it is sorted, saved and read back: `FileFaithful` (`FilesAreFaithful`), `QueriesExact`
(`QueriesAreExact`) and `ComputationEnds` (`ComputationsEnd`). The last says only that the computation never
gets stuck; that it goes on is fairness, and `CorePool`'s. Besides the assumptions of `Partition` they take
`~SortsEarly`: an index is sorted only when it has cores. Without it `ComputationEnds` is false, as the run
`index_file_sorted` shows. The argument has three parts.

* *What was built* (`BuiltAtEnd`: `BuiltRight` holds of the blocks when the construction has ended). The
  label sequences of at most *l* edges of all pairs of a block of layer *l* are the same (`WordsFit`), namely those of
  its ancestor and those its combinations, or its labels, give: `BlocksExact` says where each part of a path
  is found. The id of a block that another one refers to belongs, among the blocks *before* the latter, to no
  other block (`IdsLead`); the two blocks of one id that left-over pairs bring about are told apart by
  their order alone. The last layer has ids of its own and each pair once (`LastFits`).
* *What each operation makes*, of any blocks and graph that are right so. An index is right (`IndexRight`) if
  its blocks are arranged in their layers, its references lead to ids found in lower layers, without cores it is
  what was built (`Plain`), and with cores it answers each label sequence (`Answers`). `Computing` is what holds in the
  middle of `computeCores`: blocks of finished layers have the label sequences of their pairs as cores. The file of
  a right index is `SavedIndex`, and reading resolves a reference to the last block read so far with its id
  (`LedBefore`); `IndexRead` is what is read, and it is right again.
* *The invariant* `IndexInv` (`IndexKept`): the index in memory is right, or being computed, and the file
  is that of *some* right index, not necessarily of the one in memory, as that may have been read or computed
  since. None of the properties is inductive: that queries are exact after reading needs the file to be
  right, that needs the index saved to be right, and the cores of an index read back without any need
  its references to be those that were built.

**`BlockCoresProofs`** proves, for every chain of blocks and every limit, whatever maps to what, type
correctness (`TypeCorrect`), `SelectionAdmissible` (`SelectionCorrect`) and `CoresMatchForms` (`FormsMatch`).
The assumptions are only the types of a chain. The inductive invariant is `SelectionInv` (`SelectionInvariant`): the calls in progress
explain the selection. There is a map from the picked cores to the calls that picked them, in order, each
having picked at its own offset; offsets rise along the stack, and past `skip` after a pick, so that a
second inherited core cannot be picked; no call picks what is in conflict with the selection it found. The
property alone says nothing of the stack, and what is undone on return is found on it. For `FormsMatch` the
cores that a block keeps are compared with its forms after each core that is added, and with those of the
block below when it is inherited from.

**`SortingProofs`** proves, for every array, every size below which segments are sorted by insertion
and every one from which a median of nine is taken (at least 3): what is returned is an ascending
permutation of the array (`SortingCorrect`), and the stack stays within the logarithm of its length
(`StackBounded`). The inductive invariant `SortInv` (`SortInvariant`) says of the array that two
elements are only out of order inside one segment still to be sorted (`Ordered`) and that keys and
payload are still those given (`Permuted`); of the segments that they lie in the array and do not
overlap (`SegmentsInv`); of a partition in progress how its bounds lie (`BoundsInv`) and what is less
than, equal to and greater than the pivot where (`LowerInv` and the invariants after it), through the
exchanges that bring the equal elements to the middle. For the stack, `HalvingInv` says that there are
bounds for the segments on it, each at most half of the one below, and one more for the segment being
sorted: without it the property would not survive pushing the parts of that segment.

**`BitWriterProofs`** proves of every array, integer and width that `writeInt` stays inside an array with
room for its bits, moves its cursor over exactly the bits written, and ends
(`WriteStepStaysInside`; `NewWriterHasRoom` and `WriteIntKeepsRoom` are its other steps). The invariant
is `RoomInv`: the bits written and those still to be written fit in the array. That the array is
sized for the sum of all widths is `ArrayFits`, model-checked: it is a sum over a sequence.

**`NautyProofs`** begins with `Refinement`. It proves of every coloured graph, every partition of its vertices and any active cells
what a step of `doref` keeps (`DorefKeeps`): the partition is only divided, the queue holds positions of
cells, and what is active is enough. That is Hopcroft's argument, since `refine_sg` leaves one part of a
divided cell inactive. The invariant `RefInv` says that vertices of one cell which the active
cells, and in a turn the cell it took from the queue, do not tell apart are told apart by no cell
(`Determined`). When a cell is divided, arcs from the part left out are those from the whole cell less those
from the other parts (`AllPartsButOne`). When nothing is active any more, the partition is equitable. The lemmas on
`adjacencies_sg` show that it only divides cells as well, so that the second refinement starts from a
partition of the same kind.

Of `Nauty` it proves, for every sequence of coloured graphs that are asked one after the other, every
bound on vertices and every number of pairs that the workspace holds: when the search
splits a cell the partition is equitable (`PartitionsEquitable`), the rows counted as up to date are
those of the best leaf (`RowsRight`), and type correctness (`NautyTypes`). The assumptions are those of
`Nauty`: workloads are sequences of coloured digraphs (colours are an ordered partition of the vertices,
there is a vertex), and the workspace holds at least one pair. The inductive invariant is `Inv` (`InvKept`);
its parts need one another in this order:

* `ShapeInv`: every frame of the stack has an equitable partition, a target cell of several vertices and
  a place in it, and at a node `RefInv` holds. It gives `Equitable`, and is inductive by itself;
* `LevelInv`: a frame's level is its place, and its partition has at least that many cells, so that
  no level exceeds the number of vertices;
* `PathInv`: the frames of the first path are the lowest ones, each at its first child;
* `FirstLeafInv`: before the first leaf there is only the first path, and no orbits were joined;
* `CheapInv`, `AncestorInv`: the level under which all orderings may be taken for equivalent, and those of
  the common ancestors with the first and the best leaf, are levels of the stack: they are static variables
  that a return goes to, and only this shows that it goes up and not past the root or to a stale level;
* `LeavesInv`: the first and the best leaf list the vertices of the present graph, not of an earlier one;
* `PairsInv`, `ReturnInv`: the stored pairs fit the workspace, and a return goes to a level there is;
* `RowsInv`: `RowsCorrect` with the range that the updates compute.

`RowsInv` alone would not survive the first leaf of a call: `samerows` and `canong` keep the values of the
call before, and only `FirstLeafInv` with `LevelInv` shows that they are reset before they are read.


**Induction over data** is done without operators as parameters: a recursive function is shown to exist
from the least number at which it would fail (`LeastNat`, `NatInd` and `RecursiveFunction` of `DataLemmas`),
and sums over finite sets from that (`SumOver`). Where a reference definition grows a sequence by an element
made of those before it, as the walks and the bisimulations of `PathSemantics` are made, `GrownExists` and
`GrownIs` of `PartitionProofs` show that there is one and what its elements are; `FoldStays` says what a fold
keeps. `Nauty`'s codes are computed with a recursive function on
bits (`XorType` shows that it yields numbers); nothing that is proved depends on their values.

**Only model-checked.** Liveness, under fairness, which is beyond the prover, and what was not proved yet:
everything about `CanonCode`, `Schreier` and `GraphForms`, and of `Nauty` that the answers are
canonical (`CanonizerSpec`), that the group is found (`GroupExact`) and the tests (`NautyTests`). `NothingLost`
relates a search to what gMark computes, over all sets of cores. What `GroupExact`, `ClosedIsExact` and
`RefinesRight` say is compared with groups and partitions that are enumerated; proofs would need the
theory of permutation groups.

## Hazards no property covers

* `Index.java:614`: an interrupted computation leaves its pool running, and calling `computeCores` again
  computes over blocks whose cores may be half computed. `CorePool` ends with the interrupt.
* `Index.java:1158`: a pair is in conflict if its intersection is no core, even if only a part of it
  collapses. `NothingLost` holds because a pair of branches collapses to one of them, and a concatenation
  of two loops, which with the identity collapses to their intersection, stays within the limit.
  Concatenations of more loops than `maxIntersections`, of which the identity makes some collapse, would
  need at least four loops and a limit below their number.
* `naututil.c:2652`: complementing a graph with exactly one loop writes past what was allocated; what
  that does is not defined, and `GraphForms` leaves it out.

## What is not modelled

* Of the index: the string and Base64 variants of a canonical form and its hash; predicates' names and
  the bytes of the file; the diameter check and queries other than label sequences in `IndexFile`. Blocks
  and their intersections are modelled apart from the file, with cores given as data.
* `setIntersections` and the command line, which is one sequence of the calls that `IndexFile` leaves
  open. `Main.java:130` sets the limit on every index it reads; on one that already has cores
  `setIntersections` throws.
* Graph reading, progress and printing: input and output. The progress count of `Index.java:623`
  sums the sizes of sets other threads are changing, and nothing depends on it.
* Of nauty: reading and writing graphs and printing (most of the rest of naututil.c and nauty.h),
  hashing, the random number generator (where it is used the models choose freely), regular random
  graphs, sorting of sets of graphs by name, invariants other than `adjacencies_sg` and `distances_sg`, user
  procedures, weights of edges, and the case of no vertices. nauty's search with the dense form and with
  the Schreier method: the options of the native method choose neither. The error results of
  `sparsenauty`, which these options never lead to.
* gMark, an external library: homomorphisms and cores are given to `BlockCores` as data.
* Two threads inside nauty at the same time: its variables are thread-local, so that one thread is
  all there is to see, with the graphs it canonised before.

## Plan

Done: `LayeredCores`, `CorePool`, `PathSemantics`, `Partition`, `IndexFile`, `BitWriter`, `CanonCode`, `BlockCores`,
`Refinement`, `Nauty`, `Sorting`, `Schreier`, `GraphForms`, and the proofs above.

Further work, in the order of what it would add:

1. an interrupted computation that is started again, as an extension of `CorePool`;
2. `setIntersections` and the command line's sequence of calls in `IndexFile`, and the cores of
   `BlockCores` in its blocks;
3. proofs that the labellings `Nauty` answers with respect the colours, so that the
   canonical form of `CanonCode` may rely on it;
4. proofs about `Schreier`: that references are counted, for every sequence of calls.
