----------------------------- MODULE BlockCores -----------------------------
(***************************************************************************)
(* The cores of a block, Index.Block.computeCores: inherited ones, own     *)
(* ones, and all intersections of them up to a limit, each also with the   *)
(* identity in a block of loops.  Blocks of successive layers are computed *)
(* one after the other, each the ancestor of the next.                     *)
(*                                                                         *)
(* A CPQ is an intersection of branches, with or without the identity: a   *)
(* branch stands for a CPQ that is no intersection itself, a label or a    *)
(* concatenation.  What gMark computes on query graphs is given by which   *)
(* branches map to which, and with the identity, which joins source and    *)
(* target, more may do so.  Positions in lists start from 1, and range     *)
(* ends are inclusive where those of the code are exclusive.               *)
(***************************************************************************)
EXTENDS Integers, Sequences, FiniteSets

CONSTANT Chains   \* The chains of blocks: [branches, maps, mapsId, loop, own, maxIntersections, computeLabels].

CPQs == [f : SUBSET Nat, id : BOOLEAN, twice : BOOLEAN]

ASSUME ChainsAssumption ==
    \A c \in Chains :
        /\ c.branches \in Nat
        /\ c.maxIntersections \in Nat
        /\ c.own \in Seq(Seq(CPQs)) /\ c.own # <<>>
        /\ c.loop \in BOOLEAN /\ c.computeLabels \in BOOLEAN

VARIABLES
    chain,         \* The chain of blocks that is computed,
    layer,         \* the block of it that is,
    pc,            \* "own", "pairs", "subsets", "held", "identity" or "done",
    row, col,      \* and the counters of its loops.
    canonCores,    \* The cores of the block, as their canonical forms,
    cores,         \* and as the CPQs they were made from.
    skip, end,     \* The inherited cores are 1..skip, those before intersection 1..end.
    conflicts,     \* The cores that a core is not to be intersected with.
    held,          \* The intersections of two cores.
    stack,         \* Calls of computeIntersectionCores: [offset, step],
    set            \* and the cores that they picked.

collections == <<canonCores, cores>>
bounds == <<chain, layer, skip, end>>
search == <<stack, set>>
vars == <<bounds, pc, row, col, collections, conflicts, held, search>>

-----------------------------------------------------------------------------
(* What is used of gMark.                                                  *)

\* A CPQ: its branches, if it has the identity, and if a branch occurs in it twice.
Branch(b) == [f |-> {b}, id |-> FALSE, twice |-> FALSE]
Intersect(list) ==
    [f |-> UNION {list[i].f : i \in DOMAIN list},
     id |-> \E i \in DOMAIN list : list[i].id,
     twice |-> \/ \E i \in DOMAIN list : list[i].twice
               \/ \E i, j \in DOMAIN list : i # j /\ list[i].f \cap list[j].f # {}]
WithId(q) == [q EXCEPT !.id = TRUE]

MapsTo(x, y, id) == <<x, y>> \in (IF id THEN chain.mapsId ELSE chain.maps)

\* A branch is dropped from the core when it maps to another; of those that map
\* to each other one is left, always the same.
Representative(x, id) ==
    CHOOSE z \in {y \in 1..chain.branches : MapsTo(x, y, id) /\ MapsTo(y, x, id)} : TRUE
Core(q) ==
    [id |-> q.id,
     f |-> {Representative(x, q.id) :
               x \in {x \in q.f : \A y \in q.f : MapsTo(x, y, q.id) => MapsTo(y, x, q.id)}}]
WasCore(q) == ~q.twice /\ Cardinality(Core(q).f) = Cardinality(q.f)

HomomorphicTo(p, q) == (p.id => q.id) /\ \A x \in p.f : \E y \in q.f : MapsTo(x, y, q.id)

-----------------------------------------------------------------------------
(* The own cores of a block.                                               *)

MaxIntersections == chain.maxIntersections
NoSave == layer = Len(chain.own) /\ ~chain.computeLabels

Init ==
    /\ chain \in Chains
    /\ layer = 1
    /\ pc = "own"
    /\ row = 1 /\ col = 1
    /\ canonCores = {} /\ cores = <<>>
    /\ skip = 0 /\ end = 0
    /\ conflicts = <<>>
    /\ held = <<>>
    /\ stack = <<>> /\ set = <<>>

\* (As it would be without looking at what canonCores.add returns.)
Saved_Duplicates(q, noSave) == IF noSave THEN <<>> ELSE <<q>>

\* What addCore appends to the cores of the block.
Saved(q, noSave) == IF Core(q) \in canonCores \/ noSave THEN <<>> ELSE <<q>>

AddCore(q, noSave) ==
    /\ canonCores' = canonCores \cup {Core(q)}
    /\ cores' = cores \o Saved(q, noSave)

\* A label of the block, or a concatenation for one of its pairs of blocks.
OwnCore ==
    /\ pc = "own"
    /\ row <= Len(chain.own[layer])
    /\ AddCore(chain.own[layer][row], FALSE)
    /\ row' = row + 1
    /\ UNCHANGED <<bounds, pc, col, conflicts, held, search>>

\* Homomorphic cores collapse when they are intersected.
Conflicts ==
    [i \in 1..Len(cores) |->
        {j \in (skip + 1)..(i - 1) : HomomorphicTo(cores[i], cores[j]) \/ HomomorphicTo(cores[j], cores[i])}]

OwnDone ==
    /\ pc = "own"
    /\ row > Len(chain.own[layer])
    /\ end' = Len(cores)
    /\ IF MaxIntersections >= 2
       THEN pc' = "pairs" /\ conflicts' = Conflicts
       ELSE pc' = "identity" /\ UNCHANGED conflicts
    /\ row' = skip + 1 /\ col' = 1
    /\ held' = <<>>
    /\ UNCHANGED <<chain, layer, skip, collections, search>>

-----------------------------------------------------------------------------
(* Intersections of two cores, one of which is not inherited.              *)

InRow == pc = "pairs" /\ row <= end /\ col < row

PairInConflict ==
    /\ InRow
    /\ col \in conflicts[row]
    /\ col' = col + 1
    /\ UNCHANGED <<bounds, pc, row, collections, conflicts, held, search>>

\* A pair that turns out to be no core is in conflict too.
HoldPair ==
    LET q == Intersect(<<cores[row], cores[col]>>)
    IN  /\ InRow
        /\ col \notin conflicts[row]
        /\ held' = IF WasCore(q) /\ chain.loop THEN held \o <<q, WithId(q)>> ELSE Append(held, q)
        /\ conflicts' = IF WasCore(q) THEN conflicts ELSE [conflicts EXCEPT ![row] = @ \cup {col}]
        /\ col' = col + 1
        /\ UNCHANGED <<bounds, pc, row, collections, search>>

\* (As it would be with an inner loop that starts after the inherited cores.)
NextRow_OwnOnly ==
    /\ pc = "pairs"
    /\ row <= end /\ col >= row
    /\ row' = row + 1 /\ col' = skip + 1
    /\ UNCHANGED <<bounds, pc, collections, conflicts, held, search>>

NextRow ==
    /\ pc = "pairs"
    /\ row <= end /\ col >= row
    /\ row' = row + 1 /\ col' = 1
    /\ UNCHANGED <<bounds, pc, collections, conflicts, held, search>>

PairsDone ==
    /\ pc = "pairs"
    /\ row > end
    /\ IF MaxIntersections >= 3
       THEN pc' = "subsets" /\ stack' = <<[offset |-> 1, step |-> "enter"]>>
       ELSE pc' = "held" /\ UNCHANGED stack
    /\ row' = 1
    /\ UNCHANGED <<bounds, col, collections, conflicts, held, set>>

-----------------------------------------------------------------------------
(* computeIntersectionCores: every subset of three or more cores with at   *)
(* most one inherited core and without a conflict.                         *)

Picked == {set[i] : i \in DOMAIN set}
Top == stack[Len(stack)]
Running(step) == pc = "subsets" /\ stack # <<>> /\ Top.step = step
Complete == Top.offset > end \/ Len(set) = MaxIntersections

Return == SubSeq(stack, 1, Len(stack) - 1)
Call(step, offset) ==
    Append([stack EXCEPT ![Len(stack)].step = step], [offset |-> offset, step |-> "enter"])

\* A core of a loop is added with the identity as well, if it has none yet.
Subset ==
    LET q == Intersect([i \in 1..Len(set) |-> cores[set[i]]])
        both == chain.loop /\ WasCore(q) /\ ~q.id
    IN  /\ Running("enter")
        /\ Complete
        /\ IF Len(set) < 3 THEN UNCHANGED collections
           ELSE IF both
           THEN /\ canonCores' = canonCores \cup {Core(q), Core(WithId(q))}
                /\ cores' = cores \o Saved(q, NoSave) \o Saved(WithId(q), NoSave)
           ELSE AddCore(q, NoSave)
        /\ stack' = Return
        /\ UNCHANGED <<bounds, pc, row, col, conflicts, held, set>>

DontPick ==
    /\ Running("enter")
    /\ ~Complete
    /\ stack' = Call("left", Top.offset + 1)
    /\ UNCHANGED <<bounds, pc, row, col, collections, conflicts, held, set>>

Pickable == conflicts[Top.offset] \cap Picked = {}

\* (As it would be without the restricted range.)
AfterPick_Unrestricted(offset) == offset + 1

\* After an inherited core the other inherited ones are passed over.
AfterPick(offset) == IF offset <= skip THEN skip + 1 ELSE offset + 1

Pick ==
    /\ Running("left")
    /\ Pickable
    /\ set' = Append(set, Top.offset)
    /\ stack' = Call("picked", AfterPick(Top.offset))
    /\ UNCHANGED <<bounds, pc, row, col, collections, conflicts, held>>

CannotPick ==
    /\ Running("left")
    /\ ~Pickable
    /\ stack' = Return
    /\ UNCHANGED <<bounds, pc, row, col, collections, conflicts, held, set>>

Unpick ==
    /\ Running("picked")
    /\ set' = SubSeq(set, 1, Len(set) - 1)
    /\ stack' = Return
    /\ UNCHANGED <<bounds, pc, row, col, collections, conflicts, held>>

SubsetsDone ==
    /\ pc = "subsets"
    /\ stack = <<>>
    /\ pc' = "held"
    /\ UNCHANGED <<bounds, row, col, collections, conflicts, held, search>>

-----------------------------------------------------------------------------
(* The end of computeCores.                                                *)

AddHeld ==
    /\ pc = "held"
    /\ row <= Len(held)
    /\ AddCore(held[row], NoSave)
    /\ row' = row + 1
    /\ UNCHANGED <<bounds, pc, col, conflicts, held, search>>

HeldDone ==
    /\ pc = "held"
    /\ row > Len(held)
    /\ pc' = "identity"
    /\ row' = skip + 1
    /\ UNCHANGED <<bounds, col, collections, conflicts, held, search>>

Identity ==
    /\ pc = "identity"
    /\ chain.loop /\ row <= end
    /\ AddCore(WithId(cores[row]), NoSave)
    /\ row' = row + 1
    /\ UNCHANGED <<bounds, pc, col, conflicts, held, search>>

\* A block of the last layer drops the explicit cores when it is done.
Finish ==
    /\ pc = "identity"
    /\ ~chain.loop \/ row > end
    /\ cores' = IF NoSave THEN <<>> ELSE cores
    /\ pc' = "done"
    /\ UNCHANGED <<bounds, row, col, canonCores, conflicts, held, search>>

\* The next block inherits the cores of its ancestor.
NextBlock ==
    /\ pc = "done"
    /\ layer < Len(chain.own)
    /\ layer' = layer + 1
    /\ skip' = Len(cores)
    /\ pc' = "own"
    /\ row' = 1
    /\ UNCHANGED <<chain, col, collections, end, conflicts, held, search>>

Done == pc = "done" /\ layer = Len(chain.own) /\ UNCHANGED vars

Next ==
    \/ OwnCore \/ OwnDone
    \/ PairInConflict \/ HoldPair \/ NextRow \/ PairsDone
    \/ Subset \/ DontPick \/ Pick \/ CannotPick \/ Unpick \/ SubsetsDone
    \/ AddHeld \/ HeldDone \/ Identity \/ Finish \/ NextBlock
    \/ Done

Spec == Init /\ [][Next]_vars

-----------------------------------------------------------------------------
(* Properties.                                                             *)

\* Every variable has its type, and a core is in conflict with earlier ones only.
TypeOK ==
    /\ chain \in Chains
    /\ layer \in 1..Len(chain.own)
    /\ pc \in {"own", "pairs", "subsets", "held", "identity", "done"}
    /\ row \in Nat \ {0} /\ col \in Nat \ {0}
    /\ cores \in Seq(CPQs) /\ held \in Seq(CPQs)
    /\ skip \in Nat /\ end \in Nat
    /\ pc \in {"pairs", "subsets"} =>
        /\ skip <= end
        /\ conflicts \in [1..end -> SUBSET (1..end)]
        /\ \A i \in 1..end : \A j \in conflicts[i] : j < i
    /\ stack \in Seq([offset : Nat \ {0}, step : {"enter", "left", "picked"}])
    /\ set \in Seq(Nat \ {0})

\* An intersection never has more cores than the limit, more than one inherited
\* core or two that are in conflict (Index.java:1194, 1201), whatever calls of
\* computeIntersectionCores have returned before it.
SelectionAdmissible ==
    /\ Len(set) <= MaxIntersections
    /\ \A i \in DOMAIN set : set[i] <= end
    /\ \A i, j \in DOMAIN set :
        i < j => set[i] < set[j] /\ skip < set[j] /\ set[i] \notin conflicts[set[j]]

(***************************************************************************)
(* What a pruned search has to find: the cores of the intersections, with  *)
(* and in a block of loops also without the identity, of sets of own cores *)
(* of this block and its ancestors.  In each block at most maxIntersections *)
(* cores are intersected, of which one may be inherited.                   *)
(***************************************************************************)
Positions == UNION {{<<k, i>> : i \in DOMAIN chain.own[k]} : k \in 1..layer}
WithinLimit(S) ==
    \A k \in {p[1] : p \in S} :
        Cardinality({p \in S : p[1] = k}) + (IF \E p \in S : p[1] < k THEN 1 ELSE 0) <= MaxIntersections
Meet(S) ==
    [f |-> UNION {chain.own[p[1]][p[2]].f : p \in S}, id |-> \E p \in S : chain.own[p[1]][p[2]].id]
Meets == {Meet(S) : S \in {S \in SUBSET Positions : S # {} /\ WithinLimit(S)}}
Expected == {Core(q) : q \in Meets \cup (IF chain.loop THEN {WithId(q) : q \in Meets} ELSE {})}

\* Skipping intersections of inherited cores, and all supersets of a pair that is in
\* conflict, loses no core and adds none (Index.java:1102, 1137, 1201-1202).
NothingLost == pc = "done" => canonCores = Expected

\* Each core is kept as exactly one CPQ of which it is the core, as long as later
\* blocks inherit it (Index.java:1074-1075, 1099).
CoresMatchForms ==
    /\ TypeOK
    /\ ~NoSave =>
           /\ {Core(cores[i]) : i \in DOMAIN cores} = canonCores
           /\ Len(cores) = Cardinality(canonCores)
=============================================================================
