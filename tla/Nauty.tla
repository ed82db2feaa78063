------------------------------- MODULE Nauty -------------------------------
(***************************************************************************)
(* The native method Nauty.computeCanonSparse on one thread: the binding,  *)
(* sparsenauty and the search tree of nauty() with the options for sparse  *)
(* digraphs.  The recursive calls of firstpathnode0 and othernode0 that    *)
(* are in progress are the frames of a stack, so that every entry of a     *)
(* node, every step to the next child and every return is an action.       *)
(*                                                                         *)
(* The variables but graph, todo and answers are static variables of       *)
(* nauty.c; they keep their values from one call to the next unless the    *)
(* code resets them.  What the options never use is left out: user         *)
(* procedures, the Schreier method, writing to files.                      *)
(***************************************************************************)
EXTENDS Refinement

CONSTANTS
    Workloads,   \* The sequences of graphs a thread canonises,
    MaxPairs     \* the pairs of sets that the workspace holds.

ASSUME PairsAssumption == MaxPairs \in Nat \ {0}
ASSUME WorkloadsAssumption ==
    \A w \in Workloads : w \in Seq(ToSet(w)) /\ \A i \in DOMAIN w : IsColoredGraph(w[i])

VARIABLES
    todo, answers,   \* Graphs still to be asked, and what was answered.
    pc,              \* "idle", "doref", "process", "loop" or "return".
    graph,           \* The graph of the call.
    node,            \* The node entered: [first, level, tc].
    stack,           \* Its ancestors: [first, level, part, tc, tcell, size, tv1, tv, index].
    rtn,             \* The level to return to.
    first,           \* The first leaf: [lab, code, tc].
    bsf,             \* The best leaf so far: [lab, code, level].
    lev,             \* The levels that steer the search, comp_canon and cosetindex.
    canong,          \* The best relabelled graph
    samerows,        \* and how many of its rows are up to date.
    orbits,          \* The orbits found so far,
    grpsize,         \* the size of the group found,
    pairs,           \* the pairs of fixed points and cycle representatives,
    fixedpts,        \* the vertices fixed on the way to this node,
    needshortprune   \* and whether the last pair still is to be applied.

searchVars == <<first, bsf, lev, canong, samerows, orbits, grpsize, pairs, fixedpts, needshortprune>>
vars == <<todo, answers, pc, graph, node, ref, stack, rtn, searchVars>>

n == Cardinality(Vertices(graph))
Top == stack[Len(stack)]

Init ==
    /\ todo \in Workloads
    /\ answers = <<>>
    /\ pc = "idle"
    /\ graph = [adj |-> <<>>, cells |-> <<>>]
    /\ node = [first |-> FALSE, level |-> 0, tc |-> -1]
    /\ ref = StartDoref(<<>>, {}, 0)
    /\ stack = <<>>
    /\ rtn = 0
    /\ first = [lab |-> <<>>, code |-> <<>>, tc |-> <<>>]
    /\ bsf = [lab |-> <<>>, code |-> <<>>, level |-> 0]
    /\ lev = [gca_first |-> 0, gca_canon |-> 0, eqlev_first |-> 0, eqlev_canon |-> 0,
              comp_canon |-> 0, noncheaplevel |-> 0, allsamelevel |-> 0, cosetindex |-> 0]
    /\ canong = <<>>
    /\ samerows = 0
    /\ orbits = <<>>
    /\ grpsize = 0
    /\ pairs = <<>>
    /\ fixedpts = {}
    /\ needshortprune = FALSE

-----------------------------------------------------------------------------
(* The binding and the beginning of nauty().                               *)

\* canong and the arrays of codes keep what an earlier call left in them.
ComputeCanonSparse ==
    LET G == Head(todo)
        part == PartOf(G)
    IN  /\ pc = "idle"
        /\ todo # <<>>
        /\ todo' = Tail(todo)
        /\ graph' = G
        /\ node' = [first |-> TRUE, level |-> 1, tc |-> -1]
        /\ ref' = StartDoref(part, CellStarts(part), 1)
        /\ pc' = "doref"
        /\ stack' = <<>>
        /\ lev' = [lev EXCEPT !.noncheaplevel = 1, !.eqlev_canon = -1]
        /\ orbits' = [x \in Vertices(G) |-> x]
        /\ grpsize' = 1
        /\ pairs' = <<>>
        /\ fixedpts' = {}
        /\ needshortprune' = FALSE
        /\ UNCHANGED <<answers, rtn, first, bsf, canong, samerows>>

-----------------------------------------------------------------------------
(* Helpers of the search.                                                  *)

\* An array of codes or target cells with position k set.
Put(array, k, x) == [i \in DOMAIN array \cup {k} |-> IF i = k THEN x ELSE array[i]]

\* targetcell_sg for a digraph: the hint if a cell of more than one vertex
\* starts there, otherwise the first such cell.
TargetCell(part, hint) ==
    IF hint \in CellStarts(part) /\ CellSize(part, hint) > 1 THEN hint
    ELSE Min({c \in CellStarts(part) : CellSize(part, c) > 1})

\* breakout: the vertex tv in a cell of its own before the rest of its cell.
Breakout(part, tv) ==
    [x \in DOMAIN part |-> IF part[x] = part[tv] /\ x # tv THEN part[x] + 1 ELSE part[x]]

\* orbjoin: the orbits joined along a permutation, named by their least vertex.
Orbjoin_Once(orb, perm) == [x \in DOMAIN orb |-> Min({orb[x], orb[perm[x]]})]
Orbjoin(orb, perm) ==
    LET join(o, x) ==
            LET y == perm[x]
            IN  [z \in {z \in DOMAIN o : o[z] \in {o[x], o[y]}} |-> Min({o[x], o[y]})] @@ o
    IN  FoldLeft(join, orb, Ascending(DOMAIN orb))

\* The pairs of fixed points and least points of the cycles of a permutation,
\* and of a partition at whose cells all orderings are equivalent.
Fmperm(perm) ==
    LET cycle == Orbjoin([x \in DOMAIN perm |-> x], perm)
    IN  <<{x \in DOMAIN perm : perm[x] = x}, {x \in DOMAIN perm : cycle[x] = x}>>

Fmptn(part) ==
    <<{x \in DOMAIN part : CellSize(part, part[x]) = 1},
      {x \in DOMAIN part : x = Min(CellAt(part, part[x]))}>>

\* A full workspace has its last pair overwritten.
Store(pair) ==
    IF Len(pairs) = MaxPairs THEN Append(Front(pairs), pair) ELSE Append(pairs, pair)

Shortprune(tcell) == IF needshortprune THEN tcell \cap pairs[Len(pairs)][2] ELSE tcell

\* All pairs whose fixed points include the vertices fixed so far apply.
Longprune(tcell, fixed) ==
    {x \in tcell : \A i \in DOMAIN pairs : fixed \subseteq pairs[i][1] => x \in pairs[i][2]}

Automorphic(perm) == \A x \in Vertices(graph) : graph.adj[perm[x]] = {perm[y] : y \in graph.adj[x]}

\* updatecan_sg: the rows of the relabelled graph from row same on.
UpdateCan(lab, same) ==
    [i \in 0..(n - 1) |-> IF i < same THEN canong[i] ELSE CanonRow(graph, lab, i)]

\* testcanlab_sg: the first row that differs decides, first by its length and
\* then by the least of the vertices that only one of the rows holds.
TestCanlab(can, lab) ==
    LET rows == Relabel(graph, lab)
        differ == {i \in 0..(n - 1) : rows[i] # can[i]}
        i == Min(differ)
        only == Min((rows[i] \ can[i]) \cup (can[i] \ rows[i]))
    IN  IF differ = {} THEN [comp |-> 0, same |-> n]
        ELSE [same |-> i,
              comp |-> IF Cardinality(rows[i]) # Cardinality(can[i])
                       THEN IF Cardinality(can[i]) < Cardinality(rows[i]) THEN -1 ELSE 1
                       ELSE IF only \in can[i] THEN -1 ELSE 1]

\* recover: back at a level nothing below it is known.
Recover(l, level) ==
    [l EXCEPT !.noncheaplevel = IF level < @ THEN level + 1 ELSE @,
              !.eqlev_first = IF level < @ THEN level ELSE @,
              !.gca_canon = IF level < @ THEN level ELSE @,
              !.comp_canon = IF level <= l.eqlev_canon THEN 0 ELSE @,
              !.eqlev_canon = IF level <= @ THEN level ELSE @]

Return(level) == pc' = "return" /\ rtn' = level

-----------------------------------------------------------------------------
(* firstpathnode0: the nodes on the way to the first leaf.                 *)

Sentinel == \o77777

RefineNode ==
    /\ pc = "doref"
    /\ Doref(graph)
    /\ UNCHANGED <<todo, answers, pc, graph, node, stack, rtn, searchVars>>

Refined == pc = "doref" /\ ref.step = "done"

\* The frame of a node whose children are to be produced.
Frame(tc) ==
    [first |-> node.first, level |-> node.level, part |-> ref.part, tc |-> tc,
     tcell |-> CellAt(ref.part, tc), size |-> CellSize(ref.part, tc), tv1 |-> -1, tv |-> -1, index |-> 0]

FirstPathNode ==
    LET tc == TargetCell(ref.part, -1)
    IN  /\ Refined
        /\ node.first
        /\ ~Discrete(ref.part)
        /\ first' = [first EXCEPT !.code = Put(@, node.level, ref.code), !.tc = Put(@, node.level, tc)]
        /\ lev' = [lev EXCEPT !.noncheaplevel = IF @ >= node.level THEN node.level + 1 ELSE @]
        /\ stack' = Append(stack, Frame(tc))
        /\ pc' = "loop"
        /\ UNCHANGED <<todo, answers, graph, node, ref, rtn, bsf, canong, samerows, orbits, grpsize, pairs,
                       fixedpts, needshortprune>>

\* firstterminal: the first leaf is the best so far.
ResetSamerows_Keep == samerows
ResetSamerows == 0

FirstTerminal ==
    LET level == node.level
        code == Put(Put(first.code, level, ref.code), level + 1, Sentinel)
    IN  /\ Refined
        /\ node.first
        /\ Discrete(ref.part)
        /\ first' = [lab |-> LabOf(ref.part), code |-> code, tc |-> Put(Put(first.tc, level, -1), level + 1, -1)]
        /\ bsf' = [lab |-> LabOf(ref.part), level |-> level,
                   code |-> [i \in DOMAIN bsf.code \cup 1..(level + 1) |->
                                IF i <= level + 1 THEN code[i] ELSE bsf.code[i]]]
        /\ lev' = [lev EXCEPT !.gca_first = level, !.allsamelevel = level, !.eqlev_first = level,
                              !.eqlev_canon = level, !.gca_canon = level, !.comp_canon = 0]
        /\ samerows' = ResetSamerows
        /\ Return(level - 1)
        /\ UNCHANGED <<todo, answers, graph, node, ref, stack, canong, orbits, grpsize, pairs, fixedpts,
                       needshortprune>>

\* The vertices of the target cell that are left.
Rest == {x \in Top.tcell : x > Top.tv}
NextTv == Min(Rest)

Descend(tv, firstPath) ==
    /\ stack' = [stack EXCEPT ![Len(stack)].tv = tv, ![Len(stack)].tv1 = IF @ = -1 THEN tv ELSE @]
    /\ node' = [first |-> firstPath, level |-> Top.level + 1, tc |-> -1]
    /\ ref' = StartDoref(Breakout(Top.part, tv), {Top.tc}, Top.level + 1)
    /\ fixedpts' = fixedpts \cup {tv}
    /\ pc' = "doref"

\* Only one vertex of an orbit is fixed, and the first child is on the first path.
FirstPathChild ==
    /\ pc = "loop"
    /\ Top.first
    /\ Rest # {}
    /\ orbits[NextTv] = NextTv
    /\ Descend(NextTv, Top.tv1 = -1)
    /\ lev' = [lev EXCEPT !.cosetindex = NextTv]
    /\ UNCHANGED <<todo, answers, graph, rtn, first, bsf, canong, samerows, orbits, grpsize, pairs,
                   needshortprune>>

FirstPathSkip ==
    /\ pc = "loop"
    /\ Top.first
    /\ Rest # {}
    /\ orbits[NextTv] # NextTv
    /\ stack' = [stack EXCEPT ![Len(stack)].tv = NextTv,
                              ![Len(stack)].index = IF orbits[NextTv] = Top.tv1 THEN @ + 1 ELSE @]
    /\ UNCHANGED <<todo, answers, pc, graph, node, ref, rtn, searchVars>>

\* The orbit of the first child under the stabiliser is complete.
FirstPathEnd ==
    /\ pc = "loop"
    /\ Top.first
    /\ Rest = {}
    /\ grpsize' = grpsize * Top.index
    /\ lev' = [lev EXCEPT !.allsamelevel = IF Top.size = Top.index /\ @ = Top.level + 1 THEN @ - 1 ELSE @]
    /\ stack' = Front(stack)
    /\ Return(Top.level - 1)
    /\ UNCHANGED <<todo, answers, graph, node, ref, first, bsf, canong, samerows, orbits, pairs, fixedpts,
                   needshortprune>>

\* Back from the first child, this node is where the next nodes leave the path.
Ancestor(l) == IF Top.tv = Top.tv1 THEN [l EXCEPT !.gca_first = Top.level] ELSE l

FirstPathReturn ==
    /\ pc = "return"
    /\ stack # <<>>
    /\ Top.first
    /\ rtn >= Top.level
    /\ fixedpts' = fixedpts \ {Top.tv}
    /\ lev' = Recover(Ancestor(lev), Top.level)
    /\ stack' = [stack EXCEPT ![Len(stack)].tcell = Shortprune(@),
                              ![Len(stack)].index = IF orbits[Top.tv] = Top.tv1 THEN @ + 1 ELSE @]
    /\ needshortprune' = FALSE
    /\ pc' = "loop"
    /\ UNCHANGED <<todo, answers, graph, node, ref, rtn, first, bsf, canong, samerows, orbits, grpsize, pairs>>

\* A return to a level further up.
PassReturn ==
    /\ pc = "return"
    /\ stack # <<>>
    /\ rtn < Top.level
    /\ fixedpts' = fixedpts \ {Top.tv}
    /\ lev' = IF Top.first THEN Ancestor(lev) ELSE lev
    /\ stack' = Front(stack)
    /\ UNCHANGED <<todo, answers, pc, graph, node, ref, rtn, first, bsf, canong, samerows, orbits, grpsize,
                   pairs, needshortprune>>

-----------------------------------------------------------------------------
(* othernode0: every other node.                                           *)

\* How its code compares with those of the first and the best leaf.
CompareCode_FirstOnly(code) ==
    [lev EXCEPT !.eqlev_first = IF @ = node.level - 1 /\ code = first.code[node.level] THEN node.level ELSE @,
                !.eqlev_canon = IF @ = node.level - 1 THEN node.level ELSE @]
CompareCode(code) ==
    LET level == node.level
        new == lev.eqlev_canon = level - 1
        comp == IF ~new THEN lev.comp_canon
                ELSE IF code < bsf.code[level] THEN -1
                ELSE IF code > bsf.code[level] THEN 1
                ELSE 0
    IN  [lev EXCEPT !.eqlev_first = IF @ = level - 1 /\ code = first.code[level] THEN level ELSE @,
                    !.comp_canon = comp,
                    !.eqlev_canon = IF new /\ comp = 0 THEN level ELSE @]

OtherNode ==
    LET level == node.level
        l == CompareCode(ref.code)
        tc == IF Discrete(ref.part) \/ (l.eqlev_first # level /\ l.comp_canon < 0) THEN -1
              ELSE TargetCell(ref.part, IF l.comp_canon < 0 THEN first.tc[level] ELSE -1)
    IN  /\ Refined
        /\ ~node.first
        /\ lev' = IF tc # -1 /\ l.comp_canon < 0 /\ tc # first.tc[level]
                  THEN [l EXCEPT !.eqlev_first = level - 1] ELSE l
        /\ bsf' = IF l.comp_canon > 0 THEN [bsf EXCEPT !.code = Put(@, level, ref.code)] ELSE bsf
        /\ node' = [node EXCEPT !.tc = tc]
        /\ pc' = "process"
        /\ UNCHANGED <<todo, answers, graph, ref, stack, rtn, first, canong, samerows, orbits, grpsize, pairs,
                       fixedpts, needshortprune>>

(***************************************************************************)
(* processnode.  A node worse than both leaves is of type 4, any other     *)
(* that is no leaf of type 0.  A leaf equivalent to the first is of type   *)
(* 1, otherwise it is compared with the best leaf so far.                  *)
(***************************************************************************)
Worse == lev.eqlev_first # node.level /\ lev.comp_canon < 0
Leaf == Discrete(ref.part)
Lab == LabOf(ref.part)
\* The permutation that takes a leaf to this one.
PermFrom(leaf) == [x \in DOMAIN leaf |-> Lab[InverseLab(leaf)[x]]]

LikeFirst ==
    /\ lev.eqlev_first = node.level
    /\ lev.gca_first >= lev.noncheaplevel \/ Automorphic(PermFrom(first.lab))

\* The comparison with the best leaf, and canong with its count of rows after it.
Comparison ==
    LET current == UpdateCan(bsf.lab, samerows)
        t == TestCanlab(current, Lab)
    IN  IF lev.comp_canon # 0 THEN [comp |-> lev.comp_canon, sr |-> 0, can |-> canong, same |-> samerows]
        ELSE IF node.level < bsf.level THEN [comp |-> 1, sr |-> 0, can |-> canong, same |-> samerows]
        ELSE [comp |-> t.comp, sr |-> t.same, can |-> current, same |-> n]

ProcessInternal ==
    /\ pc = "process"
    /\ ~Worse
    /\ ~Leaf
    /\ stack' = Append(stack, [Frame(node.tc) EXCEPT !.tcell = Shortprune(@)])
    /\ needshortprune' = FALSE
    /\ lev' = [lev EXCEPT !.noncheaplevel = node.level + 1]
    /\ pc' = "loop"
    /\ UNCHANGED <<todo, answers, graph, node, ref, rtn, first, bsf, canong, samerows, orbits, grpsize, pairs,
                   fixedpts>>

ProcessLikeFirst ==
    LET perm == PermFrom(first.lab)
    IN  /\ pc = "process"
        /\ ~Worse
        /\ Leaf
        /\ LikeFirst
        /\ pairs' = Store(Fmperm(perm))
        /\ orbits' = Orbjoin(orbits, perm)
        /\ Return(lev.gca_first)
        /\ UNCHANGED <<todo, answers, graph, node, ref, stack, first, bsf, lev, canong, samerows, grpsize,
                       fixedpts, needshortprune>>

ProcessLikeBest ==
    LET perm == PermFrom(bsf.lab)
        c == Comparison
        joined == Orbjoin(orbits, perm)
        toFirst == joined # orbits /\ joined[lev.cosetindex] < lev.cosetindex
    IN  /\ pc = "process"
        /\ ~Worse
        /\ Leaf
        /\ ~LikeFirst
        /\ c.comp = 0
        /\ canong' = c.can
        /\ samerows' = c.same
        /\ lev' = [lev EXCEPT !.comp_canon = 0]
        /\ pairs' = Store(Fmperm(perm))
        /\ orbits' = joined
        /\ needshortprune' = (needshortprune \/ (~toFirst /\ lev.gca_canon # lev.gca_first))
        /\ Return(IF toFirst THEN lev.gca_first ELSE lev.gca_canon)
        /\ UNCHANGED <<todo, answers, graph, node, ref, stack, first, bsf, grpsize, fixedpts>>

\* The return from a leaf without an automorphism, with the levels l.
LeaveLeaf(l) ==
    LET level == node.level
        save == IF l.allsamelevel > l.eqlev_canon THEN l.allsamelevel - 1 ELSE l.eqlev_canon
        newlevel == IF l.noncheaplevel <= save THEN l.noncheaplevel - 1 ELSE save
        ispruneok == level # l.noncheaplevel
    IN  /\ pairs' = IF ispruneok THEN Store(Fmptn(stack[l.noncheaplevel].part)) ELSE pairs
        /\ needshortprune' = (needshortprune \/ (ispruneok /\ newlevel # l.gca_first))
        /\ Return(newlevel)

ProcessBetter ==
    LET c == Comparison
        level == node.level
        l == [lev EXCEPT !.eqlev_canon = level, !.gca_canon = level, !.comp_canon = 0]
    IN  /\ pc = "process"
        /\ ~Worse
        /\ Leaf
        /\ ~LikeFirst
        /\ c.comp > 0
        /\ bsf' = [lab |-> Lab, level |-> level, code |-> Put(bsf.code, level + 1, Sentinel)]
        /\ canong' = c.can
        /\ samerows' = c.sr
        /\ lev' = l
        /\ LeaveLeaf(l)
        /\ UNCHANGED <<todo, answers, graph, node, ref, stack, first, orbits, grpsize, fixedpts>>

ProcessWorse ==
    LET c == Comparison
        compared == ~Worse
    IN  /\ pc = "process"
        /\ Worse \/ (Leaf /\ ~LikeFirst /\ c.comp < 0)
        /\ canong' = IF compared THEN c.can ELSE canong
        /\ samerows' = IF compared THEN c.same ELSE samerows
        /\ lev' = IF compared THEN [lev EXCEPT !.comp_canon = c.comp] ELSE lev
        /\ LeaveLeaf(lev')
        /\ UNCHANGED <<todo, answers, graph, node, ref, stack, first, bsf, orbits, grpsize, fixedpts>>

OtherChild ==
    /\ pc = "loop"
    /\ ~Top.first
    /\ Rest # {}
    /\ Descend(NextTv, FALSE)
    /\ UNCHANGED <<todo, answers, graph, rtn, first, bsf, lev, canong, samerows, orbits, grpsize, pairs,
                   needshortprune>>

OtherEnd ==
    /\ pc = "loop"
    /\ ~Top.first
    /\ Rest = {}
    /\ stack' = Front(stack)
    /\ Return(Top.level - 1)
    /\ UNCHANGED <<todo, answers, graph, node, ref, searchVars>>

\* After the first child all stored pairs prune the target cell.
OtherReturn ==
    LET fixed == fixedpts \ {Top.tv}
        short == Shortprune(Top.tcell)
    IN  /\ pc = "return"
        /\ stack # <<>>
        /\ ~Top.first
        /\ rtn >= Top.level
        /\ fixedpts' = fixed
        /\ stack' = [stack EXCEPT ![Len(stack)].tcell =
                        IF Top.tv = Top.tv1 THEN Longprune(short, fixed) ELSE short]
        /\ needshortprune' = FALSE
        /\ lev' = Recover(lev, Top.level)
        /\ pc' = "loop"
        /\ UNCHANGED <<todo, answers, graph, node, ref, rtn, first, bsf, canong, samerows, orbits, grpsize,
                       pairs>>

-----------------------------------------------------------------------------
(* The end of nauty() and of the native method.                            *)

Answer ==
    /\ pc = "return"
    /\ stack = <<>>
    /\ canong' = UpdateCan(bsf.lab, samerows)
    /\ answers' = Append(answers, [graph |-> graph, lab |-> bsf.lab])
    /\ pc' = "idle"
    /\ UNCHANGED <<todo, graph, node, ref, stack, rtn, first, bsf, lev, samerows, orbits, grpsize, pairs,
                   fixedpts, needshortprune>>

Working == pc # "idle" \/ todo # <<>>
Done == ~Working /\ UNCHANGED vars

Next ==
    \/ ComputeCanonSparse
    \/ RefineNode
    \/ FirstPathNode \/ FirstTerminal \/ FirstPathChild \/ FirstPathSkip \/ FirstPathEnd
    \/ FirstPathReturn \/ PassReturn
    \/ OtherNode \/ OtherChild \/ OtherEnd \/ OtherReturn
    \/ ProcessInternal \/ ProcessLikeFirst \/ ProcessLikeBest \/ ProcessBetter \/ ProcessWorse
    \/ Answer
    \/ Done

(***************************************************************************)
(* The thread goes on while it has work.  This is WF_vars(Next) with its   *)
(* ENABLED written out, which TLC is too slow to find for the actions of   *)
(* Refinement: Next has a step while Working, as TLC finds no deadlock,    *)
(* and only Done leaves every variable as it is.                           *)
(***************************************************************************)
Fairness == <>[]~Working \/ []<><<Next>>_vars

Spec == Init /\ [][Next]_vars /\ Fairness

-----------------------------------------------------------------------------
(* Properties.                                                             *)

\* Every variable has its type.
TypeOK ==
    /\ pc \in {"idle", "doref", "process", "loop", "return"}
    /\ node.level \in 0..(n + 1) /\ rtn \in 0..n
    /\ \A i \in DOMAIN stack :
           /\ stack[i].level = i
           /\ stack[i].tcell \subseteq CellAt(stack[i].part, stack[i].tc)
           /\ stack[i].tv \in CellAt(stack[i].part, stack[i].tc) \cup {-1}
    /\ Len(pairs) <= MaxPairs
    /\ lev.comp_canon \in -1..1
    /\ samerows \in Nat

\* In a call, once the first leaf is found.
Searching == pc # "idle" /\ lev.eqlev_canon # -1

\* Every partition whose cells the search splits is equitable (refine_sg,
\* nausparse.c:642-657): the vertices of a cell have equally many predecessors
\* in each cell, although of the fragments of a split cell one is not activated.
Equitable ==
    pc = "loop" =>
        \A c \in CellStarts(Top.part) : \A x, y \in DOMAIN Top.part :
            Top.part[x] = Top.part[y] =>
                Cardinality({z \in CellAt(Top.part, c) : x \in graph.adj[z]})
                    = Cardinality({z \in CellAt(Top.part, c) : y \in graph.adj[z]})

\* The rows of canong that samerows counts belong to the best leaf, although it
\* changes often and canong is brought up to date only when it is compared
\* (nauty.c:132-133, whose author asks if this is the correct description).
RowsCorrect ==
    /\ TypeOK
    /\ Searching => \A i \in 0..(Min({samerows, n}) - 1) : canong[i] = CanonRow(graph, bsf.lab, i)

\* The stored pairs and the orbits prune children that are never visited, so what
\* the search reports tells if that was right: when it ends the orbits are those of
\* all automorphisms, named by their least vertex, and it has counted them
\* (nauty.c:216-218, 733-765).
GroupExact ==
    (pc = "return" /\ stack = <<>>) =>
        LET group == Automorphisms(graph)
        IN  /\ grpsize = Cardinality(group)
            /\ \A x \in Vertices(graph) : orbits[x] = Min({p[x + 1] : p \in group})

\* A call is asked until it is answered.
Unanswered == IF pc = "idle" THEN todo ELSE <<graph>> \o todo
Abstract == INSTANCE Canonizer WITH todo <- Unanswered

\* The labellings are those of a canonizer (Nauty.java:47-64): they respect the
\* colours, and graphs that are the same up to the names of their vertices become
\* the same graph, whatever the thread canonised before.
CanonizerSpec == Abstract!Spec

\* The search tree is finite, and every call of the native method returns.
CallsReturn == <>~Working
=============================================================================
