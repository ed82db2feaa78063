------------------------------ MODULE Schreier ------------------------------
(***************************************************************************)
(* schreier.c: what is known of a permutation group, kept as a ring of     *)
(* permutations and a chain of levels.  A level fixes one point more than  *)
(* the one above it; it holds the orbits known of the group that fixes the *)
(* points above, and a tree whose edges, powers of permutations of the     *)
(* ring, take every point of it to the point the level fixes.              *)
(*                                                                         *)
(* A permutation that the trees point to is counted by its node.  A node   *)
(* is marked if the group needs it; one that is not marked is deleted with *)
(* the last reference to it, and its memory is used again.                 *)
(*                                                                         *)
(* Queries filter random products of the ring's permutations until a       *)
(* number of them in a row teach nothing; each is a step here.             *)
(***************************************************************************)
EXTENDS Integers, Sequences, FiniteSets, TLC, SequencesExt, FiniteSetsExt

CONSTANTS
    Workloads,   \* Groups to work on: [n, perms, bases, sets, calls].
    Fails,       \* schreierfails, the failures that end the filtering.
    MaxOrder     \* A bound on the orders of the groups.

ASSUME FailsAssumption == Fails \in Nat \ {0}
ASSUME MaxOrderAssumption == MaxOrder \in Nat 

VARIABLES
    work,     \* The workload.
    mem,      \* The structure: nodes, ring, the free list of nodes and the levels gp.
    call,     \* The query in progress, or NoCall.
    answer,   \* What the last query returned, or NoCall.
    group,    \* All permutations of the group: what the added ones generate.
    calls     \* The calls made.

vars == <<work, mem, call, answer, group, calls>>

NULL == 0
ID_PERMNODE == -1
NoCall == [op |-> "none"]

Point == 0..(work.n - 1)
Id == [x \in Point |-> x]
Then(p, q) == [x \in Point |-> q[p[x]]]

\* The group that a set of permutations generates.
Closure(S) ==
    LET grow(c, i) ==
            LET next == {Then(p, q) : p \in c.new, q \in S} \ c.all
            IN  [all |-> c.all \cup next, new |-> next]
    IN  FoldLeft(grow, [all |-> {Id}, new |-> {Id}], [i \in 1..MaxOrder |-> i]).all

UpTo(from, to) == [i \in 1..(to - from + 1) |-> from + i - 1]
Sorted(S) == [i \in 1..Cardinality(S) |-> CHOOSE x \in S : Cardinality({y \in S : y < x}) = i - 1]

-----------------------------------------------------------------------------
(* applyperm: p applied k times after wp, in three ways.                   *)

Repeat(wp, p, k) == FoldLeft(LAMBDA w, i : Then(w, p), wp, UpTo(1, k))

ByCubes(wp, p, k) ==
    LET cube == Repeat(Id, p, 3)
    IN  Repeat(Repeat(Repeat(wp, cube, 2 * (k \div 6)), cube, (k % 6) \div 3), p, k % 3)

\* The image of x under k times p.
Image(p, x, k) == LET at[i \in 0..k] == IF i = 0 THEN x ELSE p[at[i - 1]] IN at[k]

\* The cycle of p through x, from x on.
Cycle(p, x) ==
    LET image == [k \in 0..work.n |-> Image(p, x, k)]
        length == Min({k \in 1..work.n : image[k] = x})
    IN  [k \in 1..length |-> image[k - 1]]

ByCycles(p, k) == [x \in Point |-> LET c == Cycle(p, x) IN c[(k % Len(c)) + 1]]

Applyperm(wp, p, k) ==
    IF k <= 5 THEN Repeat(wp, p, k)
    ELSE IF k <= 19 THEN ByCubes(wp, p, k)
    ELSE Then(wp, ByCycles(p, k))

-----------------------------------------------------------------------------
(* The ring of permutations, as the sequence of its nodes from the head    *)
(* on, and the list of free nodes.  A node that is no longer in use keeps  *)
(* its number while it is on the free list.                                *)

NewNode(m) ==
    IF m.free # <<>> THEN Head(m.free)
    ELSE LET used == DOMAIN m.nodes IN Min((1..(Cardinality(used) + 1)) \ used)

\* addpermutation and addpermutationunmarked: the new node follows the old head.
AddPermutation(m, p, mark) ==
    LET id == NewNode(m)
    IN  [m EXCEPT !.nodes = (id :> [p |-> p, refcount |-> 0, mark |-> mark]) @@ @,
                  !.free = IF @ = <<>> THEN @ ELSE Tail(@),
                  !.ring = IF @ = <<>> THEN <<id>> ELSE <<id>> \o Tail(@) \o <<Head(@)>>]

\* delpermnode: the node at the head of the ring.
Delpermnode(m) ==
    LET id == Head(m.ring)
    IN  [m EXCEPT !.nodes = [i \in DOMAIN @ \ {id} |-> @[i]],
                  !.ring = Tail(@),
                  !.free = <<id>> \o @]

Rotated(ring, id) ==
    LET i == CHOOSE i \in DOMAIN ring : ring[i] = id
    IN  SubSeq(ring, i, Len(ring)) \o SubSeq(ring, 1, i - 1)

\* Give back one reference to a node.
Release(m, id) ==
    LET counted == [m EXCEPT !.nodes[id].refcount = @ - 1]
    IN  IF counted.nodes[id].refcount = 0 /\ ~counted.nodes[id].mark
        THEN Delpermnode([counted EXCEPT !.ring = Rotated(@, id)])
        ELSE counted

Clearvector_Uncounted(m, l) == [m EXCEPT !.gp[l].vec = [x \in Point |-> NULL], !.gp[l].pwr = [x \in Point |-> 0]]
Clearvector(m, l) ==
    LET held == SelectSeq(UpTo(0, work.n - 1), LAMBDA x : m.gp[l].vec[x] \notin {NULL, ID_PERMNODE})
        released == FoldLeft(LAMBDA c, x : Release(c, m.gp[l].vec[x]), m, held)
    IN  [released EXCEPT !.gp[l].vec = [x \in Point |-> NULL], !.gp[l].pwr = [x \in Point |-> 0]]

\* deleteunmarked: the first marked node becomes the head.
Deleteunmarked(m) ==
    LET kept == SelectSeq(m.ring, LAMBDA id : m.nodes[id].mark)
        dropped == SelectSeq(m.ring, LAMBDA id : ~m.nodes[id].mark)
    IN  [m EXCEPT !.nodes = [id \in ToSet(kept) |-> @[id]], !.ring = kept, !.free = Reverse(dropped) \o @]

\* initschreier, and the level that fixes x.
FreshLevel(x) ==
    [fixed |-> x, orbits |-> Id, pwr |-> [y \in Point |-> 0],
     vec |-> [y \in Point |-> IF y = x THEN ID_PERMNODE ELSE NULL]]

Newgroup(m) == [m EXCEPT !.gp = <<FreshLevel(-1)>>]

-----------------------------------------------------------------------------
(* filterschreier.  Its state is mem, the permutation wp as far as it has  *)
(* been stripped, the node curr that holds wp, whether wp is known to be   *)
(* in the group, whether anything changed, and whether it is over.         *)

\* The orbits joined along a permutation, each named by its least point.
Joined(orbits, p) ==
    LET join(o, x) ==
            LET ends == {o[x], o[p[x]]}
            IN  [y \in Point |-> IF o[y] \in ends THEN Min(ends) ELSE o[y]]
    IN  FoldLeft(join, orbits, UpTo(0, work.n - 1))

Adopt_Unmarked(s) ==
    LET m == AddPermutation(s.m, s.wp, FALSE)
    IN  IF s.curr # NULL THEN s ELSE [s EXCEPT !.m = m, !.curr = Head(m.ring), !.ingroup = TRUE]

\* The permutation that extends a tree enters the ring, unless it is there.
Adopt(s) ==
    IF s.curr # NULL THEN s
    ELSE LET m == AddPermutation(s.m, s.wp, ~s.ingroup)
         IN  [s EXCEPT !.m = m, !.curr = Head(m.ring), !.ingroup = TRUE]

ExtendAt_PowersUp(s, l, x) ==
    LET vec == s.m.gp[l].vec
        image == [k \in 0..work.n |-> Image(s.wp, x, k)]
        ipwr == Min({k \in 1..work.n : vec[image[k]] # NULL}) - 1
        chain == {image[k] : k \in 1..ipwr}
        t == Adopt(s)
    IN  IF vec[x] = NULL \/ ipwr = 0 THEN s
        ELSE [t EXCEPT !.changed = TRUE,
                       !.m.gp[l].vec = [y \in chain |-> t.curr] @@ @,
                       !.m.gp[l].pwr = [y \in chain |-> CHOOSE k \in 1..ipwr : image[k] = y] @@ @,
                       !.m.nodes[t.curr].refcount = @ + ipwr]

\* The points that wp takes x through before it meets the tree again hang from there.
ExtendAt(s, l, x) ==
    LET vec == s.m.gp[l].vec
        image == [k \in 0..work.n |-> Image(s.wp, x, k)]
        ipwr == Min({k \in 1..work.n : vec[image[k]] # NULL}) - 1
        chain == {image[k] : k \in 1..ipwr}
        power == [y \in chain |-> 1 + ipwr - CHOOSE k \in 1..ipwr : image[k] = y]
        t == Adopt(s)
    IN  IF vec[x] = NULL \/ ipwr = 0 THEN s
        ELSE [t EXCEPT !.changed = TRUE,
                       !.m.gp[l].vec = [y \in chain |-> t.curr] @@ @,
                       !.m.gp[l].pwr = power @@ @,
                       !.m.nodes[t.curr].refcount = @ + ipwr]

ExtendTree(s, l) == FoldLeft(LAMBDA t, x : ExtendAt(t, l, x), s, UpTo(0, work.n - 1))

\* The tree takes the image of the fixed point back to it.
StripOnce(s, l) ==
    LET level == s.m.gp[l]
        j == s.wp[level.fixed]
    IN  IF j = level.fixed THEN s
        ELSE [s EXCEPT !.wp = Applyperm(@, s.m.nodes[level.vec[j]].p, level.pwr[j]), !.curr = NULL]

Strip(s, l) == FoldLeft(LAMBDA t, i : StripOnce(t, l), s, UpTo(1, work.n))

FilterLevel_UntilKnown(s, l) ==
    LET orbits == Joined(s.m.gp[l].orbits, s.wp)
        known == orbits = s.m.gp[l].orbits
        t == [s EXCEPT !.m.gp[l].orbits = orbits, !.changed = @ \/ ~known]
    IN  IF s.over \/ s.wp = Id THEN [s EXCEPT !.over = TRUE]
        ELSE IF known \/ s.m.gp[l].fixed = -1 THEN [t EXCEPT !.over = TRUE]
        ELSE Strip(ExtendTree(t, l), l)

FilterLevel(s, l) ==
    LET orbits == Joined(s.m.gp[l].orbits, s.wp)
        t == [s EXCEPT !.m.gp[l].orbits = orbits, !.changed = @ \/ orbits # s.m.gp[l].orbits]
    IN  IF s.over \/ s.wp = Id THEN [s EXCEPT !.over = TRUE]
        ELSE IF s.m.gp[l].fixed = -1 THEN [t EXCEPT !.over = TRUE]
        ELSE Strip(ExtendTree(t, l), l)

\* atHead: p is the array of the permutation at the head of the ring itself.
Filterschreier(m, p, ingroup, atHead) ==
    LET start == [m |-> m, wp |-> p, curr |-> IF atHead THEN Head(m.ring) ELSE NULL,
                  ingroup |-> ingroup \/ atHead, changed |-> FALSE, over |-> FALSE]
        s == FoldLeft(FilterLevel, start, UpTo(1, Len(m.gp)))
    IN  IF s.wp # Id /\ ~s.ingroup
        THEN [m |-> AddPermutation(s.m, p, TRUE), changed |-> TRUE]
        ELSE [m |-> s.m, changed |-> s.changed]

-----------------------------------------------------------------------------
(* The base of the levels, and what can be read from them.                 *)

\* Levels that already exist keep their orbits.
Rebase_Kept(m, k, points) ==
    LET cleared == FoldLeft(Clearvector, m, UpTo(k + 1, Len(m.gp)))
        first == [cleared.gp[k + 1] EXCEPT !.fixed = points[1], !.vec[points[1]] = ID_PERMNODE]
        fresh(i) == FreshLevel(IF i = Len(points) THEN -1 ELSE points[i + 1])
        old(i) == [fresh(i) EXCEPT !.orbits = m.gp[k + 1 + i].orbits]
        below == [i \in 1..Len(points) |-> IF k + 1 + i <= Len(m.gp) THEN old(i) ELSE fresh(i)]
    IN  [cleared EXCEPT !.gp = SubSeq(@, 1, k) \o <<first>> \o below]

\* The level k+1 fixes the first of points, and fresh levels below it the others.
Rebase(m, k, points) ==
    LET cleared == FoldLeft(Clearvector, m, UpTo(k + 1, Len(m.gp)))
        first == [cleared.gp[k + 1] EXCEPT !.fixed = points[1], !.vec[points[1]] = ID_PERMNODE]
        below == [i \in 1..Len(points) |-> FreshLevel(IF i = Len(points) THEN -1 ELSE points[i + 1])]
    IN  [cleared EXCEPT !.gp = SubSeq(@, 1, k) \o <<first>> \o below]

\* The levels from the top that fix the points of fix, in order.
KnownPrefix(m, fix) == Max({k \in 0..Len(fix) : \A i \in 1..k : m.gp[i].fixed = fix[i]})

\* The points of S in the order of the levels that fix them, and then the others.
BaseOf(m, S) ==
    LET k == Max({k \in 0..(Len(m.gp) - 1) : \A i \in 1..k : m.gp[i].fixed \in S})
        known == [i \in 1..k |-> m.gp[i].fixed]
    IN  known \o Sorted(S \ ToSet(known))

\* The orbits that fix the first k points of the base.
OrbitsAt(m, k) == m.gp[k + 1].orbits

\* The levels whose orbits show that the next point of the base is not minimal.
NotMinimal(m, fix) ==
    {k \in 0..(Len(fix) - 1) : k < Len(m.gp) /\ OrbitsAt(m, k)[fix[k + 1]] # fix[k + 1]}

\* The first level of those, or that does not fix its point of fix; Len(fix) if there is none.
FirstDoubt(m, fix) == Min(NotMinimal(m, fix) \cup {KnownPrefix(m, fix)})

OneOrbit(m, fix, cell) == cell # {} /\ \A x, y \in cell : OrbitsAt(m, Len(fix))[x] = OrbitsAt(m, Len(fix))[y]

\* grouporder: the orbits along the base, and the largest one at its end.
Order(m, fix) ==
    LET size(l, x) == Cardinality({y \in Point : m.gp[l].orbits[y] = m.gp[l].orbits[x]})
        last == Len(fix) + 1
    IN  FoldLeft(LAMBDA k, l : k * size(l, m.gp[l].fixed), Max({size(last, x) : x \in Point}), UpTo(1, Len(fix)))

-----------------------------------------------------------------------------
(* The calls.                                                              *)

Init ==
    /\ work \in Workloads
    /\ mem = [nodes |-> <<>>, ring |-> <<>>, free |-> <<>>, gp |-> <<FreshLevel(-1)>>]
    /\ call = NoCall
    /\ answer = NoCall
    /\ group = {Id}
    /\ calls = 0

Called ==
    /\ call = NoCall
    /\ calls < work.calls
    /\ calls' = calls + 1
    /\ UNCHANGED work

Updates(newmem) == mem' = newmem /\ call' = NoCall /\ answer' = NoCall

InRing(p) == \E id \in ToSet(mem.ring) : mem.nodes[id].p = p

\* addgenerator of any permutation, and of the one at the head of the ring.
Addgenerator(p) ==
    /\ Called
    /\ Updates(Filterschreier(mem, p, FALSE, FALSE).m)
    /\ group' = Closure(group \cup {p})

AddgeneratorAtHead ==
    /\ Called
    /\ mem.ring # <<>>
    /\ Updates(Filterschreier(mem, mem.nodes[Head(mem.ring)].p, FALSE, TRUE).m)
    /\ UNCHANGED group

\* condaddgenerator: nothing is done with a permutation of the ring.
Condaddgenerator(p) ==
    /\ Called
    /\ Updates(IF InRing(p) THEN mem ELSE Filterschreier(mem, p, FALSE, FALSE).m)
    /\ group' = Closure(group \cup {p})

Result_AllOrbits(m, c) ==
    LET orbits == OrbitsAt(m, 0)
    IN  IF c.op = "pruneset" THEN {x \in c.set : orbits[x] = x}
        ELSE IF c.op = "grouporder" THEN Order(m, c.fix)
        ELSE IF c.op = "getorbitsmin" THEN Len(c.fix)
        ELSE orbits

\* The result of a query when its filtering is over.
Result(m, c) ==
    LET orbits == OrbitsAt(m, Len(c.fix))
    IN  IF c.op = "pruneset" THEN {x \in c.set : orbits[x] = x}
        ELSE IF c.op = "grouporder" THEN Order(m, c.fix)
        ELSE IF c.op = "getorbitsmin" THEN Len(c.fix)
        ELSE orbits

Returns(c, value) ==
    /\ call' = NoCall
    /\ answer' = [op |-> c.op, fix |-> c.fix, set |-> c.set, value |-> value]

\* Filter random products of the ring's permutations, or return if there is none.
Filters(c) ==
    IF mem'.ring = <<>> THEN Returns(c, Result(mem', c))
    ELSE call' = [fails |-> 0] @@ c /\ answer' = NoCall

\* getorbits, pruneset and grouporder.  A base that is known needs no filtering, except
\* that grouporder filters two more times.
Query(op, fix, set) ==
    LET k == KnownPrefix(mem, fix)
        known == k = Len(fix)
        extra == IF op = "grouporder" THEN 2 ELSE 0
        c == [op |-> op, fix |-> fix, set |-> set, rounds |-> extra + IF known THEN 0 ELSE 1]
    IN  /\ Called
        /\ mem' = IF known THEN mem ELSE Rebase(mem, k, SubSeq(fix, k + 1, Len(fix)))
        /\ IF c.rounds = 0 THEN Returns(c, Result(mem, c)) ELSE Filters(c)
        /\ UNCHANGED group

Getorbits(fix) == Query("getorbits", fix, {})
Pruneset(S, x) == Query("pruneset", BaseOf(mem, S), x)
Grouporder(fix) == Query("grouporder", fix, {})

\* cell is empty where the code has a null pointer.
Getorbitsmin(fix, cell, changed) ==
    LET k == IF changed THEN 0 ELSE FirstDoubt(mem, fix)
        c == [op |-> "getorbitsmin", fix |-> fix, set |-> cell, rounds |-> 1]
        known == k = Len(fix) \/ (~changed /\ k \in NotMinimal(mem, fix))
    IN  /\ Called
        /\ mem' = IF known THEN mem ELSE Rebase(mem, k, SubSeq(fix, k + 1, Len(fix)))
        /\ IF known THEN Returns(c, k)
           ELSE IF OneOrbit(mem', fix, cell) THEN Returns(c, Len(fix))
           ELSE Filters(c)
        /\ UNCHANGED group

\* expandschreier, one turn of its loop, and the early returns of getorbitsmin.  The random
\* product of permutations of the ring may be any permutation that they generate.
Expand ==
    /\ call # NoCall
    /\ \E word \in Closure({mem.nodes[id].p : id \in ToSet(mem.ring)}) :
           LET r == Filterschreier(mem, word, TRUE, FALSE)
               c == [call EXCEPT !.fails = IF r.changed THEN 0 ELSE @ + 1]
               early == r.changed /\ c.op = "getorbitsmin"
           IN  /\ mem' = r.m
               /\ IF early /\ NotMinimal(mem', c.fix) # {} THEN Returns(c, Min(NotMinimal(mem', c.fix)))
                  ELSE IF early /\ OneOrbit(mem', c.fix, c.set) THEN Returns(c, Len(c.fix))
                  ELSE IF c.fails < Fails THEN call' = c /\ answer' = NoCall
                  ELSE IF c.rounds = 1 THEN Returns(c, Result(mem', c))
                  ELSE call' = [c EXCEPT !.rounds = @ - 1, !.fails = 0] /\ answer' = NoCall
    /\ UNCHANGED <<work, group, calls>>

\* freeschreier of the levels alone and deleteunmarked, or of the ring as well; and then
\* newgroup.
RestartGroup ==
    /\ Called
    /\ Updates(Newgroup(Deleteunmarked(mem)))
    /\ UNCHANGED group

FreeGroup ==
    /\ Called
    /\ Updates(Newgroup([mem EXCEPT !.nodes = <<>>, !.ring = <<>>, !.free = Reverse(mem.ring) \o @]))
    /\ group' = {Id}

\* schreier_freedyn: the free list is given back to the system.
Freedyn ==
    /\ Called
    /\ Updates([mem EXCEPT !.free = <<>>])
    /\ UNCHANGED group

Next ==
    \/ \E p \in work.perms : Addgenerator(p) \/ Condaddgenerator(p)
    \/ AddgeneratorAtHead
    \/ \E fix \in work.bases : Getorbits(fix) \/ Grouporder(fix)
    \/ \E fix \in work.bases, cell \in work.sets, changed \in BOOLEAN : Getorbitsmin(fix, cell, changed)
    \/ \E fix \in work.bases, x \in work.sets : Pruneset(ToSet(fix), x)
    \/ Expand
    \/ RestartGroup
    \/ FreeGroup
    \/ Freedyn

Spec == Init /\ [][Next]_vars

-----------------------------------------------------------------------------
(* Properties.                                                             *)

Levels == DOMAIN mem.gp
BaseBefore(l) == {mem.gp[k].fixed : k \in 1..(l - 1)}
Stabilizer(S) == {p \in group : \A x \in S : p[x] = x}
OrbitOf(x, G) == {p[x] : p \in G}
References(id) == {<<l, x>> \in Levels \X Point : mem.gp[l].vec[x] = id}

\* Permutations are those of the points, and only the last level fixes nothing.
TypeOK ==
    /\ work \in Workloads
    /\ \A id \in DOMAIN mem.nodes :
           /\ mem.nodes[id].p \in [Point -> Point]
           /\ mem.nodes[id].refcount \in Nat
           /\ mem.nodes[id].mark \in BOOLEAN
    /\ \A l \in Levels :
           /\ mem.gp[l].fixed \in Point \cup {-1}
           /\ mem.gp[l].fixed = -1 <=> l = Len(mem.gp)
           /\ mem.gp[l].orbits \in [Point -> Point]
           /\ mem.gp[l].pwr \in [Point -> Nat]
           /\ mem.gp[l].vec \in [Point -> {NULL, ID_PERMNODE} \cup Nat]
    /\ call = NoCall \/ call.op \in {"getorbits", "getorbitsmin", "pruneset", "grouporder"}
    /\ calls \in 0..work.calls

\* No tree points to a node that is not in the ring, whose memory addpermutation may
\* fill with another permutation: an unmarked node is in the ring as long as trees point
\* to it and counts them (schreier.c:412-432, :590-598), and no node is lost or freed twice.
ReferencesCounted ==
    /\ IsInjective(mem.ring \o mem.free)
    /\ DOMAIN mem.nodes = ToSet(mem.ring)
    /\ \A l \in Levels, x \in Point : mem.gp[l].vec[x] \in ToSet(mem.ring) \cup {NULL, ID_PERMNODE}
    /\ \A id \in ToSet(mem.ring) :
           LET refs == Cardinality(References(id))
               node == mem.nodes[id]
           IN  /\ refs <= node.refcount
               /\ ~node.mark => refs = node.refcount /\ refs > 0

\* Whatever was sifted, and whichever bases were given up for others, the orbits of a level
\* are no larger than those of the group that fixes the points above it, and each is
\* named by its least point.
OrbitsSound ==
    \A l \in Levels :
        LET orbits == mem.gp[l].orbits
            G == Stabilizer(BaseBefore(l))
        IN  \A x \in Point :
                /\ orbits[x] <= x
                /\ orbits[orbits[x]] = orbits[x]
                /\ orbits[x] \in OrbitOf(x, G)

\* The trees of a level: every edge is a permutation of the group that fixes the points
\* above, its power leads to a point of the tree, and the edges lead to the point of the
\* level. Otherwise the stripping of a permutation would not end. And applyperm finds
\* every power, those that only larger trees take included.
TreesLead ==
    /\ \A l \in Levels :
           LET level == mem.gp[l]
               tree == {x \in Point : level.vec[x] # NULL}
               next(x) ==
                   IF level.vec[x] = ID_PERMNODE THEN x ELSE Image(mem.nodes[level.vec[x]].p, x, level.pwr[x])
           IN  \A x \in tree :
                   /\ level.vec[x] = ID_PERMNODE <=> x = level.fixed
                   /\ x # level.fixed => mem.nodes[level.vec[x]].p \in Stabilizer(BaseBefore(l))
                   /\ next(x) \in tree
                   /\ FoldLeft(LAMBDA y, i : next(y), x, UpTo(1, work.n)) = level.fixed
    /\ mem.ring # <<>> /\ call = NoCall =>
           LET p == mem.nodes[Head(mem.ring)].p
           IN  \A k \in {3, 5, 6, 10, 17, 20, 23} : Applyperm(Id, p, k) = [x \in Point |-> Image(p, x, k)]

\* The levels, after every step: what is derived from the permutations of the ring stays
\* true of the group, also when the base has changed.
LevelsSound == TypeOK /\ OrbitsSound /\ TreesLead

\* The marked permutations generate the whole group: those that are deleted, and those
\* that addgenerator never keeps, are products of them.
GeneratorsKept == Closure({mem.nodes[id].p : id \in {id \in ToSet(mem.ring) : mem.nodes[id].mark}}) = group

\* Queries never claim more than is true: a pruned point has a lesser one in its orbit, a
\* base that is refused is not minimal, and the order found is at most the order of
\* the group.
AnswersSound ==
    answer # NoCall =>
        LET fixing(k) == Stabilizer({answer.fix[i] : i \in 1..k})
            all == fixing(Len(answer.fix))
        IN  /\ answer.op = "getorbits" => \A x \in Point : answer.value[x] \in OrbitOf(x, all)
            /\ answer.op = "pruneset" =>
                   /\ answer.value \subseteq answer.set
                   /\ \A x \in answer.set \ answer.value : \E y \in OrbitOf(x, all) : y < x
            /\ answer.op = "grouporder" => answer.value <= Cardinality(group)
            /\ answer.op = "getorbitsmin" /\ answer.value < Len(answer.fix) =>
                   \E y \in OrbitOf(answer.fix[answer.value + 1], fixing(answer.value)) :
                       y < answer.fix[answer.value + 1]

\* If no permutation of the group teaches anything more, then all is known: the orbits of
\* every level are those of the group that fixes the points above it.
ClosedIsExact ==
    (\A p \in group : ~Filterschreier(mem, p, TRUE, FALSE).changed)
        => \A l \in Levels, x \in Point : mem.gp[l].orbits[x] = Min(OrbitOf(x, Stabilizer(BaseBefore(l))))
=============================================================================
