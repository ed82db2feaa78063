------------------------------ MODULE Sorting ------------------------------
(***************************************************************************)
(* The sorting procedures of nauty, sorttemplates.c: sortints sorts an     *)
(* array x, sortparallel moves an array y along, and sortindirect sorts    *)
(* the indices of an array that stays as it is.                            *)
(*                                                                         *)
(* A place of the array is modelled by the value it is sorted by, x, and   *)
(* by its payload y, at first its own index.  For sortindirect the array   *)
(* sorted is y, and x what it refers to.  Pointers are places.  The        *)
(* functions that take a segment [addr, len] off the stack and push its    *)
(* parts never recurse.                                                    *)
(***************************************************************************)
EXTENDS Integers, Sequences

CONSTANTS
    Inputs,         \* The arrays to sort: [size, keys, indirect].
    MinPartition,   \* Shorter segments are sorted by insertion.
    MinMedian9      \* Shorter ones are split at a median of three.

ASSUME InputsAssumption ==
    \A in \in Inputs :
        /\ in.size \in Nat /\ in.keys \in [0..(in.size - 1) -> Int]
        /\ in.indirect \in BOOLEAN

ASSUME SizesAssumption == MinPartition \in Nat /\ MinMedian9 \in Nat /\ MinMedian9 >= 3

VARIABLES
    input,            \* The array given.
    pc,               \* "take", "insert", "up", "down", "left", "right" or "done".
    x, y,             \* The array.
    stack,            \* The segments still to be sorted.
    x0, nn,           \* The segment being sorted: its first place and its length.
    i,                \* The next element to insert.
    v,                \* The value the segment is split at.
    xa, xb, xc, xd,   \* Equal to v are x0..xa-1 and xd+1..; split off are xa..xb-1 and xc+1..xd.
    xl, xh, s         \* The places to exchange next, and how many are left to.

segment == <<input, stack, x0, nn>>
bounds == <<xa, xb, xc, xd>>
moves == <<xl, xh, s>>
vars == <<segment, pc, x, y, i, v, bounds, moves>>

Places == 0..(input.size - 1)

Init ==
    /\ input \in Inputs
    /\ x = input.keys
    /\ y = [p \in Places |-> p]
    /\ stack = IF input.size > 1 THEN <<[addr |-> 0, len |-> input.size]>> ELSE <<>>
    /\ pc = "take"
    /\ x0 = 0 /\ nn = 0 /\ i = 0 /\ v = 0
    /\ xa = 0 /\ xb = 0 /\ xc = 0 /\ xd = 0
    /\ xl = 0 /\ xh = 0 /\ s = 0

Exchange(f, p, q) == [f EXCEPT ![p] = f[q], ![q] = f[p]]

\* (As it would be with the other one overwritten first.)
Overwrite_Lost(p, q) ==
    IF input.indirect THEN Exchange(x, p, q) ELSE [x EXCEPT ![p] = v, ![q] = v]

\* What is at p and at q, a place of the value v, change places; only sortindirect
\* exchanges them, the others store v.
Overwrite(p, q) ==
    IF input.indirect THEN Exchange(x, p, q) ELSE [x EXCEPT ![q] = x[p], ![p] = v]

-----------------------------------------------------------------------------
(* The next segment, and the insertion sort of a short one.                *)

Top == stack[Len(stack)]
Median(a, b, c) ==
    IF a <= b THEN IF b <= c THEN b ELSE IF c <= a THEN a ELSE c
    ELSE IF a <= c THEN a ELSE IF c <= b THEN b ELSE c

Pivot(a, n) ==
    IF n < MinMedian9 THEN Median(x[a], x[a + n \div 2], x[a + n - 1])
    ELSE Median(Median(x[a], x[a + 1], x[a + 2]),
                Median(x[a + n \div 2 - 1], x[a + n \div 2], x[a + n \div 2 + 1]),
                Median(x[a + n - 3], x[a + n - 2], x[a + n - 1]))

Take ==
    /\ pc = "take"
    /\ stack # <<>>
    /\ stack' = SubSeq(stack, 1, Len(stack) - 1)
    /\ x0' = Top.addr /\ nn' = Top.len
    /\ UNCHANGED input

TakeShort ==
    /\ Take
    /\ Top.len < MinPartition
    /\ i' = 1
    /\ pc' = "insert"
    /\ UNCHANGED <<x, y, v, bounds, moves>>

TakeLong ==
    /\ Take
    /\ Top.len >= MinPartition
    /\ v' = Pivot(Top.addr, Top.len)
    /\ xa' = Top.addr /\ xb' = Top.addr
    /\ xc' = Top.addr + Top.len - 1 /\ xd' = Top.addr + Top.len - 1
    /\ pc' = "up"
    /\ UNCHANGED <<x, y, i, moves>>

\* The element at x0 + i goes to place p, before the greater ones.
InsertAt(f, p) ==
    [q \in Places |->
        IF q = p THEN f[x0 + i] ELSE IF p < q /\ q <= x0 + i THEN f[q - 1] ELSE f[q]]

Insert ==
    /\ pc = "insert"
    /\ i < nn
    /\ \E p \in x0..(x0 + i) :
           /\ \A q \in p..(x0 + i - 1) : x[q] > x[x0 + i]
           /\ p > x0 => x[p - 1] <= x[x0 + i]
           /\ x' = InsertAt(x, p)
           /\ y' = InsertAt(y, p)
    /\ i' = i + 1
    /\ UNCHANGED <<segment, pc, v, bounds, moves>>

Inserted ==
    /\ pc = "insert"
    /\ i >= nn
    /\ pc' = "take"
    /\ UNCHANGED <<segment, x, y, i, v, bounds, moves>>

-----------------------------------------------------------------------------
(* The partition of a longer segment into the elements less than v, equal  *)
(* to it and greater, where the equal ones are first gathered at the ends. *)

CanRise == xb <= xc /\ x[xb] <= v
CanSink == xc >= xb /\ x[xc] >= v

Rise ==
    /\ pc = "up"
    /\ CanRise
    /\ IF x[xb] = v
       THEN x' = Overwrite(xa, xb) /\ y' = Exchange(y, xa, xb) /\ xa' = xa + 1
       ELSE UNCHANGED <<x, y, xa>>
    /\ xb' = xb + 1
    /\ UNCHANGED <<segment, pc, i, v, xc, xd, moves>>

Risen ==
    /\ pc = "up"
    /\ ~CanRise
    /\ pc' = "down"
    /\ UNCHANGED <<segment, x, y, i, v, bounds, moves>>

Sink ==
    /\ pc = "down"
    /\ CanSink
    /\ IF x[xc] = v
       THEN x' = Overwrite(xd, xc) /\ y' = Exchange(y, xd, xc) /\ xd' = xd - 1
       ELSE UNCHANGED <<x, y, xd>>
    /\ xc' = xc - 1
    /\ UNCHANGED <<segment, pc, i, v, xa, xb, moves>>

\* An element greater than v and one less than v.
Swap ==
    /\ pc = "down"
    /\ ~CanSink
    /\ xb <= xc
    /\ x' = Exchange(x, xb, xc) /\ y' = Exchange(y, xb, xc)
    /\ xb' = xb + 1 /\ xc' = xc - 1
    /\ pc' = "up"
    /\ UNCHANGED <<segment, i, v, xa, xd, moves>>

Less == xb - xa        \* How many elements are less than v
Greater == xd - xc     \* and greater.
AtStart == xa - x0     \* How many equal ones are at the start of the segment
AtEnd == x0 + nn - 1 - xd   \* and at its end.
Least(a, b) == IF a < b THEN a ELSE b

Crossed ==
    /\ pc = "down"
    /\ ~CanSink
    /\ xb > xc
    /\ s' = Least(AtStart, Less)
    /\ xl' = x0 /\ xh' = xb - s'
    /\ pc' = "left"
    /\ UNCHANGED <<segment, x, y, i, v, bounds>>

\* The equal elements at the start change places with lesser ones,
MoveLeft ==
    /\ pc = "left"
    /\ s > 0
    /\ x' = Overwrite(xh, xl) /\ y' = Exchange(y, xh, xl)
    /\ xl' = xl + 1 /\ xh' = xh + 1 /\ s' = s - 1
    /\ UNCHANGED <<segment, pc, i, v, bounds>>

MovedLeft ==
    /\ pc = "left"
    /\ s = 0
    /\ s' = Least(AtEnd, Greater)
    /\ xl' = xb /\ xh' = x0 + nn - s'
    /\ pc' = "right"
    /\ UNCHANGED <<segment, x, y, i, v, bounds>>

\* and those at the end with greater ones.
MoveRight ==
    /\ pc = "right"
    /\ s > 0
    /\ x' = Overwrite(xl, xh) /\ y' = Exchange(y, xl, xh)
    /\ xl' = xl + 1 /\ xh' = xh + 1 /\ s' = s - 1
    /\ UNCHANGED <<segment, pc, i, v, bounds>>

\* (As it would be with the equal elements sorted again.)
LessPart_WithEqual == IF xb - x0 > 1 THEN <<[addr |-> x0, len |-> xb - x0]>> ELSE <<>>
LessPart == IF Less > 1 THEN <<[addr |-> x0, len |-> Less]>> ELSE <<>>
GreaterPart == IF Greater > 1 THEN <<[addr |-> x0 + nn - Greater, len |-> Greater]>> ELSE <<>>

\* (As they would be with the longer one taken first.)
Parts_LongerFirst == IF Less > Greater THEN GreaterPart \o LessPart ELSE LessPart \o GreaterPart

\* The shorter part is taken first.
Parts == IF Less > Greater THEN LessPart \o GreaterPart ELSE GreaterPart \o LessPart

Push ==
    /\ pc = "right"
    /\ s = 0
    /\ stack' = stack \o Parts
    /\ pc' = "take"
    /\ UNCHANGED <<input, x, y, x0, nn, i, v, bounds, moves>>

Return ==
    /\ pc = "take"
    /\ stack = <<>>
    /\ pc' = "done"
    /\ UNCHANGED <<segment, x, y, i, v, bounds, moves>>

Done == pc = "done" /\ UNCHANGED vars

Next ==
    \/ TakeShort \/ TakeLong
    \/ Insert \/ Inserted
    \/ Rise \/ Risen \/ Sink \/ Swap \/ Crossed
    \/ MoveLeft \/ MovedLeft \/ MoveRight \/ Push
    \/ Return
    \/ Done

Spec == Init /\ [][Next]_vars /\ WF_vars(Next)

-----------------------------------------------------------------------------
(* Properties.                                                             *)

\* What the array holds is a permutation of what was given, and its values ascend
\* (sorttemplates.c:14-22), although equal elements are stored over one another.
Sorts ==
    pc = "done" =>
        /\ \A p \in Places : y[p] \in Places /\ x[p] = input.keys[y[p]]
        /\ \A p, q \in Places : p < q => y[p] # y[q] /\ x[p] <= x[q]

\* The stack of forty segments (sorttemplates.c:97) is never full: there are bounds
\* on the lengths of its segments, each at most half of the one below it, so that an
\* array of 2^k elements never has more than k segments waiting.
StackHalves ==
    \E bound \in [DOMAIN stack -> 0..input.size] :
        /\ \A h \in DOMAIN stack : stack[h].len <= bound[h]
        /\ \A h \in DOMAIN stack : h > 1 => 2 * bound[h] <= bound[h - 1]

\* The procedure returns: every split leaves out an element of its segment.
Returns == <>(pc = "done")
=============================================================================
