---------------------------- MODULE SortingProofs ----------------------------
(***************************************************************************)
(* Proofs about Sorting: of every array it makes an ascending permutation, *)
(* and its stack grows with the logarithm of the size of the array.        *)
(***************************************************************************)
EXTENDS Sorting, SequenceTheorems, TLAPS

Segment == [addr : Nat, len : Nat \ {0}]
In(t, p) == t.addr <= p /\ p < t.addr + t.len
InCurrent(p) == x0 <= p /\ p < x0 + nn
Busy == pc \in {"insert", "up", "down", "left", "right"}

TypeInv ==
    /\ input \in Inputs
    /\ pc \in {"take", "insert", "up", "down", "left", "right", "done"}
    /\ x \in [Places -> Int] /\ y \in [Places -> Places]
    /\ stack \in Seq(Segment)
    /\ x0 \in Nat /\ nn \in Nat
    /\ v \in Int

\* The segments lie in the array and apart from one another.
SegmentsInv ==
    /\ \A h \in DOMAIN stack : stack[h].addr + stack[h].len <= input.size
    /\ \A g, h \in DOMAIN stack : \A p \in Places : g # h => ~(In(stack[g], p) /\ In(stack[h], p))
    /\ Busy =>
        /\ nn >= 1 /\ x0 + nn <= input.size
        /\ \A h \in DOMAIN stack : \A p \in Places : ~(In(stack[h], p) /\ InCurrent(p))

\* Two elements may only be in the wrong order inside a segment still to be sorted.
Ordered ==
    \A p, q \in Places : p < q =>
        \/ x[p] <= x[q]
        \/ \E h \in DOMAIN stack : In(stack[h], p) /\ In(stack[h], q)
        \/ Busy /\ InCurrent(p) /\ InCurrent(q)

\* The array is a permutation of the one given.
Permuted ==
    /\ \A p \in Places : x[p] = input.keys[y[p]]
    /\ \A p, q \in Places : p < q => y[p] # y[q]

ArrayInv == TypeInv /\ SegmentsInv /\ Ordered /\ Permuted

\* The elements inserted so far ascend.
InsertInv ==
    pc = "insert" =>
        /\ i \in 1..nn
        /\ \A p, q \in Places : x0 <= p /\ p < q /\ q < x0 + i => x[p] <= x[q]

\* The partition: what has been split off from either end, and how the equal elements
\* are exchanged with it.
BoundsInv ==
    pc \in {"up", "down", "left", "right"} =>
        /\ xa \in Nat /\ xb \in Nat /\ xc \in Int /\ xd \in Int
        /\ x0 <= xa /\ xa <= xb /\ xb <= xc + 1 /\ xc <= xd /\ xd <= x0 + nn - 1

LowerInv ==
    \A p \in Places :
        /\ x0 <= p /\ p < xa => x[p] = v
        /\ xa <= p /\ p < xb => x[p] < v

UpperInv ==
    \A p \in Places :
        /\ xc < p /\ p <= xd => x[p] > v
        /\ xd < p /\ p < x0 + nn => x[p] = v

LeftInv ==
    LET m == Least(AtStart, Less)
        less(p) == p < xl \/ (xa <= p /\ p < xb - m) \/ xh <= p
    IN  /\ s \in 0..m
        /\ xl = x0 + m - s /\ xh = xb - s
        /\ \A p \in Places : x0 <= p /\ p < xb => IF less(p) THEN x[p] < v ELSE x[p] = v

RightInv ==
    LET m == Least(AtEnd, Greater)
        greater(p) == (xl <= p /\ p <= xd) \/ (x0 + nn - m <= p /\ p < xh)
    IN  /\ s \in 0..m
        /\ xl = xb + m - s /\ xh = x0 + nn - s
        /\ \A p \in Places : x0 <= p /\ p < xb => IF p < x0 + Less THEN x[p] < v ELSE x[p] = v
        /\ \A p \in Places : xb <= p /\ p < x0 + nn => IF greater(p) THEN x[p] > v ELSE x[p] = v

PartitionInv ==
    /\ BoundsInv
    /\ pc \in {"up", "down"} => LowerInv /\ UpperInv
    /\ pc = "down" => ~CanRise
    /\ pc \in {"left", "right"} => xb = xc + 1
    /\ pc = "left" => LeftInv /\ UpperInv
    /\ pc = "right" => RightInv

SortInv ==
    /\ ArrayInv
    /\ InsertInv
    /\ PartitionInv
    /\ pc = "done" => stack = <<>>

-----------------------------------------------------------------------------
(* Rearranging the segment that is being sorted.                           *)

\* The arrays to sort are arrays of integers on their places.
LEMMA PlacesType == input \in Inputs =>
    input.size \in Nat /\ Places = 0..(input.size - 1) /\ input.keys \in [Places -> Int]
BY InputsAssumption DEF Places

\* Elements of the segment may change places with one another.
LEMMA Rearranged ==
    ASSUME ArrayInv, Busy, Busy',
           UNCHANGED segment, v' \in Int,
           pc' \in {"take", "insert", "up", "down", "left", "right", "done"},
           NEW f \in [Places -> Places],
           \A p \in Places : InCurrent(p) => InCurrent(f[p]),
           \A p \in Places : ~InCurrent(p) => f[p] = p,
           \A p, q \in Places : p < q => f[p] # f[q],
           x' = [p \in Places |-> x[f[p]]],
           y' = [p \in Places |-> y[f[p]]]
    PROVE  ArrayInv'
<1> Places' = Places
    BY DEF segment, Places
<1>1. TypeInv'
    BY DEF ArrayInv, TypeInv, segment
<1>2. SegmentsInv'
    BY DEF ArrayInv, SegmentsInv, segment, In, InCurrent, Busy
<1>3. Ordered'
    <2> SUFFICES ASSUME NEW p \in Places, NEW q \in Places, p < q
                 PROVE  \/ x'[p] <= x'[q]
                        \/ \E h \in DOMAIN stack : In(stack[h], p) /\ In(stack[h], q)
                        \/ InCurrent(p) /\ InCurrent(q)
        BY DEF Ordered, segment, In, InCurrent
    <2>0. /\ p \in Int /\ q \in Int /\ f[p] \in Int /\ f[q] \in Int
          /\ f[p] \in Places /\ f[q] \in Places
          /\ x0 \in Int /\ nn \in Int
        BY PlacesType DEF ArrayInv, TypeInv
    <2>1. CASE InCurrent(p) /\ InCurrent(q)
        BY <2>1
    <2>2. CASE ~InCurrent(p) /\ ~InCurrent(q)
        BY <2>2 DEF ArrayInv, Ordered
    <2>3. CASE InCurrent(p) /\ ~InCurrent(q)
        <3>1. f[p] < q /\ InCurrent(f[p]) /\ f[q] = q
            BY <2>0, <2>3 DEF InCurrent
        <3>2. \A h \in DOMAIN stack : ~In(stack[h], f[p])
            BY <3>1, <2>0 DEF ArrayInv, SegmentsInv
        <3> QED
            BY <3>1, <3>2, <2>0, <2>3 DEF ArrayInv, Ordered
    <2>4. CASE ~InCurrent(p) /\ InCurrent(q)
        <3>1. p < f[q] /\ InCurrent(f[q]) /\ f[p] = p
            BY <2>0, <2>4 DEF InCurrent
        <3>2. \A h \in DOMAIN stack : ~In(stack[h], f[q])
            BY <3>1, <2>0 DEF ArrayInv, SegmentsInv
        <3> QED
            BY <3>1, <3>2, <2>0, <2>4 DEF ArrayInv, Ordered
    <2> QED
        BY <2>1, <2>2, <2>3, <2>4
<1>4. Permuted'
    <2>1. \A p, q \in Places : p # q => y[p] # y[q]
        BY PlacesType DEF ArrayInv, TypeInv, Permuted
    <2>2. \A p, q \in Places : p < q => y'[p] # y'[q]
        BY <2>1
    <2>3. \A p \in Places : x'[p] = input.keys[y'[p]]
        BY DEF ArrayInv, Permuted
    <2> QED
        BY <2>2, <2>3 DEF Permuted, segment
<1> QED
    BY <1>1, <1>2, <1>3, <1>4 DEF ArrayInv

\* In particular two of them may, whatever the procedure.
LEMMA Exchanged ==
    ASSUME ArrayInv, Busy, Busy',
           UNCHANGED segment, v' \in Int,
           pc' \in {"take", "insert", "up", "down", "left", "right", "done"},
           NEW p \in Places, NEW q \in Places, InCurrent(p), InCurrent(q),
           x' = Exchange(x, p, q),
           y' = Exchange(y, p, q)
    PROVE  ArrayInv'
<1> DEFINE f == [r \in Places |-> IF r = p THEN q ELSE IF r = q THEN p ELSE r]
<1>1. /\ f \in [Places -> Places]
      /\ \A r \in Places : InCurrent(r) => InCurrent(f[r])
      /\ \A r \in Places : ~InCurrent(r) => f[r] = r
    OBVIOUS
<1>2. \A r, t \in Places : r < t => f[r] # f[t]
    BY PlacesType, SMTT(30) DEF ArrayInv, TypeInv
<1>3. /\ x' = [r \in Places |-> x[f[r]]]
      /\ y' = [r \in Places |-> y[f[r]]]
    BY DEF Exchange, ArrayInv, TypeInv
<1> HIDE DEF f
<1> QED
    BY <1>1, <1>2, <1>3, Rearranged

\* Storing equal elements over one another has the effect of an exchange.
LEMMA OverwriteExchanges ==
    ASSUME ArrayInv, NEW p \in Places, NEW q \in Places, x[q] = v
    PROVE  Overwrite(p, q) = Exchange(x, p, q)
BY DEF Overwrite, Exchange, ArrayInv, TypeInv

\* Nothing changes but the position in the procedure.
LEMMA Resumed ==
    ASSUME ArrayInv, Busy <=> Busy', UNCHANGED <<segment, x, y>>, v' \in Int,
           pc' \in {"take", "insert", "up", "down", "left", "right", "done"}
    PROVE  ArrayInv'
<1> Places' = Places
    BY DEF segment, Places
<1>1. TypeInv'
    BY DEF ArrayInv, TypeInv, segment
<1>2. SegmentsInv'
    BY DEF ArrayInv, SegmentsInv, segment, In, InCurrent
<1>3. Ordered' /\ Permuted'
    BY DEF ArrayInv, Ordered, Permuted, segment, In, InCurrent
<1> QED
    BY <1>1, <1>2, <1>3 DEF ArrayInv
\* Sequences of one element.
LEMMA SingletonSeq ==
    ASSUME NEW S, NEW e \in S
    PROVE  <<e>> \in Seq(S) /\ Len(<<e>>) = 1 /\ <<e>>[1] = e
OBVIOUS

-----------------------------------------------------------------------------
(* Every step keeps SortInv.                                               *)

\* At first the whole array is one segment on the stack.
LEMMA InitHolds == Init => SortInv
<1> SUFFICES ASSUME Init PROVE SortInv
    OBVIOUS
<1>1. TypeInv
    <2>1. /\ input.size > 1 => stack = <<[addr |-> 0, len |-> input.size]>>
          /\ ~(input.size > 1) => stack = <<>>
        BY DEF Init
    <2>2. input.size \in Nat /\ x \in [Places -> Int]
        BY PlacesType DEF Init
    <2>3. stack \in Seq(Segment)
        <3>1. CASE input.size > 1
            <4>1. [addr |-> 0, len |-> input.size] \in Segment
                BY <2>2, <3>1 DEF Segment
            <4> QED
                BY <2>1, <3>1, <4>1, SingletonSeq
        <3>2. CASE ~(input.size > 1)
            BY <2>1, <3>2, EmptySeq
        <3> QED
            BY <3>1, <3>2
    <2> QED
        BY <2>2, <2>3 DEF Init, TypeInv
<1>2. SegmentsInv
    BY PlacesType DEF Init, SegmentsInv, Busy
<1>3. Ordered
    <2> SUFFICES ASSUME NEW p \in Places, NEW q \in Places, p < q
                 PROVE  \E h \in DOMAIN stack : In(stack[h], p) /\ In(stack[h], q)
        BY DEF Ordered
    <2> QED
        BY PlacesType DEF Init, In
<1>4. Permuted
    BY PlacesType DEF Init, Permuted
<1>5. InsertInv /\ PartitionInv
    BY DEF Init, InsertInv, PartitionInv, BoundsInv
<1> QED
    BY <1>1, <1>2, <1>3, <1>4, <1>5 DEF SortInv, ArrayInv, Init

\* Where the pointers of the partition are.
LEMMA Facts ==
    ASSUME SortInv
    PROVE  /\ input \in Inputs /\ input.size \in Nat /\ x0 \in Nat /\ nn \in Nat /\ v \in Int
           /\ Places = 0..(input.size - 1)
           /\ x \in [Places -> Int] /\ y \in [Places -> Places]
           /\ ArrayInv
           /\ Busy => nn >= 1 /\ x0 + nn <= input.size
           /\ pc \in {"up", "down", "left", "right"} =>
                  /\ xa \in Nat /\ xb \in Nat /\ xc \in Int /\ xd \in Int
                  /\ x0 <= xa /\ xa <= xb /\ xb <= xc + 1 /\ xc <= xd /\ xd <= x0 + nn - 1
BY PlacesType DEF SortInv, ArrayInv, TypeInv, SegmentsInv, PartitionInv, BoundsInv

\* An element at the lower end that is less than or equal to the pivot.
LEMMA RisePreserves == SortInv /\ Rise => SortInv'
<1> SUFFICES ASSUME SortInv, Rise PROVE SortInv'
    OBVIOUS
<1>1. /\ pc = "up" /\ pc' = "up" /\ UNCHANGED segment /\ v' = v /\ xc' = xc /\ xd' = xd /\ xb' = xb + 1
      /\ xb <= xc /\ x[xb] <= v
      /\ Busy /\ Busy' /\ Places' = Places /\ x0' = x0 /\ nn' = nn
    BY DEF Rise, CanRise, Busy, segment, Places
<1>2. /\ v \in Int /\ x0 \in Nat /\ nn \in Nat /\ x \in [Places -> Int] /\ Places = 0..(input.size - 1)
      /\ xa \in Nat /\ xb \in Nat /\ xc \in Int /\ xd \in Int /\ input.size \in Nat
      /\ x0 <= xa /\ xa <= xb /\ xc <= xd /\ xd <= x0 + nn - 1 /\ x0 + nn <= input.size /\ ArrayInv
    BY <1>1, Facts
<1>3. xb \in Places /\ xa \in Places /\ InCurrent(xa) /\ InCurrent(xb)
    BY <1>1, <1>2 DEF InCurrent
<1>4. LowerInv /\ UpperInv
    BY <1>1 DEF SortInv, PartitionInv
<1>5. CASE x[xb] = v
    <2>1. x' = Exchange(x, xa, xb) /\ y' = Exchange(y, xa, xb) /\ xa' = xa + 1
        BY <1>2, <1>3, <1>5, OverwriteExchanges DEF Rise
    <2>2. ArrayInv'
        BY <1>1, <1>2, <1>3, <2>1, Exchanged
    <2>3. x' = [r \in Places |-> IF r = xa THEN x[xb] ELSE IF r = xb THEN x[xa] ELSE x[r]]
        BY <1>2, <1>3, <2>1 DEF Exchange
    <2>4. BoundsInv'
        BY <1>1, <1>2, <2>1 DEF BoundsInv
    <2>5. LowerInv'
        BY <1>1, <1>2, <1>3, <1>4, <1>5, <2>1, <2>3 DEF LowerInv
    <2>6. UpperInv'
        BY <1>1, <1>2, <1>3, <1>4, <2>3 DEF UpperInv
    <2> QED
        BY <1>1, <2>2, <2>4, <2>5, <2>6 DEF SortInv, InsertInv, PartitionInv
<1>6. CASE x[xb] # v
    <2>1. x' = x /\ y' = y /\ xa' = xa
        BY <1>6 DEF Rise
    <2>2. ArrayInv'
        BY <1>1, <1>2, <2>1, Resumed
    <2>3. BoundsInv'
        BY <1>1, <1>2, <2>1 DEF BoundsInv
    <2>4. x[xb] < v
        BY <1>1, <1>2, <1>3, <1>6
    <2>5. LowerInv' /\ UpperInv'
        BY <1>1, <1>2, <1>4, <2>1, <2>4 DEF LowerInv, UpperInv
    <2> QED
        BY <1>1, <2>2, <2>3, <2>5 DEF SortInv, InsertInv, PartitionInv
<1> QED
    BY <1>5, <1>6

\* An element at the lower end that is greater.
LEMMA RisenPreserves == SortInv /\ Risen => SortInv'
<1> SUFFICES ASSUME SortInv, Risen PROVE SortInv'
    OBVIOUS
<1>1. ArrayInv'
    BY Resumed DEF SortInv, Risen, Busy, ArrayInv, TypeInv
<1> QED
    BY <1>1 DEF Risen, SortInv, InsertInv, PartitionInv, BoundsInv, LowerInv, UpperInv, CanRise, segment, bounds,
       Places

\* An element at the upper end that is greater than or equal to the pivot.
LEMMA SinkPreserves == SortInv /\ Sink => SortInv'
<1> SUFFICES ASSUME SortInv, Sink PROVE SortInv'
    OBVIOUS
<1>1. /\ pc = "down" /\ pc' = "down" /\ UNCHANGED segment /\ v' = v /\ xa' = xa /\ xb' = xb /\ xc' = xc - 1
      /\ xb <= xc /\ x[xc] >= v
      /\ Busy /\ Busy' /\ Places' = Places /\ x0' = x0 /\ nn' = nn
    <2>1. xb \in Int /\ xc \in Int
        BY Facts DEF Sink
    <2> QED
        BY <2>1 DEF Sink, CanSink, Busy, segment, Places
<1>2. /\ v \in Int /\ x0 \in Nat /\ nn \in Nat /\ x \in [Places -> Int] /\ Places = 0..(input.size - 1)
      /\ xa \in Nat /\ xb \in Nat /\ xc \in Int /\ xd \in Int /\ input.size \in Nat
      /\ x0 <= xa /\ xa <= xb /\ xc <= xd /\ xd <= x0 + nn - 1 /\ x0 + nn <= input.size /\ ArrayInv
    BY <1>1, Facts
<1>3. xc \in Places /\ xd \in Places /\ InCurrent(xc) /\ InCurrent(xd)
    BY <1>1, <1>2 DEF InCurrent
<1>4. LowerInv /\ UpperInv /\ ~CanRise
    BY <1>1 DEF SortInv, PartitionInv
<1>5. CASE x[xc] = v
    <2>1. x' = Exchange(x, xd, xc) /\ y' = Exchange(y, xd, xc) /\ xd' = xd - 1
        BY <1>2, <1>3, <1>5, OverwriteExchanges DEF Sink
    <2>2. ArrayInv'
        BY <1>1, <1>2, <1>3, <2>1, Exchanged
    <2>3. x' = [r \in Places |-> IF r = xd THEN x[xc] ELSE IF r = xc THEN x[xd] ELSE x[r]]
        BY <1>2, <1>3, <2>1 DEF Exchange
    <2>4. BoundsInv'
        BY <1>1, <1>2, <2>1 DEF BoundsInv
    <2>5. LowerInv'
        BY <1>1, <1>2, <1>3, <1>4, <2>3 DEF LowerInv
    <2>6. UpperInv'
        BY <1>1, <1>2, <1>3, <1>4, <1>5, <2>1, <2>3 DEF UpperInv
    <2>7. ~CanRise'
        BY <1>1, <1>2, <1>3, <1>4, <1>5, <2>3 DEF CanRise
    <2> QED
        BY <1>1, <2>2, <2>4, <2>5, <2>6, <2>7 DEF SortInv, InsertInv, PartitionInv
<1>6. CASE x[xc] # v
    <2>1. x' = x /\ y' = y /\ xd' = xd
        BY <1>6 DEF Sink
    <2>2. ArrayInv'
        BY <1>1, <1>2, <2>1, Resumed
    <2>3. BoundsInv'
        BY <1>1, <1>2, <2>1 DEF BoundsInv
    <2>4. x[xc] > v
        BY <1>1, <1>2, <1>3, <1>6
    <2>5. LowerInv' /\ UpperInv'
        BY <1>1, <1>2, <1>4, <2>1, <2>4 DEF LowerInv, UpperInv
    <2>6. ~CanRise'
        BY <1>1, <1>2, <1>4, <2>1 DEF CanRise
    <2> QED
        BY <1>1, <2>2, <2>3, <2>5, <2>6 DEF SortInv, InsertInv, PartitionInv
<1> QED
    BY <1>5, <1>6

\* The two elements on the wrong sides are exchanged.
LEMMA SwapPreserves == SortInv /\ Swap => SortInv'
<1> SUFFICES ASSUME SortInv, Swap PROVE SortInv'
    OBVIOUS
<1>1. /\ pc = "down" /\ pc' = "up" /\ UNCHANGED segment /\ v' = v /\ xa' = xa /\ xd' = xd
      /\ xb' = xb + 1 /\ xc' = xc - 1 /\ xb <= xc /\ ~CanSink
      /\ x' = Exchange(x, xb, xc) /\ y' = Exchange(y, xb, xc)
      /\ Busy /\ Busy' /\ Places' = Places /\ x0' = x0 /\ nn' = nn
    BY DEF Swap, Busy, segment, Places
<1>2. /\ v \in Int /\ x0 \in Nat /\ nn \in Nat /\ x \in [Places -> Int] /\ Places = 0..(input.size - 1)
      /\ xa \in Nat /\ xb \in Nat /\ xc \in Int /\ xd \in Int /\ input.size \in Nat
      /\ x0 <= xa /\ xa <= xb /\ xc <= xd /\ xd <= x0 + nn - 1 /\ x0 + nn <= input.size /\ ArrayInv
    BY <1>1, Facts
<1>3. xb \in Places /\ xc \in Places /\ InCurrent(xb) /\ InCurrent(xc)
    BY <1>1, <1>2 DEF InCurrent
<1>4. LowerInv /\ UpperInv /\ ~CanRise
    BY <1>1 DEF SortInv, PartitionInv
<1>5. x[xb] > v /\ x[xc] < v /\ xb < xc
    BY <1>1, <1>2, <1>3, <1>4 DEF CanSink, CanRise
<1>6. ArrayInv'
    BY <1>1, <1>2, <1>3, Exchanged
<1>7. x' = [r \in Places |-> IF r = xb THEN x[xc] ELSE IF r = xc THEN x[xb] ELSE x[r]]
    BY <1>1, <1>2, <1>3 DEF Exchange
<1>8. BoundsInv'
    BY <1>1, <1>2, <1>5 DEF BoundsInv
<1>9. LowerInv'
    BY <1>1, <1>2, <1>3, <1>4, <1>5, <1>7 DEF LowerInv
<1>10. UpperInv'
    BY <1>1, <1>2, <1>3, <1>4, <1>5, <1>7 DEF UpperInv
<1> QED
    BY <1>1, <1>6, <1>8, <1>9, <1>10 DEF SortInv, InsertInv, PartitionInv

\* The ends have met: the equal elements are next.
LEMMA CrossedPreserves == SortInv /\ Crossed => SortInv'
<1> SUFFICES ASSUME SortInv, Crossed PROVE SortInv'
    OBVIOUS
<1>1. /\ pc = "down" /\ pc' = "left" /\ UNCHANGED segment /\ v' = v
      /\ xa' = xa /\ xb' = xb /\ xc' = xc /\ xd' = xd /\ xb > xc
      /\ x' = x /\ y' = y
      /\ s' = Least(AtStart, Less) /\ xl' = x0 /\ xh' = xb - s'
      /\ Busy /\ Busy' /\ Places' = Places /\ x0' = x0 /\ nn' = nn
    BY DEF Crossed, Busy, segment, bounds, Places
<1>2. /\ v \in Int /\ x0 \in Nat /\ nn \in Nat /\ x \in [Places -> Int] /\ Places = 0..(input.size - 1)
      /\ xa \in Nat /\ xb \in Nat /\ xc \in Int /\ xd \in Int /\ input.size \in Nat
      /\ x0 <= xa /\ xa <= xb /\ xb <= xc + 1 /\ xc <= xd /\ xd <= x0 + nn - 1 /\ ArrayInv
    BY <1>1, Facts
<1>3. LowerInv /\ UpperInv
    BY <1>1 DEF SortInv, PartitionInv
<1>4. ArrayInv'
    BY <1>1, <1>2, Resumed
<1>5. BoundsInv' /\ UpperInv'
    BY <1>1, <1>2, <1>3 DEF BoundsInv, UpperInv
<1>6. xb = xc + 1
    BY <1>1, <1>2
<1>7. LeftInv'
    BY <1>1, <1>2, <1>3 DEF LowerInv, LeftInv, Least, AtStart, Less
<1> QED
    BY <1>1, <1>4, <1>5, <1>6, <1>7 DEF SortInv, InsertInv, PartitionInv

\* An equal element of the start goes to the middle.
LEMMA MoveLeftPreserves == SortInv /\ MoveLeft => SortInv'
<1> SUFFICES ASSUME SortInv, MoveLeft PROVE SortInv'
    OBVIOUS
<1> DEFINE m == Least(AtStart, Less)
<1>1. /\ pc = "left" /\ pc' = "left" /\ UNCHANGED segment /\ v' = v
      /\ xa' = xa /\ xb' = xb /\ xc' = xc /\ xd' = xd
      /\ s > 0 /\ xl' = xl + 1 /\ xh' = xh + 1 /\ s' = s - 1
      /\ Busy /\ Busy' /\ Places' = Places /\ x0' = x0 /\ nn' = nn
    BY DEF MoveLeft, Busy, segment, bounds, Places
<1>2. /\ v \in Int /\ x0 \in Nat /\ nn \in Nat /\ x \in [Places -> Int] /\ Places = 0..(input.size - 1)
      /\ xa \in Nat /\ xb \in Nat /\ xc \in Int /\ xd \in Int /\ input.size \in Nat
      /\ x0 <= xa /\ xa <= xb /\ xc <= xd /\ xd <= x0 + nn - 1 /\ x0 + nn <= input.size /\ ArrayInv
    BY <1>1, Facts
<1>3. LeftInv /\ UpperInv /\ xb = xc + 1
    BY <1>1 DEF SortInv, PartitionInv
<1>4. m \in Nat /\ m <= xa - x0 /\ m <= xb - xa /\ m' = m
    BY <1>1, <1>2 DEF Least, AtStart, Less
<1>5. /\ s \in 0..m /\ xl = x0 + m - s /\ xh = xb - s
      /\ \A p \in Places : x0 <= p /\ p < xb =>
             IF p < xl \/ (xa <= p /\ p < xb - m) \/ xh <= p THEN x[p] < v ELSE x[p] = v
    BY <1>3 DEF LeftInv
<1> HIDE DEF m
<1>6. /\ xl \in Places /\ xh \in Places /\ InCurrent(xl) /\ InCurrent(xh)
      /\ xl < xh /\ xl < xa /\ xa <= xh /\ xb - m <= xh /\ xh < xb
    BY <1>1, <1>2, <1>3, <1>4, <1>5 DEF InCurrent
<1>7. x[xl] = v /\ x[xh] < v
    BY <1>2, <1>4, <1>5, <1>6
<1>8. x' = Exchange(x, xh, xl) /\ y' = Exchange(y, xh, xl)
    BY <1>2, <1>6, <1>7, OverwriteExchanges DEF MoveLeft
<1>9. ArrayInv'
    BY <1>1, <1>2, <1>6, <1>8, Exchanged
<1>10. x' = [r \in Places |-> IF r = xh THEN x[xl] ELSE IF r = xl THEN x[xh] ELSE x[r]]
    BY <1>2, <1>6, <1>8 DEF Exchange
<1>11. LeftInv'
    <2>1. \A p \in Places : x0 <= p /\ p < xb =>
              IF p < xl + 1 \/ (xa <= p /\ p < xb - m) \/ xh + 1 <= p THEN x'[p] < v ELSE x'[p] = v
        BY <1>2, <1>4, <1>5, <1>6, <1>7, <1>10
    <2>2. s' \in 0..m /\ xl' = x0 + m - s' /\ xh' = xb - s'
        BY <1>1, <1>2, <1>4, <1>5
    <2> QED
        BY <1>1, <1>4, <2>1, <2>2 DEF LeftInv, m
<1>12. BoundsInv' /\ UpperInv'
    BY <1>1, <1>2, <1>3, <1>6, <1>10 DEF BoundsInv, UpperInv
<1> QED
    BY <1>1, <1>3, <1>9, <1>11, <1>12 DEF SortInv, InsertInv, PartitionInv

\* All equal elements of the start are in the middle.
LEMMA MovedLeftPreserves == SortInv /\ MovedLeft => SortInv'
<1> SUFFICES ASSUME SortInv, MovedLeft PROVE SortInv'
    OBVIOUS
<1>1. /\ pc = "left" /\ pc' = "right" /\ UNCHANGED segment /\ v' = v
      /\ xa' = xa /\ xb' = xb /\ xc' = xc /\ xd' = xd
      /\ x' = x /\ y' = y
      /\ s = 0 /\ s' = Least(AtEnd, Greater) /\ xl' = xb /\ xh' = x0 + nn - s'
      /\ Busy /\ Busy' /\ Places' = Places /\ x0' = x0 /\ nn' = nn
    BY DEF MovedLeft, Busy, segment, bounds, Places
<1>2. /\ v \in Int /\ x0 \in Nat /\ nn \in Nat /\ x \in [Places -> Int] /\ Places = 0..(input.size - 1)
      /\ xa \in Nat /\ xb \in Nat /\ xc \in Int /\ xd \in Int /\ input.size \in Nat
      /\ x0 <= xa /\ xa <= xb /\ xc <= xd /\ xd <= x0 + nn - 1 /\ x0 + nn <= input.size /\ ArrayInv
    BY <1>1, Facts
<1>3. LeftInv /\ UpperInv /\ xb = xc + 1
    BY <1>1 DEF SortInv, PartitionInv
<1>4. ArrayInv'
    BY <1>1, <1>2, Resumed
<1>5. \A p \in Places : x0 <= p /\ p < xb => IF p < x0 + Less THEN x[p] < v ELSE x[p] = v
    BY <1>1, <1>2, <1>3 DEF LeftInv, Least, AtStart, Less
<1>6. \A p \in Places : xb <= p /\ p < x0 + nn => IF p <= xd THEN x[p] > v ELSE x[p] = v
    BY <1>1, <1>2, <1>3 DEF UpperInv
<1>7. BoundsInv'
    BY <1>1, <1>2, <1>3 DEF BoundsInv
<1>8. RightInv'
    BY <1>1, <1>2, <1>3, <1>5, <1>6 DEF RightInv, Least, AtEnd, Greater, Less
<1> QED
    BY <1>1, <1>3, <1>4, <1>7, <1>8 DEF SortInv, InsertInv, PartitionInv

\* An equal element of the end goes to the middle.
LEMMA MoveRightPreserves == SortInv /\ MoveRight => SortInv'
<1> SUFFICES ASSUME SortInv, MoveRight PROVE SortInv'
    OBVIOUS
<1> DEFINE m == Least(AtEnd, Greater)
<1>1. /\ pc = "right" /\ pc' = "right" /\ UNCHANGED segment /\ v' = v
      /\ xa' = xa /\ xb' = xb /\ xc' = xc /\ xd' = xd
      /\ s > 0 /\ xl' = xl + 1 /\ xh' = xh + 1 /\ s' = s - 1
      /\ Busy /\ Busy' /\ Places' = Places /\ x0' = x0 /\ nn' = nn
    BY DEF MoveRight, Busy, segment, bounds, Places
<1>2. /\ v \in Int /\ x0 \in Nat /\ nn \in Nat /\ x \in [Places -> Int] /\ Places = 0..(input.size - 1)
      /\ xa \in Nat /\ xb \in Nat /\ xc \in Int /\ xd \in Int /\ input.size \in Nat
      /\ x0 <= xa /\ xa <= xb /\ xc <= xd /\ xd <= x0 + nn - 1 /\ x0 + nn <= input.size /\ ArrayInv
    BY <1>1, Facts
<1>3. RightInv /\ xb = xc + 1
    BY <1>1 DEF SortInv, PartitionInv
<1>4. m \in Nat /\ m <= x0 + nn - 1 - xd /\ m <= xd - xc /\ m' = m
    BY <1>1, <1>2 DEF Least, AtEnd, Greater
<1>5. /\ s \in 0..m /\ xl = xb + m - s /\ xh = x0 + nn - s
      /\ \A p \in Places : x0 <= p /\ p < xb => IF p < x0 + Less THEN x[p] < v ELSE x[p] = v
      /\ \A p \in Places : xb <= p /\ p < x0 + nn =>
             IF (xl <= p /\ p <= xd) \/ (x0 + nn - m <= p /\ p < xh) THEN x[p] > v ELSE x[p] = v
    BY <1>3 DEF RightInv
<1> HIDE DEF m
<1>6. /\ xl \in Places /\ xh \in Places /\ InCurrent(xl) /\ InCurrent(xh)
      /\ xb <= xl /\ xl <= xd /\ xd < xh /\ x0 + nn - m <= xh /\ xh < x0 + nn
    BY <1>1, <1>2, <1>3, <1>4, <1>5 DEF InCurrent
<1>7. x[xh] = v /\ x[xl] > v
    BY <1>2, <1>4, <1>5, <1>6
<1>8. x' = Exchange(x, xl, xh) /\ y' = Exchange(y, xl, xh)
    BY <1>2, <1>6, <1>7, OverwriteExchanges DEF MoveRight
<1>9. ArrayInv'
    BY <1>1, <1>2, <1>6, <1>8, Exchanged
<1>10. x' = [r \in Places |-> IF r = xl THEN x[xh] ELSE IF r = xh THEN x[xl] ELSE x[r]]
    BY <1>2, <1>6, <1>8 DEF Exchange
<1>11. RightInv'
    <2>1. \A p \in Places : xb <= p /\ p < x0 + nn =>
              IF (xl + 1 <= p /\ p <= xd) \/ (x0 + nn - m <= p /\ p < xh + 1) THEN x'[p] > v ELSE x'[p] = v
        BY <1>2, <1>4, <1>5, <1>6, <1>7, <1>10
    <2>2. s' \in 0..m /\ xl' = xb + m - s' /\ xh' = x0 + nn - s'
        BY <1>1, <1>2, <1>4, <1>5
    <2>3. \A p \in Places : x0 <= p /\ p < xb => IF p < x0 + Less THEN x'[p] < v ELSE x'[p] = v
        BY <1>2, <1>5, <1>6, <1>10
    <2>4. Less' = Less
        BY <1>1 DEF Less
    <2> QED
        BY <1>1, <1>4, <2>1, <2>2, <2>3, <2>4 DEF RightInv, m
<1>12. BoundsInv'
    BY <1>1, <1>2, <1>3 DEF BoundsInv
<1> QED
    BY <1>1, <1>3, <1>9, <1>11, <1>12 DEF SortInv, InsertInv, PartitionInv

\* A sequence without its last element.
LEMMA WithoutLast ==
    ASSUME NEW S, NEW q \in Seq(S), q # <<>>, NEW r, r = SubSeq(q, 1, Len(q) - 1)
    PROVE  /\ Len(q) \in Nat \ {0} /\ DOMAIN q = 1..Len(q) /\ q[Len(q)] \in S
           /\ r \in Seq(S) /\ Len(r) = Len(q) - 1 /\ DOMAIN r = 1..(Len(q) - 1)
           /\ \A h \in 1..(Len(q) - 1) : r[h] = q[h]
<1> DEFINE n == Len(q)
<1>1. n \in Nat \ {0} /\ DOMAIN q = 1..n /\ q[n] \in S
    BY EmptySeq, LenProperties, ElementOfSeq
<1>2. \A h \in 1..(n - 1) : q[h] \in S
    BY <1>1, ElementOfSeq
<1>3. r \in Seq(S) /\ Len(r) = n - 1 /\ \A h \in 1..(n - 1) : r[h] = q[h]
    BY <1>1, <1>2, SubSeqProperties
<1> QED
    BY <1>1, <1>3, LenProperties

\* A segment is taken off the stack.
LEMMA Taken ==
    ASSUME SortInv, Take, Busy', x' = x, y' = y, v' \in Int,
           pc' \in {"take", "insert", "up", "down", "left", "right", "done"}
    PROVE  ArrayInv' /\ nn' \in Nat \ {0} /\ x0' \in Nat /\ Places' = Places
<1>1. /\ pc = "take" /\ ~Busy /\ Places' = Places /\ input' = input /\ stack # <<>>
      /\ stack' = SubSeq(stack, 1, Len(stack) - 1) /\ x0' = Top.addr /\ nn' = Top.len
    BY DEF Take, Busy, Places
<1>2. ArrayInv /\ stack \in Seq(Segment) /\ Places = 0..(input.size - 1) /\ input.size \in Nat
    BY Facts DEF ArrayInv, TypeInv
<1> DEFINE n == Len(stack)
<1>3. n \in Nat \ {0} /\ DOMAIN stack = 1..n /\ stack[n] \in Segment
    BY <1>1, <1>2, WithoutLast
<1>4. /\ stack' \in Seq(Segment) /\ DOMAIN stack' = 1..(n - 1)
      /\ \A h \in 1..(n - 1) : stack'[h] = stack[h]
    BY <1>1, <1>2, WithoutLast
<1>5. x0' = stack[n].addr /\ nn' = stack[n].len /\ x0' \in Nat /\ nn' \in Nat \ {0}
    BY <1>1, <1>3 DEF Top, Segment
<1> HIDE DEF n
<1>6. TypeInv'
    BY <1>1, <1>2, <1>4, <1>5 DEF ArrayInv, TypeInv
<1>7. SegmentsInv /\ Ordered /\ Permuted
    BY <1>2 DEF ArrayInv
<1>8. \A p : InCurrent(p)' <=> In(stack[n], p)
    BY <1>5 DEF InCurrent, In
<1>9. SegmentsInv'
    <2>1. \A h \in DOMAIN stack' : stack'[h].addr + stack'[h].len <= input.size
        BY <1>3, <1>4, <1>7 DEF SegmentsInv
    <2>2. \A g, h \in DOMAIN stack' : \A p \in Places : g # h => ~(In(stack'[g], p) /\ In(stack'[h], p))
        BY <1>3, <1>4, <1>7 DEF SegmentsInv
    <2>3. nn' >= 1 /\ x0' + nn' <= input.size
        BY <1>3, <1>5, <1>7 DEF SegmentsInv
    <2>4. \A h \in DOMAIN stack' : \A p \in Places : ~(In(stack'[h], p) /\ In(stack[n], p))
        BY <1>3, <1>4, <1>7 DEF SegmentsInv
    <2>5. \A h \in DOMAIN stack' : \A p \in Places : ~(In(stack'[h], p) /\ InCurrent(p)')
        BY <1>8, <2>4
    <2> QED
        BY <1>1, <2>1, <2>2, <2>3, <2>5 DEF SegmentsInv, In, InCurrent
<1>10. Ordered'
    <2> SUFFICES ASSUME NEW p \in Places, NEW q \in Places, p < q, ~(x[p] <= x[q])
                 PROVE  \/ \E h \in DOMAIN stack' : In(stack'[h], p) /\ In(stack'[h], q)
                        \/ InCurrent(p)' /\ InCurrent(q)'
        BY <1>1 DEF Ordered, In, InCurrent
    <2>1. PICK h \in DOMAIN stack : In(stack[h], p) /\ In(stack[h], q)
        BY <1>1, <1>7 DEF Ordered
    <2>2. CASE h = n
        BY <1>8, <2>1, <2>2
    <2>3. CASE h # n
        <3>1. h \in DOMAIN stack' /\ stack'[h] = stack[h]
            BY <1>3, <1>4, <2>3
        <3> QED
            BY <2>1, <3>1
    <2> QED
        BY <2>2, <2>3
<1>11. Permuted'
    BY <1>1, <1>7 DEF Permuted
<1> QED
    BY <1>1, <1>5, <1>6, <1>9, <1>10, <1>11 DEF ArrayInv

\* A segment to be sorted by insertion.
LEMMA TakeShortPreserves == SortInv /\ TakeShort => SortInv'
<1> SUFFICES ASSUME SortInv, TakeShort PROVE SortInv'
    OBVIOUS
<1>1. pc' = "insert" /\ i' = 1 /\ x' = x /\ y' = y /\ v' = v /\ v \in Int /\ Take
    BY Facts DEF TakeShort
<1>2. ArrayInv' /\ nn' \in Nat \ {0} /\ x0' \in Nat /\ Places' = Places
    BY <1>1, Taken DEF Busy
<1>3. \A p, q \in Places : ~(x0' <= p /\ p < q /\ q < x0' + 1)
    <2>1. \A a, p, q \in Int : ~(a <= p /\ p < q /\ q < a + 1)
        OBVIOUS
    <2>2. Places \subseteq Int /\ x0' \in Int
        BY <1>2, Facts
    <2> QED
        BY <2>1, <2>2, Zenon
<1>4. 1 \in 1..nn'
    BY <1>2
<1>5. InsertInv'
    BY <1>1, <1>2, <1>3, <1>4 DEF InsertInv
<1> QED
    BY <1>1, <1>2, <1>5 DEF SortInv, PartitionInv, BoundsInv

\* The value a segment is split at is one of its elements.
LEMMA PivotInt ==
    ASSUME input \in Inputs, x \in [Places -> Int], NEW a \in Nat, NEW n \in Nat \ {0}, a + n <= input.size
    PROVE  Pivot(a, n) \in Int
<1>1. Places = 0..(input.size - 1) /\ input.size \in Nat
    BY PlacesType
<1>2. n \div 2 \in Nat /\ n \div 2 <= n - 1
    OBVIOUS
<1>3. a \in Places /\ a + n \div 2 \in Places /\ a + n - 1 \in Places
    BY <1>1, <1>2
<1>4. ASSUME ~(n < MinMedian9)
      PROVE  /\ a + 1 \in Places /\ a + 2 \in Places /\ a + n - 2 \in Places /\ a + n - 3 \in Places
             /\ a + n \div 2 - 1 \in Places /\ a + n \div 2 + 1 \in Places
    <2>1. n >= 3 /\ n \div 2 >= 1 /\ n \div 2 + 1 <= n - 1
        BY <1>4, SizesAssumption
    <2> QED
        BY <1>1, <1>2, <2>1
<1>5. \A b, c, d \in Int : Median(b, c, d) \in Int
    BY DEF Median
<1>6. CASE n < MinMedian9
    BY <1>3, <1>5, <1>6 DEF Pivot
<1>7. CASE ~(n < MinMedian9)
    <2>1. /\ x[a] \in Int /\ x[a + 1] \in Int /\ x[a + 2] \in Int
          /\ x[a + n \div 2 - 1] \in Int /\ x[a + n \div 2] \in Int /\ x[a + n \div 2 + 1] \in Int
          /\ x[a + n - 3] \in Int /\ x[a + n - 2] \in Int /\ x[a + n - 1] \in Int
        BY <1>3, <1>4, <1>7
    <2> QED
        BY <1>5, <1>7, <2>1 DEF Pivot
<1> QED
    BY <1>6, <1>7

\* A segment to be split.
LEMMA TakeLongPreserves == SortInv /\ TakeLong => SortInv'
<1> SUFFICES ASSUME SortInv, TakeLong PROVE SortInv'
    OBVIOUS
<1>1. /\ pc' = "up" /\ x' = x /\ y' = y /\ Take /\ stack # <<>> /\ x0' = Top.addr /\ nn' = Top.len
      /\ v' = Pivot(Top.addr, Top.len)
      /\ xa' = x0' /\ xb' = x0' /\ xc' = x0' + nn' - 1 /\ xd' = x0' + nn' - 1
    BY DEF TakeLong, Take
<1>2. v' \in Int
    <2>1. stack \in Seq(Segment) /\ x \in [Places -> Int] /\ input \in Inputs /\ SegmentsInv
        BY DEF SortInv, ArrayInv, TypeInv
    <2>2. Len(stack) \in DOMAIN stack /\ Top \in Segment
        BY <1>1, <2>1, EmptySeq, LenProperties, ElementOfSeq DEF Top
    <2>3. Top.addr \in Nat /\ Top.len \in Nat \ {0} /\ Top.addr + Top.len <= input.size
        BY <2>1, <2>2 DEF Segment, SegmentsInv, Top
    <2> QED
        BY <1>1, <2>1, <2>3, PivotInt
<1>3. ArrayInv' /\ nn' \in Nat \ {0} /\ x0' \in Nat /\ Places' \subseteq Int
    BY <1>1, <1>2, Taken, Facts DEF Busy
<1>4. BoundsInv'
    BY <1>1, <1>3 DEF BoundsInv
<1>5. LowerInv' /\ UpperInv'
    BY <1>1, <1>3 DEF LowerInv, UpperInv
<1> QED
    BY <1>1, <1>3, <1>4, <1>5 DEF SortInv, InsertInv, PartitionInv

\* One more element of a short segment is in its place.
LEMMA InsertPreserves == SortInv /\ Insert => SortInv'
<1> SUFFICES ASSUME SortInv, Insert PROVE SortInv'
    OBVIOUS
<1>1. /\ pc = "insert" /\ pc' = "insert" /\ UNCHANGED segment /\ v' = v /\ i < nn /\ i' = i + 1
      /\ Busy /\ Busy' /\ Places' = Places /\ x0' = x0 /\ nn' = nn
    BY DEF Insert, Busy, segment, Places
<1>2. /\ v \in Int /\ x0 \in Nat /\ nn \in Nat /\ x \in [Places -> Int] /\ y \in [Places -> Places]
      /\ Places = 0..(input.size - 1) /\ input.size \in Nat /\ x0 + nn <= input.size /\ ArrayInv
    BY <1>1, Facts
<1>3. /\ i \in 1..nn
      /\ \A p, q \in Places : x0 <= p /\ p < q /\ q < x0 + i => x[p] <= x[q]
    BY <1>1 DEF SortInv, InsertInv
<1>4. PICK r \in x0..(x0 + i) :
          /\ \A q \in r..(x0 + i - 1) : x[q] > x[x0 + i]
          /\ r > x0 => x[r - 1] <= x[x0 + i]
          /\ x' = InsertAt(x, r) /\ y' = InsertAt(y, r)
    BY DEF Insert
<1> DEFINE f == [q \in Places |-> IF q = r THEN x0 + i ELSE IF r < q /\ q <= x0 + i THEN q - 1 ELSE q]
<1>5. /\ f \in [Places -> Places]
      /\ \A p \in Places : InCurrent(p) => InCurrent(f[p])
      /\ \A p \in Places : ~InCurrent(p) => f[p] = p
      /\ \A p, q \in Places : p < q => f[p] # f[q]
    BY <1>1, <1>2, <1>3 DEF InCurrent
<1>6. /\ x' = [q \in Places |-> x[f[q]]]
      /\ y' = [q \in Places |-> y[f[q]]]
    BY <1>1, <1>2, <1>3, <1>4 DEF InsertAt
<1>7. \A q \in Places : x'[q] = IF q = r THEN x[x0 + i] ELSE IF r < q /\ q <= x0 + i THEN x[q - 1] ELSE x[q]
    BY <1>6
<1> HIDE DEF f
<1>8. ArrayInv'
    BY <1>1, <1>2, <1>5, <1>6, Rearranged
<1>9. ASSUME NEW p \in Places, NEW q \in Places, x0 <= p, p < q, q < x0 + i + 1
      PROVE  x'[p] <= x'[q]
    <2>0. p \in Int /\ q \in Int /\ r \in Int /\ i \in Int /\ x0 + i \in Places
        BY <1>1, <1>2, <1>3, <1>4
    <2>1. CASE q < r
        BY <1>2, <1>3, <1>4, <1>7, <1>9, <2>0, <2>1
    <2>2. CASE q = r
        <3>1. r - 1 \in Places /\ x[r - 1] <= x[x0 + i]
            BY <1>2, <1>4, <1>9, <2>0, <2>2
        <3>2. x[p] <= x[r - 1]
            <4>1. p <= r - 1 /\ r - 1 < x0 + i
                BY <1>2, <1>3, <1>4, <1>9, <2>0, <2>2
            <4>2. CASE p = r - 1
                BY <1>2, <3>1, <4>2
            <4>3. CASE p < r - 1
                BY <1>3, <1>9, <3>1, <4>1, <4>3
            <4> QED
                BY <2>0, <4>1, <4>2, <4>3
        <3>3. x'[p] = x[p] /\ x'[q] = x[x0 + i]
            BY <1>7, <1>9, <2>0, <2>2
        <3>4. x[p] \in Int /\ x[r - 1] \in Int /\ x[x0 + i] \in Int
            BY <1>2, <2>0, <3>1
        <3> QED
            BY <3>1, <3>2, <3>3, <3>4
    <2>3. CASE q > r
        <3>1. q - 1 \in Places /\ x'[q] = x[q - 1] /\ q - 1 \in r..(x0 + i - 1) /\ x[q - 1] > x[x0 + i]
            BY <1>2, <1>4, <1>7, <1>9, <2>0, <2>3
        <3>2. CASE p = r
            BY <1>2, <1>7, <2>0, <3>1, <3>2, SMTT(30)
        <3>3. CASE p < r
            BY <1>2, <1>3, <1>7, <1>9, <2>0, <2>3, <3>1, <3>3
        <3>4. CASE p > r
            <4>1. p - 1 \in Places /\ x'[p] = x[p - 1] /\ x0 <= p - 1
                BY <1>2, <1>4, <1>7, <1>9, <2>0, <3>4
            <4> QED
                BY <1>2, <1>3, <1>9, <2>0, <3>1, <4>1
        <3> QED
            BY <2>0, <3>2, <3>3, <3>4
    <2> QED
        BY <2>0, <2>1, <2>2, <2>3
<1>10. InsertInv'
    BY <1>1, <1>2, <1>3, <1>9 DEF InsertInv
<1> QED
    BY <1>1, <1>8, <1>10 DEF SortInv, PartitionInv, BoundsInv

\* A segment is done: it ascends, or its parts are pushed on the stack.
LEMMA InsertedPreserves == SortInv /\ Inserted => SortInv'
<1> SUFFICES ASSUME SortInv, Inserted PROVE SortInv'
    OBVIOUS
<1>1. /\ pc = "insert" /\ pc' = "take" /\ input' = input /\ stack' = stack /\ x0' = x0 /\ nn' = nn
      /\ v' = v /\ x' = x /\ y' = y /\ i >= nn
      /\ Busy /\ ~Busy' /\ Places' = Places
    BY DEF Inserted, Busy, segment, Places
<1>2. ArrayInv /\ TypeInv /\ SegmentsInv /\ Ordered /\ Permuted /\ nn \in Nat /\ x0 \in Nat
    BY Facts DEF ArrayInv
<1>3. \A p, q \in Places : InCurrent(p) /\ InCurrent(q) /\ p < q => x[p] <= x[q]
    BY <1>1, <1>2 DEF SortInv, InsertInv, InCurrent
<1>4. TypeInv'
    BY <1>1, <1>2 DEF TypeInv
<1>5. SegmentsInv'
    BY <1>1, <1>2 DEF SegmentsInv, In
<1>6. Ordered'
    BY <1>1, <1>2, <1>3 DEF Ordered, In
<1>7. Permuted'
    BY <1>1, <1>2 DEF Permuted
<1> QED
    BY <1>1, <1>4, <1>5, <1>6, <1>7 DEF SortInv, ArrayInv, InsertInv, PartitionInv, BoundsInv

\* What is pushed: the part of the lesser elements and that of the greater ones, where they
\* are longer than one, the shorter one last.
LesserSegment == [addr |-> x0, len |-> Less]
GreaterSegment == [addr |-> x0 + nn - Greater, len |-> Greater]

\* The parts to be pushed are the lesser and the greater elements, if there are several.
LEMMA PartsType ==
    ASSUME x0 \in Nat, Less \in Int, Greater \in Int, x0 + nn - Greater \in Nat
    PROVE  /\ Parts \in Seq(Segment) /\ Len(Parts) \in 0..2
           /\ \A h \in 1..Len(Parts) :
                  \/ Less > 1 /\ Parts[h] = LesserSegment
                  \/ Greater > 1 /\ Parts[h] = GreaterSegment
           /\ Less > 1 => \E h \in 1..Len(Parts) : Parts[h] = LesserSegment
           /\ Greater > 1 => \E h \in 1..Len(Parts) : Parts[h] = GreaterSegment
           /\ Len(Parts) = 2 =>
                  \/ Parts[1] = LesserSegment /\ Parts[2] = GreaterSegment /\ Less > Greater
                  \/ Parts[1] = GreaterSegment /\ Parts[2] = LesserSegment /\ Less <= Greater
<1>1. Less > 1 => LesserSegment \in Segment
    BY DEF LesserSegment, Segment
<1>2. Greater > 1 => GreaterSegment \in Segment
    BY DEF GreaterSegment, Segment
<1>3. /\ LessPart = IF Less > 1 THEN <<LesserSegment>> ELSE <<>>
      /\ GreaterPart = IF Greater > 1 THEN <<GreaterSegment>> ELSE <<>>
    BY DEF LessPart, GreaterPart, LesserSegment, GreaterSegment
<1>4. CASE Less > 1 /\ Greater > 1
    <2> DEFINE both(a, b) == <<a>> \o <<b>>
    <2>1. \A a, b \in Segment : /\ <<a>> \o <<b>> \in Seq(Segment) /\ Len(<<a>> \o <<b>>) = 2
                                /\ (<<a>> \o <<b>>)[1] = a /\ (<<a>> \o <<b>>)[2] = b
        <3> TAKE a, b \in Segment
        <3>1. <<a>> \in Seq(Segment) /\ <<b>> \in Seq(Segment) /\ Len(<<a>>) = 1 /\ Len(<<b>>) = 1
              /\ <<a>>[1] = a /\ <<b>>[1] = b
            BY SingletonSeq
        <3> HIDE DEF both
        <3> QED
            BY <3>1, ConcatProperties
    <2>2. CASE Less > Greater
        <3>1. Parts = <<LesserSegment>> \o <<GreaterSegment>>
            BY <1>3, <1>4, <2>2 DEF Parts
        <3>2. /\ Parts \in Seq(Segment) /\ Len(Parts) = 2
              /\ Parts[1] = LesserSegment /\ Parts[2] = GreaterSegment
            BY <1>1, <1>2, <1>4, <2>1, <3>1
        <3> QED
            BY <1>4, <2>2, <3>2
    <2>3. CASE ~(Less > Greater)
        <3>1. Parts = <<GreaterSegment>> \o <<LesserSegment>>
            BY <1>3, <1>4, <2>3 DEF Parts
        <3>2. /\ Parts \in Seq(Segment) /\ Len(Parts) = 2
              /\ Parts[1] = GreaterSegment /\ Parts[2] = LesserSegment
            BY <1>1, <1>2, <1>4, <2>1, <3>1
        <3> QED
            BY <1>4, <2>3, <3>2
    <2> QED
        BY <2>2, <2>3
<1>5. CASE Less > 1 /\ ~(Greater > 1)
    <2>1. Parts = <<LesserSegment>>
        BY <1>1, <1>3, <1>5, SingletonSeq, ConcatEmptySeq DEF Parts
    <2>2. Parts \in Seq(Segment) /\ Len(Parts) = 1 /\ Parts[1] = LesserSegment
        BY <1>1, <1>5, <2>1, SingletonSeq
    <2> QED
        BY <1>5, <2>2
<1>6. CASE ~(Less > 1) /\ Greater > 1
    <2>1. Parts = <<GreaterSegment>>
        BY <1>2, <1>3, <1>6, SingletonSeq, ConcatEmptySeq DEF Parts
    <2>2. Parts \in Seq(Segment) /\ Len(Parts) = 1 /\ Parts[1] = GreaterSegment
        BY <1>2, <1>6, <2>1, SingletonSeq
    <2> QED
        BY <1>6, <2>2
<1>7. CASE ~(Less > 1) /\ ~(Greater > 1)
    <2>1. Parts = <<>>
        BY <1>3, <1>7, EmptySeq, ConcatEmptySeq DEF Parts
    <2>2. Parts \in Seq(Segment) /\ Len(Parts) = 0
        BY <2>1, EmptySeq
    <2> QED
        BY <1>7, <2>2
<1> QED
    BY <1>4, <1>5, <1>6, <1>7

\* The stack after the parts are pushed, and how the segment was split.
LEMMA Pushed ==
    ASSUME SortInv, Push
    PROVE  /\ Less \in Nat /\ Greater \in Nat /\ Less + Greater <= nn
           /\ x0 + Less <= xb /\ xb <= x0 + nn - Greater
           /\ stack \in Seq(Segment) /\ stack' \in Seq(Segment) /\ Len(stack) \in Nat
           /\ Len(Parts) \in 0..2 /\ Len(stack') = Len(stack) + Len(Parts)
           /\ DOMAIN stack = 1..Len(stack) /\ DOMAIN stack' = 1..Len(stack')
           /\ \A h \in 1..Len(stack) : stack'[h] = stack[h]
           /\ \A h \in 1..Len(Parts) : stack'[Len(stack) + h] = Parts[h]
<1>1. pc = "right" /\ stack' = stack \o Parts
    BY DEF Push
<1>2. /\ x0 \in Nat /\ nn \in Nat /\ xa \in Nat /\ xb \in Nat /\ xc \in Int /\ xd \in Int
      /\ x0 <= xa /\ xa <= xb /\ xc <= xd /\ xd <= x0 + nn - 1
    BY <1>1, Facts
<1>3. xb = xc + 1
    BY <1>1 DEF SortInv, PartitionInv
<1>4. /\ Less \in Nat /\ Greater \in Nat /\ Less + Greater <= nn
      /\ x0 + Less <= xb /\ xb <= x0 + nn - Greater
    BY <1>2, <1>3 DEF Less, Greater
<1>5. stack \in Seq(Segment)
    BY DEF SortInv, ArrayInv, TypeInv
<1>6. x0 + nn - Greater \in Nat
    BY <1>2, <1>4
<1>7. Parts \in Seq(Segment) /\ Len(Parts) \in 0..2
    BY <1>2, <1>4, <1>6, PartsType
<1>8. Len(stack) \in Nat /\ DOMAIN stack = 1..Len(stack)
    BY <1>5, LenProperties
<1>9. /\ stack' \in Seq(Segment) /\ Len(stack') = Len(stack) + Len(Parts)
      /\ \A h \in 1..(Len(stack) + Len(Parts)) :
             stack'[h] = IF h <= Len(stack) THEN stack[h] ELSE Parts[h - Len(stack)]
    BY <1>1, <1>5, <1>7, ConcatProperties
<1>10. DOMAIN stack' = 1..Len(stack')
    BY <1>9, LenProperties
<1>11. \A h \in 1..Len(stack) : stack'[h] = stack[h]
    BY <1>7, <1>8, <1>9
<1>12. \A h \in 1..Len(Parts) : stack'[Len(stack) + h] = Parts[h]
    <2> SUFFICES ASSUME NEW h \in 1..Len(Parts) PROVE stack'[Len(stack) + h] = Parts[h]
        OBVIOUS
    <2> DEFINE k == Len(stack) + h
    <2>1. k \in 1..(Len(stack) + Len(Parts)) /\ ~(k <= Len(stack)) /\ k - Len(stack) = h
        BY <1>7, <1>8
    <2> QED
        BY <1>9, <2>1
<1> QED
    BY <1>4, <1>5, <1>7, <1>8, <1>9, <1>10, <1>11, <1>12

\* The parts are pushed: elements of different parts are in order.
LEMMA PushPreserves == SortInv /\ Push => SortInv'
<1> SUFFICES ASSUME SortInv, Push PROVE SortInv'
    OBVIOUS
<1>1. /\ pc = "right" /\ s = 0 /\ pc' = "take" /\ Busy /\ ~Busy'
      /\ input' = input /\ Places' = Places /\ x' = x /\ y' = y /\ x0' = x0 /\ nn' = nn /\ v' = v
    BY DEF Push, Busy, Places
<1>2. /\ v \in Int /\ x0 \in Nat /\ nn \in Nat /\ x \in [Places -> Int] /\ Places = 0..(input.size - 1)
      /\ xa \in Nat /\ xb \in Nat /\ xc \in Int /\ xd \in Int /\ input.size \in Nat
      /\ x0 <= xa /\ xa <= xb /\ xc <= xd /\ xd <= x0 + nn - 1 /\ x0 + nn <= input.size /\ ArrayInv
    BY <1>1, Facts
<1>3. RightInv /\ xb = xc + 1
    BY <1>1 DEF SortInv, PartitionInv
<1>4. TypeInv /\ SegmentsInv /\ Ordered /\ Permuted
    BY <1>2 DEF ArrayInv
<1>5. /\ \A p \in Places : x0 <= p /\ p < xb => IF p < x0 + Less THEN x[p] < v ELSE x[p] = v
      /\ \A p \in Places : xb <= p /\ p < x0 + nn => IF x0 + nn - Greater <= p THEN x[p] > v ELSE x[p] = v
    BY <1>1, <1>2, <1>3 DEF RightInv, Least, AtEnd, Greater, Less
<1> DEFINE L == Len(stack)
<1>6. /\ Less \in Nat /\ Greater \in Nat /\ Less + Greater <= nn
      /\ x0 + Less <= xb /\ xb <= x0 + nn - Greater
      /\ stack \in Seq(Segment) /\ stack' \in Seq(Segment) /\ L \in Nat
      /\ Len(Parts) \in 0..2 /\ Len(stack') = L + Len(Parts)
      /\ DOMAIN stack = 1..L /\ DOMAIN stack' = 1..(L + Len(Parts))
      /\ \A h \in 1..L : stack'[h] = stack[h]
      /\ \A h \in 1..Len(Parts) : stack'[L + h] = Parts[h]
    BY Pushed
<1>7. x0 + nn - Greater \in Nat
    BY <1>2, <1>6, SMTT(30)
<1>8. /\ \A h \in 1..Len(Parts) :
             \/ Less > 1 /\ Parts[h] = LesserSegment
             \/ Greater > 1 /\ Parts[h] = GreaterSegment
      /\ Less > 1 => \E h \in 1..Len(Parts) : Parts[h] = LesserSegment
      /\ Greater > 1 => \E h \in 1..Len(Parts) : Parts[h] = GreaterSegment
      /\ Len(Parts) = 2 =>
             \/ Parts[1] = LesserSegment /\ Parts[2] = GreaterSegment
             \/ Parts[1] = GreaterSegment /\ Parts[2] = LesserSegment
    BY <1>2, <1>6, <1>7, PartsType
<1> HIDE DEF L
<1>9. /\ \A p : In(LesserSegment, p) <=> x0 <= p /\ p < x0 + Less
      /\ \A p : In(GreaterSegment, p) <=> x0 + nn - Greater <= p /\ p < x0 + nn - Greater + Greater
      /\ LesserSegment.addr + LesserSegment.len = x0 + Less
      /\ GreaterSegment.addr + GreaterSegment.len = x0 + nn
    <2>1. x0 + nn - Greater + Greater = x0 + nn
        BY <1>2, <1>6
    <2> QED
        BY <2>1 DEF In, LesserSegment, GreaterSegment
<1>10. \A h \in DOMAIN stack' : (h \in DOMAIN stack /\ stack'[h] = stack[h])
                                \/ \E k \in 1..Len(Parts) : h = L + k /\ stack'[h] = Parts[k]
    <2> SUFFICES ASSUME NEW h \in 1..(L + Len(Parts)), ~(h \in 1..L)
                 PROVE  \E k \in 1..Len(Parts) : h = L + k /\ stack'[h] = Parts[k]
        BY <1>6
    <2>1. h - L \in 1..Len(Parts) /\ h = L + (h - L)
        BY <1>6
    <2> QED
        BY <1>6, <2>1
<1>11. \A h \in 1..Len(Parts) : \A p \in Places : In(Parts[h], p) => InCurrent(p)
    BY <1>2, <1>6, <1>8, <1>9, SMTT(30) DEF InCurrent
<1>12. \A g, h \in 1..Len(Parts) : \A p \in Places : g # h => ~(In(Parts[g], p) /\ In(Parts[h], p))
    <2> SUFFICES ASSUME NEW g \in 1..Len(Parts), NEW h \in 1..Len(Parts), NEW p \in Places, g # h
                 PROVE  ~(In(Parts[g], p) /\ In(Parts[h], p))
        OBVIOUS
    <2>1. Len(Parts) = 2 /\ {g, h} = {1, 2}
        BY <1>6
    <2>2. ~(In(LesserSegment, p) /\ In(GreaterSegment, p))
        BY <1>2, <1>6, <1>9
    <2> QED
        BY <1>8, <2>1, <2>2
<1>13. TypeInv'
    BY <1>1, <1>4, <1>6 DEF TypeInv
<1>14. SegmentsInv'
    <2>1. \A h \in DOMAIN stack' : stack'[h].addr + stack'[h].len <= input.size
        <3> SUFFICES ASSUME NEW h \in DOMAIN stack' PROVE stack'[h].addr + stack'[h].len <= input.size
            OBVIOUS
        <3>1. CASE h \in DOMAIN stack /\ stack'[h] = stack[h]
            BY <1>4, <3>1 DEF SegmentsInv
        <3>2. CASE \E k \in 1..Len(Parts) : h = L + k /\ stack'[h] = Parts[k]
            <4>1. stack'[h] = LesserSegment \/ stack'[h] = GreaterSegment
                BY <1>8, <3>2
            <4>2. x0 + Less <= input.size /\ x0 + nn <= input.size
                BY <1>2, <1>6
            <4> QED
                BY <1>9, <4>1, <4>2
        <3> QED
            BY <1>10, <3>1, <3>2
    <2>2. ASSUME NEW g \in DOMAIN stack', NEW h \in DOMAIN stack', NEW p \in Places, g # h
          PROVE  ~(In(stack'[g], p) /\ In(stack'[h], p))
        <3>1. CASE g \in DOMAIN stack /\ h \in DOMAIN stack
            BY <1>4, <1>6, <2>2, <3>1 DEF SegmentsInv
        <3>2. CASE g \in DOMAIN stack /\ ~(h \in DOMAIN stack)
            BY <1>1, <1>4, <1>6, <1>10, <1>11, <2>2, <3>2 DEF SegmentsInv
        <3>3. CASE ~(g \in DOMAIN stack) /\ h \in DOMAIN stack
            BY <1>1, <1>4, <1>6, <1>10, <1>11, <2>2, <3>3 DEF SegmentsInv
        <3>4. CASE ~(g \in DOMAIN stack) /\ ~(h \in DOMAIN stack)
            BY <1>10, <1>12, <2>2, <3>4
        <3> QED
            BY <3>1, <3>2, <3>3, <3>4
    <2> QED
        BY <1>1, <2>1, <2>2 DEF SegmentsInv, In
<1>15. Ordered'
    <2> SUFFICES ASSUME NEW p \in Places, NEW q \in Places, p < q, ~(x[p] <= x[q])
                 PROVE  \E h \in DOMAIN stack' : In(stack'[h], p) /\ In(stack'[h], q)
        BY <1>1 DEF Ordered, In
    <2>0. /\ p \in Int /\ q \in Int /\ x[p] \in Int /\ x[q] \in Int
          /\ x0 \in Int /\ Less \in Int /\ p < q
        BY <1>2, <1>6
    <2>1. CASE \E h \in DOMAIN stack : In(stack[h], p) /\ In(stack[h], q)
        <3>1. PICK h \in DOMAIN stack : In(stack[h], p) /\ In(stack[h], q)
            BY <2>1
        <3>2. h \in DOMAIN stack' /\ stack'[h] = stack[h]
            BY <1>6, <3>1
        <3> QED
            BY <3>1, <3>2
    <2>2. CASE InCurrent(p) /\ InCurrent(q)
        <3>1. x0 <= p /\ p < x0 + nn /\ x0 <= q /\ q < x0 + nn
            BY <2>2 DEF InCurrent
        <3>2. \A k \in 1..Len(Parts) : L + k \in DOMAIN stack' /\ stack'[L + k] = Parts[k]
            BY <1>6
        <3>3. CASE p < x0 + Less /\ q < x0 + Less
            <4>1. Less > 1
                BY <2>0, <3>1, <3>3
            <4>2. In(LesserSegment, p) /\ In(LesserSegment, q)
                BY <1>9, <3>1, <3>3
            <4> QED
                BY <1>8, <3>2, <4>1, <4>2
        <3>4. CASE x0 + nn - Greater <= p
            <4>1. Greater > 1 /\ In(GreaterSegment, p) /\ In(GreaterSegment, q)
                BY <1>2, <1>6, <1>9, <2>0, <3>1, <3>4, SMTT(30)
            <4> QED
                BY <1>8, <3>2, <4>1
        <3>5. CASE ~(p < x0 + Less /\ q < x0 + Less) /\ p < x0 + nn - Greater
            <4>1. x[p] <= v
                BY <1>2, <1>5, <1>6, <2>0, <3>1, <3>5
            <4>2. x[q] >= v
                <5>1. q >= x0 + Less
                    BY <2>0, <3>5
                <5> QED
                    BY <1>2, <1>5, <1>6, <2>0, <3>1, <5>1
            <4> QED
                BY <1>2, <2>0, <4>1, <4>2
        <3> QED
            BY <1>2, <1>6, <2>0, <3>3, <3>4, <3>5
    <2> QED
        BY <1>4, <2>1, <2>2 DEF Ordered
<1>16. Permuted'
    BY <1>1, <1>4 DEF Permuted
<1> QED
    BY <1>1, <1>13, <1>14, <1>15, <1>16 DEF SortInv, ArrayInv, InsertInv, PartitionInv, BoundsInv

\* The stack is empty.
LEMMA ReturnPreserves == SortInv /\ Return => SortInv'
<1> SUFFICES ASSUME SortInv, Return PROVE SortInv'
    OBVIOUS
<1>1. /\ pc = "take" /\ pc' = "done" /\ UNCHANGED <<segment, x, y>> /\ v' = v /\ stack' = <<>>
      /\ (Busy <=> Busy')
    BY DEF Return, Busy, segment
<1>2. ArrayInv'
    BY <1>1, Facts, Resumed
<1> QED
    BY <1>1, <1>2 DEF SortInv, InsertInv, PartitionInv, BoundsInv

\* Steps that change nothing.
LEMMA StutterPreserves == SortInv /\ UNCHANGED vars => SortInv'
BY DEF SortInv, ArrayInv, TypeInv, SegmentsInv, Ordered, Permuted, InsertInv, PartitionInv, BoundsInv, LowerInv,
   UpperInv, LeftInv, RightInv, Least, AtStart, AtEnd, Less, Greater, CanRise, Places, In, InCurrent, Busy,
   vars, segment, bounds, moves

\* The inductive invariant: two elements are only out of order inside a segment that is
\* still to be sorted, and what the partition has split off is less or greater.
THEOREM SortInvariant == Spec => []SortInv
<1>1. ASSUME SortInv, [Next]_vars
      PROVE  SortInv'
    <2>1. CASE TakeShort
        BY <1>1, <2>1, TakeShortPreserves
    <2>2. CASE TakeLong
        BY <1>1, <2>2, TakeLongPreserves
    <2>3. CASE Insert
        BY <1>1, <2>3, InsertPreserves
    <2>4. CASE Inserted
        BY <1>1, <2>4, InsertedPreserves
    <2>5. CASE Rise
        BY <1>1, <2>5, RisePreserves
    <2>6. CASE Risen
        BY <1>1, <2>6, RisenPreserves
    <2>7. CASE Sink
        BY <1>1, <2>7, SinkPreserves
    <2>8. CASE Swap
        BY <1>1, <2>8, SwapPreserves
    <2>9. CASE Crossed
        BY <1>1, <2>9, CrossedPreserves
    <2>10. CASE MoveLeft
        BY <1>1, <2>10, MoveLeftPreserves
    <2>11. CASE MovedLeft
        BY <1>1, <2>11, MovedLeftPreserves
    <2>12. CASE MoveRight
        BY <1>1, <2>12, MoveRightPreserves
    <2>13. CASE Push
        BY <1>1, <2>13, PushPreserves
    <2>14. CASE Return
        BY <1>1, <2>14, ReturnPreserves
    <2>15. CASE Done
        BY <1>1, <2>15, StutterPreserves DEF Done
    <2>16. CASE UNCHANGED vars
        BY <1>1, <2>16, StutterPreserves
    <2> QED
        BY <1>1, <2>1, <2>2, <2>3, <2>4, <2>5, <2>6, <2>7, <2>8, <2>9, <2>10, <2>11, <2>12, <2>13, <2>14, <2>15,
           <2>16 DEF Next
<1> QED
    BY <1>1, InitHolds, PTL DEF Spec

\* Whatever the array and however short the segments sorted by insertion: what is returned
\* is a permutation of it that ascends (sorttemplates.c:14-22).
THEOREM SortingCorrect == Spec => []Sorts
<1>1. SortInv => Sorts
    <2> SUFFICES ASSUME SortInv, pc = "done"
                 PROVE  /\ \A p \in Places : y[p] \in Places /\ x[p] = input.keys[y[p]]
                        /\ \A p, q \in Places : p < q => y[p] # y[q] /\ x[p] <= x[q]
        BY DEF Sorts
    <2>1. stack = <<>> /\ ~Busy /\ Permuted /\ Ordered /\ y \in [Places -> Places]
        BY DEF SortInv, ArrayInv, TypeInv, Busy
    <2>2. \A p, q \in Places : p < q => x[p] <= x[q]
        BY <2>1 DEF Ordered
    <2> QED
        BY <2>1, <2>2 DEF Permuted
<1> QED
    BY <1>1, SortInvariant, PTL

-----------------------------------------------------------------------------
(* How far the stack grows.  Every segment waiting, and the one being      *)
(* sorted, which was on top of it, has a bound of its own.                 *)

HalvingInv ==
    \E bound \in [1..(Len(stack) + 1) -> 0..input.size] :
        /\ \A h \in 1..Len(stack) : stack[h].len <= bound[h]
        /\ \A h \in 2..(Len(stack) + 1) : 2 * bound[h] <= bound[h - 1]
        /\ Busy => nn <= bound[Len(stack) + 1]

\* The bounds at first: the size of the array.
LEMMA HalvingInit == Init => HalvingInv
<1> SUFFICES ASSUME Init PROVE HalvingInv
    OBVIOUS
<1>1. input.size \in Nat /\ ~Busy
    BY PlacesType DEF Init, Busy
<1>2. CASE input.size > 1
    <2>1. stack = <<[addr |-> 0, len |-> input.size]>>
        BY <1>2 DEF Init
    <2>2. Len(stack) = 1 /\ stack[1].len = input.size
        BY <2>1
    <2> DEFINE bound == [h \in 1..2 |-> IF h = 1 THEN input.size ELSE 0]
    <2>3. bound \in [1..2 -> 0..input.size] /\ bound[1] = input.size /\ bound[2] = 0
        BY <1>1
    <2> HIDE DEF bound
    <2>4. \A h \in 2..2 : 2 * bound[h] <= bound[h - 1]
        BY <1>1, <2>3
    <2>5. bound \in [1..(Len(stack) + 1) -> 0..input.size]
        BY <2>2, <2>3
    <2>6. \A h \in 1..Len(stack) : stack[h].len <= bound[h]
        BY <1>1, <2>2, <2>3
    <2>7. \A h \in 2..(Len(stack) + 1) : 2 * bound[h] <= bound[h - 1]
        BY <2>2, <2>4
    <2> QED
        BY <1>1, <2>5, <2>6, <2>7 DEF HalvingInv
<1>3. CASE ~(input.size > 1)
    <2>1. stack = <<>> /\ Len(stack) = 0
        BY <1>3, EmptySeq DEF Init
    <2> DEFINE bound == [h \in 1..1 |-> 0]
    <2>2. bound \in [1..(Len(stack) + 1) -> 0..input.size]
        BY <1>1, <2>1
    <2> HIDE DEF bound
    <2> QED
        BY <1>1, <2>1, <2>2 DEF HalvingInv
<1> QED
    BY <1>2, <1>3

\* Steps that neither take nor push a segment.
LEMMA HalvingKept ==
    ASSUME HalvingInv, input' = input, stack' = stack, nn' = nn, Busy' => Busy
    PROVE  HalvingInv'
BY DEF HalvingInv

\* The bound of the segment taken off stays its bound while it is sorted.
LEMMA HalvingTake ==
    ASSUME SortInv, HalvingInv, Take
    PROVE  HalvingInv'
<1> DEFINE n == Len(stack)
<1>1. /\ pc = "take" /\ input' = input /\ stack # <<>>
      /\ stack' = SubSeq(stack, 1, Len(stack) - 1)
    BY DEF Take
<1>2. stack \in Seq(Segment)
    BY DEF SortInv, ArrayInv, TypeInv
<1>3. n \in Nat \ {0}
    BY <1>1, <1>2, WithoutLast
<1>4. Len(stack') = n - 1 /\ \A h \in 1..(n - 1) : stack'[h] = stack[h]
    <2>1. stack' \in Seq(Segment) /\ \A h \in 1..(n - 1) : stack'[h] = stack[h]
        BY <1>1, <1>2, WithoutLast
    <2>2. Len(SubSeq(stack, 1, Len(stack) - 1)) = Len(stack) - 1
        BY <1>1, <1>2, WithoutLast
    <2> QED
        BY <1>1, <2>1, <2>2
<1>5. PICK bound \in [1..(n + 1) -> 0..input.size] :
          /\ \A h \in 1..n : stack[h].len <= bound[h]
          /\ \A h \in 2..(n + 1) : 2 * bound[h] <= bound[h - 1]
    BY DEF HalvingInv
<1> DEFINE below == [h \in 1..n |-> bound[h]]
<1>6. nn' = stack[n].len
    BY DEF Take, Top
<1> HIDE DEF n
<1>7. below \in [1..n -> 0..input.size] /\ \A h \in 1..n : below[h] = bound[h]
    BY <1>3, <1>5
<1> HIDE DEF below
<1>8. \A h \in 1..(n - 1) : stack'[h].len <= below[h]
    <2> SUFFICES ASSUME NEW h \in 1..(n - 1) PROVE stack'[h].len <= below[h]
        OBVIOUS
    <2>1. h \in 1..n /\ stack'[h] = stack[h]
        BY <1>3, <1>4
    <2> QED
        BY <1>5, <1>7, <2>1
<1>9. \A h \in 2..n : 2 * below[h] <= below[h - 1]
    BY <1>3, <1>5, <1>7
<1>10. nn' <= below[n]
    BY <1>3, <1>5, <1>6, <1>7
<1>11. Len(stack') + 1 = n
    BY <1>3, <1>4
<1> QED
    BY <1>1, <1>4, <1>7, <1>8, <1>9, <1>10, <1>11 DEF HalvingInv

\* The longer part is shorter than the segment, and the shorter one half of it.
LEMMA HalvingPush ==
    ASSUME SortInv, HalvingInv, Push
    PROVE  HalvingInv'
<1> DEFINE n == Len(stack)
           k == Len(Parts)
<1>1. pc = "right" /\ Busy /\ ~Busy' /\ input' = input
    BY DEF Push, Busy
<1>2. /\ Less \in Nat /\ Greater \in Nat /\ Less + Greater <= nn
      /\ n \in Nat /\ k \in 0..2 /\ Len(stack') = n + k
      /\ \A h \in 1..n : stack'[h] = stack[h]
      /\ \A h \in 1..k : stack'[n + h] = Parts[h]
    BY Pushed
<1>3. x0 \in Nat /\ nn \in Nat /\ input.size \in Nat /\ x0 + nn <= input.size
    BY <1>1, Facts
<1>4. x0 + nn - Greater \in Nat
    BY <1>2, <1>3
<1>5. /\ \A h \in 1..k : Parts[h] = LesserSegment \/ Parts[h] = GreaterSegment
      /\ k = 2 => \/ Parts[1] = LesserSegment /\ Parts[2] = GreaterSegment /\ Less > Greater
                  \/ Parts[1] = GreaterSegment /\ Parts[2] = LesserSegment /\ Less <= Greater
    BY <1>2, <1>3, <1>4, PartsType, SMTT(30)
<1>6. LesserSegment.len = Less /\ GreaterSegment.len = Greater
    BY DEF LesserSegment, GreaterSegment
<1>7. PICK bound \in [1..(n + 1) -> 0..input.size] :
          /\ \A h \in 1..n : stack[h].len <= bound[h]
          /\ \A h \in 2..(n + 1) : 2 * bound[h] <= bound[h - 1]
          /\ nn <= bound[n + 1]
    BY <1>1 DEF HalvingInv
<1>8. \A h \in 1..k : Parts[h].len \in Nat /\ Parts[h].len <= nn
    <2> SUFFICES ASSUME NEW h \in 1..k PROVE Parts[h].len \in Nat /\ Parts[h].len <= nn
        OBVIOUS
    <2>1. Parts[h].len = Less \/ Parts[h].len = Greater
        BY <1>5, <1>6
    <2>2. Less <= nn /\ Greater <= nn
        BY <1>2, <1>3
    <2> QED
        BY <1>2, <2>1, <2>2
<1>9. k = 2 => 2 * Parts[2].len <= nn
    BY <1>2, <1>3, <1>5, <1>6
<1> HIDE DEF n, k
<1> DEFINE second == IF k = 2 THEN Parts[2].len ELSE 0
           new == [h \in 1..(n + k + 1) |-> IF h <= n + 1 THEN bound[h] ELSE IF h = n + 2 THEN second ELSE 0]
<1>10. second \in 0..input.size /\ 2 * second <= bound[n + 1]
    <2>1. bound[n + 1] \in 0..input.size
        BY <1>2, <1>7
    <2>2. CASE k = 2
        <3>1. Parts[2].len \in Nat /\ Parts[2].len <= nn /\ 2 * Parts[2].len <= nn
            BY <1>8, <1>9, <2>2
        <3> QED
            BY <1>3, <1>7, <2>1, <2>2, <3>1
    <2>3. CASE k # 2
        BY <1>3, <2>1, <2>3
    <2> QED
        BY <2>2, <2>3
<1> HIDE DEF second
<1>11. new \in [1..(n + k + 1) -> 0..input.size]
    BY <1>2, <1>3, <1>7, <1>10
<1>12. \A h \in 1..(n + k + 1) : new[h] = IF h <= n + 1 THEN bound[h] ELSE IF h = n + 2 THEN second ELSE 0
    OBVIOUS
<1> HIDE DEF new
<1>13. \A h \in 1..(n + k) : stack'[h].len <= new[h]
    <2> SUFFICES ASSUME NEW h \in 1..(n + k) PROVE stack'[h].len <= new[h]
        OBVIOUS
    <2>1. CASE h <= n
        <3>1. h \in 1..n /\ new[h] = bound[h]
            BY <1>2, <1>12, <2>1
        <3> QED
            BY <1>2, <1>7, <3>1
    <2>2. CASE h = n + 1
        <3>1. 1 \in 1..k /\ new[h] = bound[n + 1] /\ bound[n + 1] \in Int
            BY <1>2, <1>7, <1>12, <2>2
        <3>2. stack'[h] = Parts[1] /\ Parts[1].len \in Nat /\ Parts[1].len <= nn
            BY <1>2, <1>8, <2>2, <3>1
        <3> QED
            BY <1>3, <1>7, <3>1, <3>2
    <2>3. CASE h = n + 2
        <3>1. k = 2 /\ 2 \in 1..k /\ new[h] = second
            BY <1>2, <1>12, <2>3
        <3>2. stack'[h] = Parts[2] /\ second = Parts[2].len /\ Parts[2].len \in Nat
            BY <1>2, <1>8, <2>3, <3>1 DEF second
        <3> QED
            BY <3>1, <3>2
    <2> QED
        BY <1>2, <2>1, <2>2, <2>3
<1>14. \A h \in 2..(n + k + 1) : 2 * new[h] <= new[h - 1]
    <2> SUFFICES ASSUME NEW h \in 2..(n + k + 1) PROVE 2 * new[h] <= new[h - 1]
        OBVIOUS
    <2>1. CASE h <= n + 1
        <3>1. h \in 2..(n + 1) /\ new[h] = bound[h] /\ new[h - 1] = bound[h - 1]
            BY <1>2, <1>12, <2>1
        <3> QED
            BY <1>7, <3>1
    <2>2. CASE h = n + 2
        <3>1. new[h] = second /\ new[h - 1] = bound[n + 1]
            BY <1>2, <1>12, <2>2
        <3> QED
            BY <1>10, <3>1
    <2>3. CASE h > n + 2
        <3>1. new[h] = 0 /\ new[h - 1] \in 0..input.size
            BY <1>2, <1>11, <1>12, <2>3
        <3> QED
            BY <1>3, <3>1
    <2> QED
        BY <1>2, <2>1, <2>2, <2>3
<1> QED
    BY <1>1, <1>2, <1>11, <1>13, <1>14 DEF HalvingInv

\* Whatever the array: the lengths of the segments on the stack are bounded by halves of
\* one another, so that forty places are enough for any array.
THEOREM StackBounded == Spec => []StackHalves
<1>1. ASSUME SortInv, HalvingInv, [Next]_vars
      PROVE  HalvingInv'
    <2>1. CASE TakeShort \/ TakeLong
        BY <1>1, <2>1, HalvingTake DEF TakeShort, TakeLong
    <2>2. CASE Push
        BY <1>1, <2>2, HalvingPush
    <2>3. CASE \/ Insert \/ Inserted \/ Rise \/ Risen \/ Sink \/ Swap \/ Crossed
               \/ MoveLeft \/ MovedLeft \/ MoveRight
        <3>1. input' = input /\ stack' = stack /\ nn' = nn /\ Busy
            BY <2>3 DEF Insert, Inserted, Rise, Risen, Sink, Swap, Crossed, MoveLeft, MovedLeft, MoveRight, segment,
               Busy
        <3> QED
            BY <1>1, <3>1, HalvingKept
    <2>4. CASE Return \/ Done \/ UNCHANGED vars
        <3>1. input' = input /\ stack' = stack /\ nn' = nn /\ (Busy' => Busy)
            BY <2>4 DEF Return, Done, vars, segment, Busy
        <3> QED
            BY <1>1, <3>1, HalvingKept
    <2> QED
        BY <1>1, <2>1, <2>2, <2>3, <2>4 DEF Next
<1>2. ASSUME SortInv, HalvingInv
      PROVE  StackHalves
    <2>1. Len(stack) \in Nat /\ DOMAIN stack = 1..Len(stack)
        BY <1>2, LenProperties DEF SortInv, ArrayInv, TypeInv
    <2>2. PICK bound \in [1..(Len(stack) + 1) -> 0..input.size] :
              /\ \A h \in 1..Len(stack) : stack[h].len <= bound[h]
              /\ \A h \in 2..(Len(stack) + 1) : 2 * bound[h] <= bound[h - 1]
        BY <1>2 DEF HalvingInv
    <2> DEFINE b == [h \in DOMAIN stack |-> bound[h]]
    <2>3. b \in [DOMAIN stack -> 0..input.size]
        BY <2>1, <2>2
    <2>4. \A h \in DOMAIN stack : stack[h].len <= b[h]
        BY <2>1, <2>2
    <2>5. \A h \in DOMAIN stack : h > 1 => 2 * b[h] <= b[h - 1]
        BY <2>1, <2>2
    <2> HIDE DEF b
    <2> QED
        BY <2>3, <2>4, <2>5 DEF StackHalves
<1> QED
    BY <1>1, <1>2, HalvingInit, SortInvariant, PTL DEF Spec
=============================================================================
