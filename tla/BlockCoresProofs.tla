-------------------------- MODULE BlockCoresProofs --------------------------
(***************************************************************************)
(* Whatever the blocks and the limit, no intersection that is tried has    *)
(* more cores than the limit, two inherited cores or a conflicting pair,   *)
(* and the cores of a block match their canonical forms one to one.        *)
(***************************************************************************)
EXTENDS BlockCores, FiniteSetTheorems, SequenceTheorems, TLAPS

-----------------------------------------------------------------------------
(* Types.                                                                  *)

\* Intersections, and CPQs with the identity added, are CPQs.
LEMMA IntersectType ==
    ASSUME NEW n \in Nat, NEW list \in [1..n -> CPQs]
    PROVE  Intersect(list) \in CPQs
BY DEF Intersect, CPQs

\* A CPQ with the identity added is a CPQ.
LEMMA WithIdType ==
    ASSUME NEW q \in CPQs
    PROVE  WithId(q) \in CPQs
BY DEF WithId, CPQs

\* What addCore appends is a list of at most one CPQ.
LEMMA SavedType ==
    ASSUME NEW q \in CPQs, NEW noSave \in BOOLEAN
    PROVE  Saved(q, noSave) \in Seq(CPQs)
BY DEF Saved

\* addCore keeps a list of CPQs one, and never shortens it.
LEMMA AddCoreType ==
    ASSUME cores \in Seq(CPQs), NEW q \in CPQs, NEW noSave \in BOOLEAN, AddCore(q, noSave)
    PROVE  cores' \in Seq(CPQs) /\ Len(cores) <= Len(cores')
<1>1. cores' = cores \o Saved(q, noSave) /\ Saved(q, noSave) \in Seq(CPQs)
  BY SavedType DEF AddCore
<1> QED
  BY <1>1, ConcatProperties

\* NoSave is a condition.
LEMMA NoSaveType == NoSave \in BOOLEAN
BY DEF NoSave

\* The cores of a row of a block and the limit of a chain have their types.
LEMMA ChainType ==
    ASSUME TypeOK
    PROVE  /\ MaxIntersections \in Nat
           /\ chain.own \in Seq(Seq(CPQs)) /\ layer \in 1..Len(chain.own)
           /\ chain.own[layer] \in Seq(CPQs)
<1>1. chain.own \in Seq(Seq(CPQs)) /\ chain.maxIntersections \in Nat
  BY ChainsAssumption DEF TypeOK
<1>2. layer \in 1..Len(chain.own)
  BY DEF TypeOK
<1> QED
  BY <1>1, <1>2 DEF MaxIntersections

-----------------------------------------------------------------------------
(* The stack of calls and the selection.                                   *)

\* The ranges of the inherited and of the other cores are ranges of the list of cores.
CoresInRange ==
    /\ end <= Len(cores) \/ pc \in {"own", "done"}
    /\ pc = "own" => skip <= Len(cores)

\* Offsets rise along the stack, past the inherited cores after a pick; a call that
\* is under way has a core to pick.
Offsets ==
    /\ \A i \in DOMAIN stack :
        stack[i].step # "enter" => stack[i].offset <= end
    /\ \A i, j \in DOMAIN stack :
        i < j => /\ stack[i].step # "enter"
                 /\ stack[i].offset < stack[j].offset
                 /\ stack[i].step = "picked" => skip < stack[j].offset

\* The selection is what the calls at the positions p of the stack picked, and each
\* call found room for one more.
PickedBy(p) ==
    /\ \A i, j \in DOMAIN set : i < j => p[i] < p[j]
    /\ \A i \in DOMAIN set : stack[p[i]].step = "picked" /\ set[i] = stack[p[i]].offset
    /\ \A k \in DOMAIN stack : stack[k].step = "picked" => \E i \in DOMAIN set : p[i] = k
    /\ \A k \in DOMAIN stack : \A i \in DOMAIN set :
        stack[k].step # "enter" /\ p[i] < k => i < MaxIntersections

SelectionInv ==
    /\ TypeOK
    /\ CoresInRange
    /\ SelectionAdmissible
    /\ pc # "subsets" => stack = <<>> /\ set = <<>>
    /\ pc = "subsets" => MaxIntersections >= 3
    /\ Offsets
    /\ \E p \in [1..Len(set) -> 1..Len(stack)] : PickedBy(p)

\* A new chain starts without a selection.
LEMMA SelectionInit == Init => SelectionInv
<1> SUFFICES ASSUME Init PROVE SelectionInv
  OBVIOUS
<1>1. chain.own \in Seq(Seq(CPQs)) /\ chain.own # <<>> /\ chain.maxIntersections \in Nat
  BY ChainsAssumption DEF Init
<1>2. 1 \in 1..Len(chain.own)
  BY <1>1
<1>3. TypeOK
  BY <1>2 DEF Init, TypeOK
<1>4. [i \in 1..0 |-> 1] \in [1..Len(set) -> 1..Len(stack)] /\ PickedBy([i \in 1..0 |-> 1])
  BY DEF Init, PickedBy
<1>5. \E p \in [1..Len(set) -> 1..Len(stack)] : PickedBy(p)
  BY <1>4
<1>6. Len(set) = 0 /\ DOMAIN set = {} /\ DOMAIN stack = {} /\ MaxIntersections \in Nat
  BY <1>1 DEF Init, MaxIntersections
<1>7. Offsets /\ CoresInRange /\ SelectionAdmissible
  BY <1>6 DEF Init, Offsets, CoresInRange, SelectionAdmissible
<1> QED
  BY <1>3, <1>5, <1>7 DEF SelectionInv, Init

\* What a step of a loop outside computeIntersectionCores leaves alone.
LEMMA OutsideStep ==
    ASSUME SelectionInv, UNCHANGED <<bounds, search>>, pc' # "subsets", pc # "subsets",
           TypeOK', CoresInRange'
    PROVE  SelectionInv'
<1>1. set = <<>> /\ stack = <<>> /\ set' = <<>> /\ stack' = <<>>
  BY DEF SelectionInv, search
<1>2. MaxIntersections' \in Nat
  BY ChainType DEF SelectionInv, bounds, MaxIntersections
<1>3. Offsets' /\ SelectionAdmissible'
  BY <1>1, <1>2 DEF Offsets, SelectionAdmissible
<1>4. [i \in 1..0 |-> 1] \in [1..Len(set') -> 1..Len(stack')] /\ PickedBy([i \in 1..0 |-> 1])'
  BY <1>1 DEF PickedBy
<1> QED
  BY <1>1, <1>3, <1>4 DEF SelectionInv

\* Adding an own core only makes the list of cores longer.
LEMMA OwnCorePreserves ==
    ASSUME SelectionInv, OwnCore
    PROVE  SelectionInv'
<1>1. TypeOK /\ CoresInRange /\ pc = "own" /\ row \in Nat \ {0}
  BY DEF SelectionInv, OwnCore, TypeOK
<1>2. chain.own[layer] \in Seq(CPQs) /\ row \in 1..Len(chain.own[layer])
  BY <1>1, ChainType DEF OwnCore
<1>3. chain.own[layer][row] \in CPQs
  BY <1>2
<1>4. cores \in Seq(CPQs) /\ AddCore(chain.own[layer][row], FALSE)
  BY <1>1 DEF TypeOK, OwnCore
<1>5. cores' \in Seq(CPQs) /\ Len(cores) <= Len(cores')
  BY <1>3, <1>4, AddCoreType
<1>6. UNCHANGED <<chain, layer, skip, end, pc, col, held, stack, set>> /\ row' = row + 1
  BY DEF OwnCore, bounds, search
<1>7. TypeOK'
  BY <1>1, <1>5, <1>6 DEF TypeOK
<1>8. CoresInRange'
  BY <1>1, <1>5, <1>6 DEF CoresInRange, TypeOK
<1> QED
  BY <1>1, <1>6, <1>7, <1>8, OutsideStep DEF bounds, search

\* When the own cores are added, the range that is intersected is fixed.
LEMMA OwnDonePreserves ==
    ASSUME SelectionInv, OwnDone
    PROVE  SelectionInv'
<1>1. TypeOK /\ CoresInRange /\ pc = "own" /\ set = <<>> /\ stack = <<>> /\ MaxIntersections \in Nat
  BY ChainType DEF SelectionInv, OwnDone
<1>2. UNCHANGED <<chain, layer, skip, cores, stack, set>> /\ row' = skip + 1 /\ col' = 1 /\ held' = <<>>
  BY DEF OwnDone, search, collections
<1>3. end' = Len(cores) /\ skip <= Len(cores) /\ pc' \in {"pairs", "identity"}
  BY <1>1 DEF OwnDone, CoresInRange
<1>4. ASSUME pc' = "pairs"
      PROVE  TypeOK'
  <2>1. conflicts' = Conflicts
    BY <1>4 DEF OwnDone
  <2>2. conflicts' \in [1..end' -> SUBSET (1..end')] /\ \A i \in 1..end' : \A j \in conflicts'[i] : j < i
    BY <2>1, <1>1, <1>2, <1>3 DEF Conflicts, TypeOK
  <2> QED
    BY <2>2, <1>1, <1>2, <1>3 DEF TypeOK
<1>5. ASSUME pc' = "identity"
      PROVE  TypeOK'
  BY <1>5, <1>1, <1>2, <1>3 DEF TypeOK
<1>6. TypeOK'
  BY <1>3, <1>4, <1>5
<1>7. CoresInRange'
  BY <1>1, <1>2, <1>3 DEF CoresInRange, TypeOK
<1>8. Offsets' /\ SelectionAdmissible'
  BY <1>1, <1>2 DEF Offsets, SelectionAdmissible, MaxIntersections
<1>9. [i \in 1..0 |-> 1] \in [1..Len(set') -> 1..Len(stack')] /\ PickedBy([i \in 1..0 |-> 1])'
  BY <1>1, <1>2 DEF PickedBy
<1> QED
  BY <1>1, <1>2, <1>3, <1>6, <1>7, <1>8, <1>9 DEF SelectionInv

\* The loops over pairs keep the selection empty.
LEMMA PairsPreserve ==
    ASSUME SelectionInv, PairInConflict \/ HoldPair \/ NextRow
    PROVE  SelectionInv'
<1>1. TypeOK /\ CoresInRange /\ pc = "pairs" /\ pc' = "pairs" /\ row <= end
  BY DEF SelectionInv, PairInConflict, HoldPair, NextRow, InRow
<1>2. UNCHANGED <<chain, layer, skip, end, cores, stack, set>>
  BY DEF PairInConflict, HoldPair, NextRow, bounds, collections, search
<1>3. row' \in Nat \ {0} /\ col' \in Nat \ {0}
  BY <1>1, SMTT(30) DEF PairInConflict, HoldPair, NextRow, TypeOK
<1>4. ASSUME HoldPair
      PROVE  /\ held' \in Seq(CPQs)
             /\ conflicts' \in [1..end -> SUBSET (1..end)]
             /\ \A i \in 1..end : \A j \in conflicts'[i] : j < i
  <2> DEFINE q == Intersect(<<cores[row], cores[col]>>)
  <2>1. col < row /\ row \in 1..Len(cores) /\ col \in 1..Len(cores) /\ row \in 1..end /\ col \in 1..end
    BY <1>1, <1>4 DEF HoldPair, InRow, TypeOK, CoresInRange
  <2>2. <<cores[row], cores[col]>> \in [1..2 -> CPQs]
    BY <1>1, <2>1 DEF TypeOK
  <2>3. q \in CPQs
    BY <2>2, IntersectType
  <2>4. WithId(q) \in CPQs
    BY <2>3, WithIdType
  <2> HIDE DEF q
  <2>5. held' \in Seq(CPQs)
    <3>1. held' = held \o <<q, WithId(q)>> \/ held' = Append(held, q)
      BY <1>4 DEF HoldPair, q
    <3>2. <<q, WithId(q)>> \in Seq(CPQs) /\ held \in Seq(CPQs)
      BY <2>3, <2>4, <1>1 DEF TypeOK
    <3> QED
      BY <3>1, <3>2, <2>3, ConcatProperties, AppendProperties, ZenonT(40)
  <2>6. conflicts' = conflicts \/ conflicts' = [conflicts EXCEPT ![row] = @ \cup {col}]
    BY <1>4 DEF HoldPair
  <2>7. conflicts \in [1..end -> SUBSET (1..end)] /\ \A i \in 1..end : \A j \in conflicts[i] : j < i
    BY <1>1 DEF TypeOK
  <2>8. conflicts' \in [1..end -> SUBSET (1..end)]
    BY <2>6, <2>7, <2>1
  <2>9. \A i \in 1..end : \A j \in conflicts'[i] : j < i
    BY <2>6, <2>7, <2>1, ZenonT(40)
  <2> QED
    BY <2>5, <2>8, <2>9
<1>5. ASSUME PairInConflict \/ NextRow
      PROVE  UNCHANGED <<held, conflicts>>
  BY <1>5 DEF PairInConflict, NextRow
<1>6. /\ held' \in Seq(CPQs)
      /\ conflicts' \in [1..end -> SUBSET (1..end)]
      /\ \A i \in 1..end : \A j \in conflicts'[i] : j < i
  <2>1. CASE HoldPair
    BY <1>4, <2>1
  <2>2. CASE PairInConflict \/ NextRow
    BY <1>1, <1>5, <2>2 DEF TypeOK
  <2> QED
    BY <2>1, <2>2
<1>7. TypeOK'
  BY <1>1, <1>2, <1>3, <1>6 DEF TypeOK
<1>8. CoresInRange'
  BY <1>1, <1>2 DEF CoresInRange
<1> QED
  BY <1>1, <1>2, <1>7, <1>8, OutsideStep DEF bounds, search

\* The first call of computeIntersectionCores has picked nothing.
LEMMA PairsDonePreserves ==
    ASSUME SelectionInv, PairsDone
    PROVE  SelectionInv'
<1>1. TypeOK /\ CoresInRange /\ pc = "pairs" /\ set = <<>> /\ stack = <<>> /\ MaxIntersections \in Nat
  BY ChainType DEF SelectionInv, PairsDone
<1>2. UNCHANGED <<chain, layer, skip, end, col, cores, conflicts, held, set>> /\ row' = 1
  BY DEF PairsDone, bounds, collections
<1>3. CASE pc' = "held"
  <2>1. UNCHANGED stack
    BY <1>3 DEF PairsDone
  <2>2. TypeOK' /\ CoresInRange'
    BY <1>1, <1>2, <1>3, <2>1 DEF TypeOK, CoresInRange
  <2> QED
    BY <1>1, <1>2, <1>3, <2>1, <2>2, OutsideStep DEF bounds, search
<1>4. CASE pc' = "subsets" /\ MaxIntersections >= 3 /\ stack' = <<[offset |-> 1, step |-> "enter"]>>
  <2>1. TypeOK' /\ CoresInRange'
    BY <1>1, <1>2, <1>4 DEF TypeOK, CoresInRange
  <2>2. Offsets' /\ SelectionAdmissible' /\ MaxIntersections' >= 3
    BY <1>1, <1>2, <1>4 DEF Offsets, SelectionAdmissible, MaxIntersections
  <2>3. [i \in 1..0 |-> 1] \in [1..Len(set') -> 1..Len(stack')] /\ PickedBy([i \in 1..0 |-> 1])'
    BY <1>1, <1>2, <1>4 DEF PickedBy
  <2> QED
    BY <1>1, <1>2, <1>4, <2>1, <2>2, <2>3 DEF SelectionInv
<1> QED
  BY <1>3, <1>4 DEF PairsDone

-----------------------------------------------------------------------------
(* Calls and returns.                                                      *)

Calls == [offset : Nat \ {0}, step : {"enter", "left", "picked"}]

\* The stack and the selection are sequences of their types.
LEMMA StackShape ==
    ASSUME TypeOK
    PROVE  /\ stack \in Seq(Calls) /\ Len(stack) \in Nat /\ DOMAIN stack = 1..Len(stack)
           /\ \A i \in 1..Len(stack) : stack[i] \in Calls
           /\ set \in Seq(Nat \ {0}) /\ Len(set) \in Nat /\ DOMAIN set = 1..Len(set)
           /\ \A i \in 1..Len(set) : set[i] \in Nat \ {0}
<1>1. stack \in Seq(Calls) /\ set \in Seq(Nat \ {0})
  BY DEF TypeOK, Calls
<1> QED
  BY <1>1, LenProperties, ElementOfSeq

\* The call in progress is the last one.
LEMMA TopShape ==
    ASSUME TypeOK, stack # <<>>
    PROVE  /\ Len(stack) \in Nat \ {0} /\ DOMAIN stack = 1..Len(stack) /\ Len(stack) \in DOMAIN stack
           /\ Top = stack[Len(stack)] /\ Top.offset \in Nat \ {0}
<1>1. Len(stack) \in Nat \ {0} /\ DOMAIN stack = 1..Len(stack)
  BY StackShape, EmptySeq
<1>2. stack[Len(stack)] \in Calls
  BY <1>1, StackShape
<1> QED
  BY <1>1, <1>2 DEF Top, Calls

\* A return drops the last call and keeps the others.
LEMMA ReturnShape ==
    ASSUME TypeOK, stack # <<>>
    PROVE  /\ Return \in Seq(Calls) /\ Len(Return) = Len(stack) - 1
           /\ Len(stack) \in Nat \ {0} /\ Len(Return) \in Nat
           /\ \A i \in 1..(Len(stack) - 1) : Return[i] = stack[i]
<1>1. Len(stack) \in Nat \ {0} /\ \A i \in 1..(Len(stack) - 1) : stack[i] \in Calls
  BY StackShape, EmptySeq
<1> DEFINE n == Len(stack) - 1
<1>2. n \in Nat /\ \A i \in 1..n : stack[i] \in Calls
  BY <1>1
<1> HIDE DEF n
<1>3. SubSeq(stack, 1, n) \in Seq(Calls)
  BY <1>2, SubSeqProperties
<1>4. Len(SubSeq(stack, 1, n)) = IF 1 <= n THEN n - 1 + 1 ELSE 0
  BY <1>2, SubSeqProperties
<1>5. \A i \in 1..(n - 1 + 1) : SubSeq(stack, 1, n)[i] = stack[1 + i - 1]
  BY <1>2, SubSeqProperties
<1>6. Len(SubSeq(stack, 1, n)) = n /\ \A i \in 1..n : SubSeq(stack, 1, n)[i] = stack[i]
  BY <1>2, <1>4, <1>5
<1> QED
  BY <1>1, <1>2, <1>3, <1>6 DEF Return, n

\* A call notes how far its caller is and is appended.
LEMMA CallShape ==
    ASSUME TypeOK, stack # <<>>, NEW step \in {"left", "picked"}, NEW offset \in Nat \ {0}
    PROVE  LET called == Call(step, offset)
               n == Len(stack)
           IN  /\ called \in Seq(Calls) /\ n \in Nat \ {0} /\ Len(called) = n + 1
               /\ \A i \in 1..(n - 1) : called[i] = stack[i]
               /\ called[n].offset = Top.offset /\ called[n].step = step
               /\ called[n + 1].offset = offset /\ called[n + 1].step = "enter"
<1> DEFINE n == Len(stack)
           top == [stack[n] EXCEPT !.step = step]
           below == [stack EXCEPT ![n] = top]
           new == [offset |-> offset, step |-> "enter"]
<1>1. n \in Nat \ {0} /\ stack \in Seq(Calls) /\ n \in 1..n /\ stack[n] \in Calls
  BY StackShape, EmptySeq
<1>2. top \in Calls /\ top.offset = stack[n].offset /\ top.step = step
  BY <1>1 DEF Calls
<1>3. new \in Calls /\ new.offset = offset /\ new.step = "enter"
  BY DEF Calls
<1> HIDE DEF top, new
<1>4. below \in Seq(Calls) /\ Len(below) = n /\ \A i \in 1..n : below[i] = IF i = n THEN top ELSE stack[i]
  BY <1>1, <1>2, ExceptSeq
<1> HIDE DEF below
<1>5. Append(below, new) \in Seq(Calls)
  BY <1>3, <1>4, AppendProperties
<1>6. Len(Append(below, new)) = n + 1 /\ Append(below, new)[n + 1] = new
  BY <1>3, <1>4, AppendProperties
<1>7. \A i \in 1..n : Append(below, new)[i] = below[i]
  BY <1>3, <1>4, AppendProperties
<1>8. Call(step, offset) = Append(below, new)
  BY DEF Call, below, top, new
<1> QED
  BY <1>1, <1>2, <1>3, <1>4, <1>5, <1>6, <1>7, <1>8 DEF Top

\* A call that picked nothing returns.
LEMMA ReturnPreserves ==
    ASSUME SelectionInv, pc = "subsets", stack # <<>>, Top.step # "picked", stack' = Return,
           UNCHANGED <<bounds, conflicts, set>>
    PROVE  Offsets' /\ SelectionAdmissible' /\ \E p \in [1..Len(set') -> 1..Len(stack')] : PickedBy(p)'
<1> USE DEF SelectionInv
<1>1. PICK p \in [1..Len(set) -> 1..Len(stack)] : PickedBy(p)
  OBVIOUS
<1>2. /\ Len(stack') = Len(stack) - 1 /\ Len(stack) \in Nat \ {0} /\ DOMAIN stack = 1..Len(stack)
      /\ DOMAIN stack' = 1..(Len(stack) - 1)
      /\ \A i \in 1..(Len(stack) - 1) : stack'[i] = stack[i]
  BY ReturnShape, StackShape, LenProperties
<1>3. DOMAIN set = 1..Len(set) /\ Len(set) \in Nat /\ UNCHANGED <<chain, end, skip, MaxIntersections>>
  BY StackShape DEF bounds, MaxIntersections
<1>4. \A i \in 1..Len(set) : p[i] \in 1..(Len(stack) - 1)
  <2> SUFFICES ASSUME NEW i \in 1..Len(set) PROVE p[i] # Len(stack)
    BY <1>2
  <2>1. stack[p[i]].step = "picked"
    BY <1>1, <1>3 DEF PickedBy
  <2> QED
    BY <2>1 DEF Top
<1>5. p \in [1..Len(set') -> 1..Len(stack')]
  BY <1>2, <1>3, <1>4
<1>6. PickedBy(p)'
  <2>1. set' = set
    OBVIOUS
  <2>2. \A i, j \in DOMAIN set' : i < j => p[i] < p[j]
    BY <1>1, <2>1 DEF PickedBy
  <2>3. ASSUME NEW i \in DOMAIN set'
        PROVE  stack'[p[i]].step = "picked" /\ set'[i] = stack'[p[i]].offset
    <3>1. stack'[p[i]] = stack[p[i]]
      BY <1>2, <1>3, <1>4, <2>1
    <3>2. stack[p[i]].step = "picked" /\ set[i] = stack[p[i]].offset
      BY <1>1, <2>1 DEF PickedBy
    <3> QED
      BY <2>1, <3>1, <3>2
  <2>4. \A k \in DOMAIN stack' : stack'[k].step = "picked" => \E i \in DOMAIN set' : p[i] = k
    BY <1>1, <1>2, <2>1 DEF PickedBy
  <2>5. ASSUME NEW k \in DOMAIN stack', NEW i \in DOMAIN set', stack'[k].step # "enter", p[i] < k
        PROVE  i < MaxIntersections'
    <3>1. stack'[k] = stack[k] /\ k \in DOMAIN stack
      BY <1>2
    <3> QED
      BY <1>1, <1>3, <2>1, <2>5, <3>1 DEF PickedBy
  <2> QED
    BY <2>2, <2>3, <2>4, <2>5 DEF PickedBy
<1>7. Offsets'
  <2>1. Offsets
    OBVIOUS
  <2>2. DOMAIN stack' \subseteq DOMAIN stack /\ \A i \in DOMAIN stack' : stack'[i] = stack[i]
    BY <1>2
  <2>3. \A i \in DOMAIN stack' : stack'[i].step # "enter" => stack'[i].offset <= end'
    BY <2>1, <2>2, <1>3 DEF Offsets
  <2>4. \A i, j \in DOMAIN stack' :
            i < j => /\ stack'[i].step # "enter"
                     /\ stack'[i].offset < stack'[j].offset
                     /\ stack'[i].step = "picked" => skip' < stack'[j].offset
    BY <2>1, <2>2, <1>3 DEF Offsets
  <2> QED
    BY <2>3, <2>4 DEF Offsets
<1>8. SelectionAdmissible'
  BY <1>3 DEF SelectionAdmissible
<1> QED
  BY <1>5, <1>6, <1>7, <1>8

\* A call to a later offset, past the inherited cores after a pick, keeps the offsets
\* of the stack in order.
LEMMA CallOffsets ==
    ASSUME SelectionInv, stack # <<>>, Top.offset <= end,
           NEW step \in {"left", "picked"}, NEW offset \in Nat \ {0},
           Top.offset < offset, step = "picked" => skip < offset,
           stack' = Call(step, offset), UNCHANGED bounds
    PROVE  Offsets'
<1> DEFINE n == Len(stack)
<1>1. TypeOK /\ Offsets /\ end' = end /\ skip' = skip
  BY DEF SelectionInv, bounds
<1>2. /\ n \in Nat \ {0} /\ DOMAIN stack = 1..n /\ DOMAIN stack' = 1..(n + 1)
      /\ \A i \in 1..(n - 1) : stack'[i] = stack[i]
      /\ stack'[n].offset = stack[n].offset /\ stack'[n].step = step
      /\ stack'[n + 1].offset = offset /\ stack'[n + 1].step = "enter"
  <2>1. n \in Nat \ {0} /\ DOMAIN stack = 1..n /\ Top = stack[n]
    BY <1>1, TopShape
  <2>2. /\ stack' \in Seq(Calls) /\ Len(stack') = n + 1
        /\ \A i \in 1..(n - 1) : stack'[i] = stack[i]
        /\ stack'[n].offset = Top.offset /\ stack'[n].step = step
        /\ stack'[n + 1].offset = offset /\ stack'[n + 1].step = "enter"
    BY <1>1, CallShape
  <2>3. DOMAIN stack' = 1..(n + 1)
    BY <2>2, LenProperties
  <2> QED
    BY <2>1, <2>2, <2>3
<1>3. /\ \A i \in 1..n : stack[i].offset \in Nat \ {0}
      /\ skip \in Nat /\ end \in Nat /\ n \in 1..n /\ stack[n].offset < offset /\ stack[n].offset <= end
  BY <1>1, <1>2, StackShape DEF TypeOK, Top, Calls
<1>4. ASSUME NEW i \in DOMAIN stack', stack'[i].step # "enter"
      PROVE  stack'[i].offset <= end'
  <2>1. i \in 1..n /\ (i = n \/ i \in 1..(n - 1))
    BY <1>2, <1>4
  <2> QED
    BY <1>1, <1>2, <1>3, <1>4, <2>1 DEF Offsets
<1>5. ASSUME NEW i \in DOMAIN stack', NEW j \in DOMAIN stack', i < j
      PROVE  /\ stack'[i].step # "enter"
             /\ stack'[i].offset < stack'[j].offset
             /\ stack'[i].step = "picked" => skip' < stack'[j].offset
  <2>1. CASE j \in 1..n
    <3>1. i \in 1..(n - 1) /\ i \in 1..n /\ stack'[i] = stack[i] /\ stack'[j].offset = stack[j].offset
      BY <1>2, <1>5, <2>1
    <3> QED
      BY <1>1, <1>2, <1>5, <2>1, <3>1 DEF Offsets
  <2>2. CASE j = n + 1 /\ i = n
    BY <1>1, <1>2, <1>3, <2>2
  <2>3. CASE j = n + 1 /\ i \in 1..(n - 1)
    <3>1. i < n /\ i \in DOMAIN stack /\ n \in DOMAIN stack /\ stack'[i] = stack[i]
      BY <1>2, <2>3
    <3>2. /\ stack[i].step # "enter" /\ stack[i].offset < stack[n].offset
          /\ stack[i].step = "picked" => skip < stack[n].offset
      BY <1>1, <3>1 DEF Offsets
    <3> QED
      BY <1>1, <1>2, <1>3, <2>3, <3>1, <3>2
  <2> QED
    BY <1>2, <1>5, <2>1, <2>2, <2>3
<1> QED
  BY <1>4, <1>5 DEF Offsets

\* The call that leaves out the core at the offset of its caller.
LEMMA DontPickPreserves ==
    ASSUME SelectionInv, DontPick
    PROVE  SelectionInv'
<1> DEFINE n == Len(stack)
<1>1. /\ TypeOK /\ CoresInRange /\ SelectionAdmissible /\ Offsets
      /\ pc = "subsets" /\ pc' = "subsets" /\ MaxIntersections >= 3 /\ MaxIntersections \in Nat
  BY ChainType DEF SelectionInv, DontPick, Running, bounds
<1>2. stack # <<>> /\ Top.step = "enter" /\ stack' = Call("left", Top.offset + 1)
  BY DEF DontPick, Running
<1>3. UNCHANGED <<chain, layer, skip, end, pc, row, col, cores, conflicts, held, set, MaxIntersections>>
  BY DEF DontPick, bounds, collections, MaxIntersections
<1>4. n \in Nat \ {0} /\ Top = stack[n] /\ Top.offset \in Nat \ {0} /\ Top.offset + 1 \in Nat \ {0} /\ end \in Nat
  <2>1. n \in Nat \ {0} /\ Top = stack[n] /\ Top.offset \in Nat \ {0}
    BY <1>1, <1>2, TopShape
  <2> QED
    BY <1>1, <2>1 DEF TypeOK
<1>5. Top.offset <= end /\ Len(set) # MaxIntersections
  BY <1>1, <1>4 DEF DontPick, Complete
<1>6. /\ stack' \in Seq(Calls) /\ DOMAIN stack = 1..n /\ Len(stack') = n + 1 /\ DOMAIN stack' = 1..(n + 1)
      /\ \A i \in 1..(n - 1) : stack'[i] = stack[i]
      /\ stack'[n].offset = stack[n].offset /\ stack'[n].step = "left" /\ stack'[n + 1].step = "enter"
  BY <1>1, <1>2, <1>4, CallShape, StackShape, LenProperties
<1>7. Offsets'
  BY <1>2, <1>3, <1>4, <1>5, CallOffsets DEF bounds
<1>8. TypeOK'
  BY <1>1, <1>3, <1>6 DEF TypeOK, Calls
<1>9. CoresInRange' /\ SelectionAdmissible'
  BY <1>1, <1>3 DEF CoresInRange, SelectionAdmissible
<1>10. PICK p \in [1..Len(set) -> 1..n] : PickedBy(p)
  BY DEF SelectionInv
<1>11. DOMAIN set = 1..Len(set) /\ Len(set) \in Nat /\ Len(set) < MaxIntersections /\ set' = set
  BY <1>1, <1>3, <1>5, StackShape DEF SelectionAdmissible
<1>12. ASSUME NEW i \in 1..Len(set)
       PROVE  p[i] \in 1..(n - 1) /\ stack'[p[i]] = stack[p[i]] /\ stack[p[i]].step = "picked" /\ set[i] = stack[p[i]].offset
  <2>1. stack[p[i]].step = "picked" /\ set[i] = stack[p[i]].offset
    BY <1>10, <1>11 DEF PickedBy
  <2>2. p[i] # n
    BY <1>2, <1>4, <2>1
  <2> QED
    BY <1>4, <1>6, <2>1, <2>2
<1>13. p \in [1..Len(set') -> 1..Len(stack')]
  BY <1>4, <1>6, <1>11, <1>12
<1>14. PickedBy(p)'
  <2>1. \A i, j \in DOMAIN set' : i < j => p[i] < p[j]
    BY <1>10, <1>11 DEF PickedBy
  <2>2. \A i \in DOMAIN set' : stack'[p[i]].step = "picked" /\ set'[i] = stack'[p[i]].offset
    BY <1>11, <1>12
  <2>3. ASSUME NEW k \in DOMAIN stack', stack'[k].step = "picked"
        PROVE  \E i \in DOMAIN set' : p[i] = k
    <3>1. k \in 1..(n - 1) /\ k \in DOMAIN stack /\ stack[k].step = "picked"
      BY <1>4, <1>6, <2>3
    <3> QED
      BY <1>10, <1>11, <3>1 DEF PickedBy
  <2>4. ASSUME NEW k \in DOMAIN stack', NEW i \in DOMAIN set', stack'[k].step # "enter", p[i] < k
        PROVE  i < MaxIntersections'
    <3>1. i \in 1..Len(set) /\ MaxIntersections' = MaxIntersections
      BY <1>3, <1>11
    <3> QED
      BY <1>1, <1>11, <3>1
  <2> QED
    BY <2>1, <2>2, <2>3, <2>4 DEF PickedBy
<1> QED
  BY <1>1, <1>3, <1>7, <1>8, <1>9, <1>13, <1>14 DEF SelectionInv

\* A core is picked: it is not in conflict and after the cores picked before.
LEMMA PickPreserves ==
    ASSUME SelectionInv, Pick
    PROVE  SelectionInv'
<1> DEFINE n == Len(stack)
           m == Len(set)
           o == AfterPick(Top.offset)
<1>1. /\ TypeOK /\ CoresInRange /\ SelectionAdmissible /\ Offsets
      /\ pc = "subsets" /\ pc' = "subsets" /\ MaxIntersections >= 3 /\ MaxIntersections \in Nat
  BY ChainType DEF SelectionInv, Pick, Running, bounds
<1>2. /\ stack # <<>> /\ Top.step = "left" /\ stack' = Call("picked", o)
      /\ set' = Append(set, Top.offset) /\ conflicts[Top.offset] \cap Picked = {}
  BY DEF Pick, Running, Pickable
<1>3. UNCHANGED <<chain, layer, skip, end, pc, row, col, cores, conflicts, held, MaxIntersections>>
  BY DEF Pick, bounds, collections, MaxIntersections
<1>4. /\ n \in Nat \ {0} /\ Top = stack[n] /\ Top.offset \in Nat \ {0} /\ DOMAIN stack = 1..n
      /\ m \in Nat /\ DOMAIN set = 1..m /\ set \in Seq(Nat \ {0})
  <2>1. n \in Nat \ {0} /\ Top = stack[n] /\ Top.offset \in Nat \ {0} /\ DOMAIN stack = 1..n
    BY <1>1, <1>2, TopShape
  <2> QED
    BY <1>1, <2>1, StackShape
<1>5. Top.offset <= end /\ end \in Nat /\ skip \in Nat /\ o \in Nat \ {0} /\ Top.offset < o /\ skip < o
  <2>1. Top.offset <= end
    BY <1>1, <1>2, <1>4, SMTT(30) DEF Offsets
  <2> QED
    BY <1>1, <1>4, <2>1, SMTT(30) DEF TypeOK, AfterPick
<1> HIDE DEF o
<1>6. /\ stack' \in Seq(Calls) /\ Len(stack') = n + 1 /\ DOMAIN stack' = 1..(n + 1)
      /\ \A i \in 1..(n - 1) : stack'[i] = stack[i]
      /\ stack'[n].offset = stack[n].offset /\ stack'[n].step = "picked" /\ stack'[n + 1].step = "enter"
  <2>1. /\ stack' \in Seq(Calls) /\ Len(stack') = n + 1
        /\ \A i \in 1..(n - 1) : stack'[i] = stack[i]
        /\ stack'[n].offset = Top.offset /\ stack'[n].step = "picked" /\ stack'[n + 1].step = "enter"
    BY <1>1, <1>2, <1>5, CallShape
  <2> QED
    BY <1>4, <2>1, LenProperties
<1>7. /\ set' \in Seq(Nat \ {0}) /\ Len(set') = m + 1 /\ DOMAIN set' = 1..(m + 1)
      /\ \A i \in 1..m : set'[i] = set[i]
      /\ set'[m + 1] = Top.offset
  <2>1. set' \in Seq(Nat \ {0}) /\ Len(set') = m + 1
    BY <1>2, <1>4, AppendProperties
  <2>2. (\A i \in 1..m : set'[i] = set[i]) /\ set'[m + 1] = Top.offset
    BY <1>2, <1>4, AppendProperties
  <2> QED
    BY <2>1, <2>2, LenProperties
<1>8. Offsets'
  BY <1>2, <1>3, <1>4, <1>5, CallOffsets DEF bounds
<1>9. TypeOK'
  BY <1>1, <1>3, <1>6, <1>7 DEF TypeOK, Calls
<1>10. CoresInRange'
  BY <1>1, <1>3 DEF CoresInRange
<1>11. PICK p \in [1..m -> 1..n] : PickedBy(p)
  BY DEF SelectionInv
<1>12. ASSUME NEW i \in 1..m
       PROVE  /\ p[i] \in 1..(n - 1) /\ p[i] < n /\ stack'[p[i]] = stack[p[i]]
              /\ stack[p[i]].step = "picked" /\ set[i] = stack[p[i]].offset
              /\ i < MaxIntersections
  <2>1. stack[p[i]].step = "picked" /\ set[i] = stack[p[i]].offset
    BY <1>4, <1>11 DEF PickedBy
  <2>2. p[i] # n
    BY <1>2, <1>4, <2>1
  <2>3. p[i] \in 1..(n - 1) /\ p[i] < n
    BY <1>4, <2>2, SMTT(30)
  <2>4. i < MaxIntersections
    <3>1. n \in DOMAIN stack /\ i \in DOMAIN set /\ stack[n].step # "enter"
      BY <1>2, <1>4
    <3> QED
      BY <1>11, <2>3, <3>1 DEF PickedBy
  <2> QED
    BY <1>6, <2>1, <2>3, <2>4
<1>13. m < MaxIntersections
  <2>1. CASE m = 0
    BY <1>1, <2>1
  <2>2. CASE m \in 1..m
    BY <1>12, <2>2
  <2> QED
    BY <1>4, <2>1, <2>2
<1>14. SelectionAdmissible'
  <2>1. Len(set') <= MaxIntersections'
    BY <1>1, <1>3, <1>4, <1>7, <1>13
  <2>2. ASSUME NEW i \in DOMAIN set'
        PROVE  set'[i] <= end'
    <3>1. CASE i \in 1..m
      BY <1>1, <1>3, <1>4, <1>7, <3>1 DEF SelectionAdmissible
    <3>2. CASE i = m + 1
      BY <1>3, <1>5, <1>7, <3>2
    <3> QED
      BY <1>4, <1>7, <3>1, <3>2
  <2>3. ASSUME NEW i \in DOMAIN set', NEW j \in DOMAIN set', i < j
        PROVE  set'[i] < set'[j] /\ skip' < set'[j] /\ set'[i] \notin conflicts'[set'[j]]
    <3>1. i \in 1..m /\ set'[i] = set[i]
      BY <1>4, <1>7, <2>3
    <3>2. CASE j \in 1..m
      <4>1. set'[j] = set[j] /\ i \in DOMAIN set /\ j \in DOMAIN set
        BY <1>4, <1>7, <3>1, <3>2
      <4> QED
        BY <1>1, <1>3, <2>3, <3>1, <4>1 DEF SelectionAdmissible
    <3>3. CASE j = m + 1
      <4>1. set'[j] = Top.offset /\ stack[p[i]].step = "picked" /\ set[i] = stack[p[i]].offset
        BY <1>7, <1>12, <3>1, <3>3
      <4>2. stack[p[i]].offset < stack[n].offset /\ skip < stack[n].offset
        <5>1. p[i] \in DOMAIN stack /\ n \in DOMAIN stack /\ p[i] < n
          BY <1>4, <1>12, <3>1
        <5> QED
          BY <1>1, <4>1, <5>1 DEF Offsets
      <4>3. set[i] \in Picked
        BY <1>4, <3>1 DEF Picked
      <4> QED
        BY <1>2, <1>3, <1>4, <3>1, <4>1, <4>2, <4>3
    <3> QED
      BY <1>4, <1>7, <3>2, <3>3
  <2> QED
    BY <2>1, <2>2, <2>3 DEF SelectionAdmissible
<1>15. PICK r \in [1..Len(set') -> 1..Len(stack')] : r[m + 1] = n /\ \A i \in 1..m : r[i] = p[i]
  <2> DEFINE q == [i \in 1..(m + 1) |-> IF i = m + 1 THEN n ELSE p[i]]
  <2>1. q \in [1..Len(set') -> 1..Len(stack')] /\ q[m + 1] = n /\ \A i \in 1..m : q[i] = p[i]
    BY <1>4, <1>6, <1>7, <1>11
  <2> QED
    BY <2>1
<1>16. PickedBy(r)'
  <2>1. ASSUME NEW i \in DOMAIN set', NEW j \in DOMAIN set', i < j
        PROVE  r[i] < r[j]
    <3>1. i \in 1..m /\ (j \in 1..m \/ j = m + 1)
      BY <1>4, <1>7, <2>1
    <3> QED
      BY <1>4, <1>11, <1>12, <1>15, <2>1, <3>1, SMTT(30) DEF PickedBy
  <2>2. ASSUME NEW i \in DOMAIN set'
        PROVE  stack'[r[i]].step = "picked" /\ set'[i] = stack'[r[i]].offset
    <3>1. CASE i \in 1..m
      <4>1. r[i] = p[i] /\ set'[i] = set[i]
        BY <1>7, <1>15, <3>1
      <4> QED
        BY <1>12, <3>1, <4>1
    <3>2. CASE i = m + 1
      <4>1. r[i] = n /\ set'[i] = Top.offset
        BY <1>7, <1>15, <3>2
      <4> QED
        BY <1>4, <1>6, <4>1
    <3> QED
      BY <1>4, <1>7, <3>1, <3>2
  <2>3. ASSUME NEW k \in DOMAIN stack', stack'[k].step = "picked"
        PROVE  \E i \in DOMAIN set' : r[i] = k
    <3>1. CASE k = n
      <4>1. m + 1 \in DOMAIN set' /\ r[m + 1] = k
        BY <1>4, <1>7, <1>15, <3>1
      <4> QED
        BY <4>1
    <3>2. CASE k \in 1..(n - 1)
      <4>1. stack'[k] = stack[k]
        BY <1>6, <3>2
      <4>2. k \in DOMAIN stack /\ stack[k].step = "picked"
        BY <1>4, <2>3, <3>2, <4>1
      <4>3. PICK i \in 1..m : p[i] = k
        BY <1>4, <1>11, <4>2 DEF PickedBy
      <4>4. i \in DOMAIN set' /\ r[i] = k
        BY <1>4, <1>7, <1>15, <4>3
      <4> QED
        BY <4>4
    <3> QED
      BY <1>4, <1>6, <2>3, <3>1, <3>2
  <2>4. ASSUME NEW k \in DOMAIN stack', NEW i \in DOMAIN set', stack'[k].step # "enter", r[i] < k
        PROVE  i < MaxIntersections'
    <3>1. k \in 1..n /\ k <= n
      BY <1>4, <1>6, <2>4
    <3>2. i # m + 1
      BY <1>4, <1>15, <2>4, <3>1
    <3> QED
      BY <1>3, <1>4, <1>7, <1>12, <3>2
  <2> QED
    BY <2>1, <2>2, <2>3, <2>4 DEF PickedBy
<1> QED
  BY <1>1, <1>3, <1>8, <1>9, <1>10, <1>14, <1>15, <1>16 DEF SelectionInv

\* After the call for a picked core returned, that core is the last of the selection.
LEMMA UnpickPreserves ==
    ASSUME SelectionInv, Unpick
    PROVE  SelectionInv'
<1> DEFINE n == Len(stack)
           m == Len(set)
<1>1. /\ TypeOK /\ CoresInRange /\ SelectionAdmissible /\ Offsets
      /\ pc = "subsets" /\ pc' = "subsets" /\ MaxIntersections >= 3 /\ MaxIntersections \in Nat
  BY ChainType DEF SelectionInv, Unpick, Running, bounds
<1>2. stack # <<>> /\ Top.step = "picked" /\ stack' = Return /\ set' = SubSeq(set, 1, m - 1)
  BY DEF Unpick, Running
<1>3. UNCHANGED <<chain, layer, skip, end, pc, row, col, cores, conflicts, held, MaxIntersections>>
  BY DEF Unpick, bounds, collections, MaxIntersections
<1>4. /\ n \in Nat \ {0} /\ Top = stack[n] /\ DOMAIN stack = 1..n /\ n \in DOMAIN stack
      /\ m \in Nat /\ DOMAIN set = 1..m /\ set \in Seq(Nat \ {0})
  BY <1>1, <1>2, TopShape, StackShape
<1>5. /\ stack' \in Seq(Calls) /\ Len(stack') = n - 1 /\ DOMAIN stack' = 1..(n - 1)
      /\ \A i \in 1..(n - 1) : stack'[i] = stack[i]
  BY <1>1, <1>2, ReturnShape, LenProperties
<1>6. PICK p \in [1..m -> 1..n] : PickedBy(p)
  BY DEF SelectionInv
<1>7. PICK i \in 1..m : p[i] = n
  BY <1>2, <1>4, <1>6 DEF PickedBy
<1>8. m \in 1..m /\ p[m] = n
  <2>1. m \in 1..m /\ p[m] \in 1..n
    BY <1>4, <1>6
  <2>2. ~(i < m)
    BY <1>4, <1>6, <1>7, <2>1 DEF PickedBy
  <2> QED
    BY <1>4, <1>7, <2>1, <2>2
<1>9. /\ set' \in Seq(Nat \ {0}) /\ Len(set') = m - 1 /\ DOMAIN set' = 1..(m - 1)
      /\ \A j \in 1..(m - 1) : set'[j] = set[j]
  <2> DEFINE l == m - 1
  <2>1. l \in Nat /\ \A j \in 1..l : set[j] \in Nat \ {0}
    BY <1>4, <1>8
  <2> HIDE DEF l
  <2>2. SubSeq(set, 1, l) \in Seq(Nat \ {0}) /\ Len(SubSeq(set, 1, l)) = IF 1 <= l THEN l - 1 + 1 ELSE 0
    BY <2>1, SubSeqProperties
  <2>3. \A j \in 1..(l - 1 + 1) : SubSeq(set, 1, l)[j] = set[1 + j - 1]
    BY <2>1, SubSeqProperties
  <2>4. Len(SubSeq(set, 1, l)) = l /\ \A j \in 1..l : SubSeq(set, 1, l)[j] = set[j]
    BY <2>1, <2>2, <2>3
  <2>5. DOMAIN SubSeq(set, 1, l) = 1..l
    BY <2>2, <2>4, LenProperties
  <2> QED
    BY <1>2, <2>2, <2>4, <2>5 DEF l
<1>10. TypeOK'
  BY <1>1, <1>3, <1>5, <1>9 DEF TypeOK, Calls
<1>11. CoresInRange'
  BY <1>1, <1>3 DEF CoresInRange
<1>12. Offsets'
  <2>1. DOMAIN stack' \subseteq DOMAIN stack /\ \A k \in DOMAIN stack' : stack'[k] = stack[k]
    BY <1>4, <1>5
  <2>2. \A k \in DOMAIN stack' : stack'[k].step # "enter" => stack'[k].offset <= end'
    BY <1>1, <1>3, <2>1 DEF Offsets
  <2>3. \A k, j \in DOMAIN stack' :
            k < j => /\ stack'[k].step # "enter"
                     /\ stack'[k].offset < stack'[j].offset
                     /\ stack'[k].step = "picked" => skip' < stack'[j].offset
    BY <1>1, <1>3, <2>1 DEF Offsets
  <2> QED
    BY <2>2, <2>3 DEF Offsets
<1>13. SelectionAdmissible'
  <2>1. DOMAIN set' \subseteq DOMAIN set /\ \A k \in DOMAIN set' : set'[k] = set[k]
    BY <1>4, <1>9, SMTT(30)
  <2>2. Len(set') <= MaxIntersections'
    BY <1>1, <1>3, <1>4, <1>9 DEF SelectionAdmissible
  <2> QED
    BY <1>1, <1>3, <2>1, <2>2 DEF SelectionAdmissible
<1>14. ASSUME NEW k \in 1..(m - 1)
       PROVE  /\ k \in 1..m /\ p[k] \in 1..(n - 1) /\ stack'[p[k]] = stack[p[k]] /\ set'[k] = set[k]
              /\ stack[p[k]].step = "picked" /\ set[k] = stack[p[k]].offset
  <2>1. k \in 1..m /\ k < m
    BY <1>4
  <2>2. p[k] < p[m] /\ p[k] \in 1..n /\ stack[p[k]].step = "picked" /\ set[k] = stack[p[k]].offset
    BY <1>4, <1>6, <1>8, <2>1 DEF PickedBy
  <2>3. p[k] \in 1..(n - 1)
    BY <1>4, <1>8, <2>2
  <2> QED
    BY <1>5, <1>9, <2>1, <2>2, <2>3
<1>15. PICK r \in [1..Len(set') -> 1..Len(stack')] : \A k \in 1..(m - 1) : r[k] = p[k]
  <2> DEFINE q == [k \in 1..(m - 1) |-> p[k]]
  <2>1. q \in [1..Len(set') -> 1..Len(stack')] /\ \A k \in 1..(m - 1) : q[k] = p[k]
    BY <1>5, <1>9, <1>14
  <2> QED
    BY <2>1
<1>16. PickedBy(r)'
  <2>1. ASSUME NEW k \in DOMAIN set', NEW j \in DOMAIN set', k < j
        PROVE  r[k] < r[j]
    <3>1. k \in 1..m /\ j \in 1..m /\ r[k] = p[k] /\ r[j] = p[j]
      BY <1>9, <1>14, <1>15
    <3> QED
      BY <1>4, <1>6, <2>1, <3>1 DEF PickedBy
  <2>2. ASSUME NEW k \in DOMAIN set'
        PROVE  stack'[r[k]].step = "picked" /\ set'[k] = stack'[r[k]].offset
    <3>1. k \in 1..(m - 1) /\ r[k] = p[k]
      BY <1>9, <1>15
    <3> QED
      BY <1>14, <3>1
  <2>3. ASSUME NEW k \in DOMAIN stack', stack'[k].step = "picked"
        PROVE  \E j \in DOMAIN set' : r[j] = k
    <3>1. k \in 1..(n - 1)
      BY <1>5
    <3>2. stack'[k] = stack[k]
      BY <1>5, <3>1
    <3>3. k \in DOMAIN stack /\ stack[k].step = "picked" /\ k # n
      BY <1>4, <2>3, <3>1, <3>2
    <3>4. PICK j \in 1..m : p[j] = k
      BY <1>4, <1>6, <3>3 DEF PickedBy
    <3>5. j \in 1..(m - 1)
      BY <1>4, <1>8, <3>3, <3>4
    <3>6. j \in DOMAIN set' /\ r[j] = k
      BY <1>9, <1>15, <3>4, <3>5
    <3> QED
      BY <3>6
  <2>4. ASSUME NEW k \in DOMAIN stack', NEW j \in DOMAIN set', stack'[k].step # "enter", r[j] < k
        PROVE  j < MaxIntersections'
    <3>1. k \in 1..(n - 1) /\ j \in 1..(m - 1)
      BY <1>5, <1>9
    <3>2. stack'[k] = stack[k] /\ r[j] = p[j]
      BY <1>5, <1>15, <3>1
    <3>3. k \in DOMAIN stack /\ j \in DOMAIN set
      BY <1>4, <3>1
    <3> QED
      BY <1>3, <1>6, <2>4, <3>2, <3>3 DEF PickedBy
  <2> QED
    BY <2>1, <2>2, <2>3, <2>4 DEF PickedBy
<1> QED
  BY <1>1, <1>3, <1>10, <1>11, <1>12, <1>13, <1>15, <1>16 DEF SelectionInv

\* A complete selection is intersected and the call returns.
LEMMA SubsetPreserves ==
    ASSUME SelectionInv, Subset
    PROVE  SelectionInv'
<1> DEFINE list == [i \in 1..Len(set) |-> cores[set[i]]]
           q == Intersect(list)
<1>1. /\ TypeOK /\ CoresInRange /\ SelectionAdmissible /\ MaxIntersections >= 3
      /\ pc = "subsets" /\ pc' = "subsets" /\ stack # <<>> /\ Top.step = "enter" /\ stack' = Return
  BY DEF SelectionInv, Subset, Running
<1>2. UNCHANGED <<chain, layer, skip, end, pc, row, col, conflicts, held, set, MaxIntersections>>
  BY DEF Subset, bounds, MaxIntersections
<1>3. Offsets' /\ SelectionAdmissible' /\ \E p \in [1..Len(set') -> 1..Len(stack')] : PickedBy(p)'
  BY <1>1, <1>2, ReturnPreserves DEF bounds
<1>4. Len(set) \in Nat /\ list \in [1..Len(set) -> CPQs]
  <2>1. DOMAIN set = 1..Len(set) /\ Len(set) \in Nat /\ \A i \in 1..Len(set) : set[i] \in Nat \ {0}
    BY <1>1, StackShape
  <2>2. cores \in Seq(CPQs) /\ end \in Nat /\ end <= Len(cores)
    BY <1>1 DEF TypeOK, CoresInRange
  <2>3. ASSUME NEW i \in 1..Len(set)
        PROVE  cores[set[i]] \in CPQs
    <3>1. set[i] <= end
      BY <1>1, <2>1 DEF SelectionAdmissible
    <3>2. set[i] \in 1..Len(cores)
      BY <2>1, <2>2, <3>1
    <3> QED
      BY <2>2, <3>2
  <2> QED
    BY <2>1, <2>3
<1>5. q \in CPQs /\ WithId(q) \in CPQs /\ NoSave \in BOOLEAN
  BY <1>4, IntersectType, WithIdType, NoSaveType
<1>6. Saved(q, NoSave) \in Seq(CPQs) /\ Saved(WithId(q), NoSave) \in Seq(CPQs)
  BY <1>5, SavedType
<1>7. cores' = cores \/ cores' = cores \o Saved(q, NoSave) \o Saved(WithId(q), NoSave) \/ AddCore(q, NoSave)
  BY DEF Subset, collections
<1> HIDE DEF q
<1>8. cores' \in Seq(CPQs) /\ Len(cores) <= Len(cores')
  <2>1. cores \in Seq(CPQs) /\ Len(cores) \in Nat
    BY <1>1 DEF TypeOK
  <2>2. CASE cores' = cores
    BY <2>1, <2>2
  <2>3. CASE AddCore(q, NoSave)
    BY <1>5, <2>1, <2>3, AddCoreType
  <2>4. CASE cores' = cores \o Saved(q, NoSave) \o Saved(WithId(q), NoSave)
    <3>1. /\ cores \o Saved(q, NoSave) \in Seq(CPQs)
          /\ Len(cores \o Saved(q, NoSave)) = Len(cores) + Len(Saved(q, NoSave))
      BY <1>6, <2>1, ConcatProperties
    <3>2. cores' \in Seq(CPQs) /\ Len(cores') = Len(cores \o Saved(q, NoSave)) + Len(Saved(WithId(q), NoSave))
      BY <1>6, <2>4, <3>1, ConcatProperties
    <3>3. Len(Saved(q, NoSave)) \in Nat /\ Len(Saved(WithId(q), NoSave)) \in Nat
      BY <1>6, LenProperties
    <3> QED
      BY <2>1, <3>1, <3>2, <3>3
  <2> QED
    BY <1>7, <2>2, <2>3, <2>4
<1>9. stack' \in Seq(Calls)
  BY <1>1, ReturnShape
<1>10. TypeOK'
  BY <1>1, <1>2, <1>8, <1>9 DEF TypeOK, Calls
<1>11. CoresInRange'
  BY <1>1, <1>2, <1>8 DEF CoresInRange, TypeOK
<1> QED
  BY <1>1, <1>2, <1>3, <1>10, <1>11 DEF SelectionInv

\* A call returns if the core at its offset is in conflict.
LEMMA CannotPickPreserves ==
    ASSUME SelectionInv, CannotPick
    PROVE  SelectionInv'
<1>1. /\ TypeOK /\ CoresInRange /\ MaxIntersections >= 3
      /\ pc = "subsets" /\ pc' = "subsets" /\ stack # <<>> /\ Top.step = "left" /\ stack' = Return
  BY DEF SelectionInv, CannotPick, Running
<1>2. UNCHANGED <<chain, layer, skip, end, pc, row, col, cores, conflicts, held, set, MaxIntersections>>
  BY DEF CannotPick, bounds, collections, MaxIntersections
<1>3. Offsets' /\ SelectionAdmissible' /\ \E p \in [1..Len(set') -> 1..Len(stack')] : PickedBy(p)'
  BY <1>1, <1>2, ReturnPreserves DEF bounds
<1>4. stack' \in Seq(Calls)
  BY <1>1, ReturnShape
<1>5. TypeOK' /\ CoresInRange'
  BY <1>1, <1>2, <1>4 DEF TypeOK, CoresInRange, Calls
<1> QED
  BY <1>1, <1>2, <1>3, <1>5 DEF SelectionInv

\* When the first call has returned nothing is selected.
LEMMA SubsetsDonePreserves ==
    ASSUME SelectionInv, SubsetsDone
    PROVE  SelectionInv'
<1>1. /\ TypeOK /\ CoresInRange /\ SelectionAdmissible /\ Offsets
      /\ pc = "subsets" /\ pc' = "held" /\ stack = <<>>
  BY DEF SelectionInv, SubsetsDone
<1>2. UNCHANGED <<chain, layer, skip, end, row, col, cores, conflicts, held, stack, set, MaxIntersections>>
  BY DEF SubsetsDone, bounds, collections, search, MaxIntersections
<1>3. PICK p \in [1..Len(set) -> 1..Len(stack)] : PickedBy(p)
  BY DEF SelectionInv
<1>4. set = <<>>
  <2>1. Len(set) \in Nat /\ set \in Seq(Nat \ {0})
    BY <1>1, StackShape
  <2>2. Len(set) = 0
    <3>1. ~(1 \in 1..Len(set))
      <4> SUFFICES ASSUME 1 \in 1..Len(set) PROVE p[1] \in 1..0 /\ FALSE
        OBVIOUS
      <4>1. p[1] \in 1..Len(stack)
        BY <1>3
      <4> QED
        BY <1>1, <4>1
    <3> QED
      BY <2>1, <3>1
  <2> QED
    BY <2>1, <2>2, EmptySeq
<1>5. PickedBy(p)'
  BY <1>1, <1>2, <1>4 DEF PickedBy
<1>6. Offsets' /\ SelectionAdmissible'
  BY <1>1, <1>2, <1>4 DEF Offsets, SelectionAdmissible
<1>7. TypeOK' /\ CoresInRange'
  BY <1>1, <1>2 DEF TypeOK, CoresInRange
<1> QED
  BY <1>1, <1>2, <1>3, <1>4, <1>5, <1>6, <1>7 DEF SelectionInv

\* The loops after the intersections only add CPQs.
LEMMA AddingPreserves ==
    ASSUME SelectionInv, AddHeld \/ Identity
    PROVE  SelectionInv'
<1>1. TypeOK /\ CoresInRange /\ pc \in {"held", "identity"} /\ pc' = pc /\ row \in Nat \ {0}
  BY DEF SelectionInv, AddHeld, Identity, TypeOK
<1>2. UNCHANGED <<chain, layer, skip, end, col, held, stack, set>> /\ row' = row + 1
  BY DEF AddHeld, Identity, bounds, search
<1>3. \E q \in CPQs : AddCore(q, NoSave)
  <2>1. CASE AddHeld
    <3>1. held \in Seq(CPQs) /\ row \in 1..Len(held)
      BY <1>1, <2>1 DEF AddHeld, TypeOK
    <3> QED
      BY <2>1, <3>1 DEF AddHeld
  <2>2. CASE Identity
    <3>1. cores \in Seq(CPQs) /\ row \in 1..Len(cores)
      BY <1>1, <2>2 DEF Identity, TypeOK, CoresInRange
    <3>2. WithId(cores[row]) \in CPQs
      BY <3>1, WithIdType
    <3> QED
      BY <2>2, <3>2 DEF Identity
  <2> QED
    BY <2>1, <2>2
<1>4. cores' \in Seq(CPQs) /\ Len(cores) <= Len(cores')
  <2>1. PICK q \in CPQs : AddCore(q, NoSave)
    BY <1>3
  <2>2. cores \in Seq(CPQs) /\ NoSave \in BOOLEAN
    BY <1>1, NoSaveType DEF TypeOK
  <2> QED
    BY <2>1, <2>2, AddCoreType
<1>5. TypeOK' /\ CoresInRange'
  BY <1>1, <1>2, <1>4 DEF TypeOK, CoresInRange
<1> QED
  BY <1>1, <1>2, <1>5, OutsideStep DEF bounds, search

\* The end of a block leaves the selection empty.
LEMMA EndPreserves ==
    ASSUME SelectionInv, HeldDone \/ Finish \/ Done
    PROVE  SelectionInv'
<1>1. TypeOK /\ CoresInRange /\ pc \in {"held", "identity", "done"} /\ pc' \in {"identity", "done"} /\ (pc = "done" => pc' = "done")
  BY DEF SelectionInv, HeldDone, Finish, Done, vars
<1>2. UNCHANGED <<chain, layer, skip, end, col, held, stack, set>>
  BY DEF HeldDone, Finish, Done, vars, bounds, search
<1>3. row' \in Nat \ {0}
  BY <1>1 DEF HeldDone, Finish, Done, vars, TypeOK
<1>4. cores' = cores \/ (cores' = <<>> /\ pc' = "done")
  BY DEF HeldDone, Finish, Done, vars, collections
<1>5. cores' \in Seq(CPQs)
  BY <1>1, <1>4, EmptySeq DEF TypeOK
<1>6. TypeOK'
  BY <1>1, <1>2, <1>3, <1>5 DEF TypeOK
<1>7. CoresInRange'
  BY <1>1, <1>2, <1>4 DEF CoresInRange
<1> QED
  BY <1>1, <1>2, <1>6, <1>7, OutsideStep DEF bounds, search

\* The next block starts without a selection.
LEMMA NextBlockPreserves ==
    ASSUME SelectionInv, NextBlock
    PROVE  SelectionInv'
<1>1. TypeOK /\ pc = "done" /\ pc' = "own" /\ set = <<>> /\ stack = <<>> /\ MaxIntersections \in Nat
  BY ChainType DEF SelectionInv, NextBlock
<1>2. /\ UNCHANGED <<chain, col, cores, end, held, stack, set>>
      /\ layer' = layer + 1 /\ skip' = Len(cores) /\ row' = 1
  BY DEF NextBlock, collections, search
<1>3. layer' \in 1..Len(chain'.own)
  BY <1>1, <1>2, ChainType DEF NextBlock
<1>4. TypeOK' /\ CoresInRange'
  BY <1>1, <1>2, <1>3 DEF TypeOK, CoresInRange
<1>5. Offsets' /\ SelectionAdmissible'
  BY <1>1, <1>2 DEF Offsets, SelectionAdmissible, MaxIntersections
<1>6. [i \in 1..0 |-> 1] \in [1..Len(set') -> 1..Len(stack')] /\ PickedBy([i \in 1..0 |-> 1])'
  BY <1>1, <1>2 DEF PickedBy
<1> QED
  BY <1>1, <1>2, <1>4, <1>5, <1>6 DEF SelectionInv

\* Steps that change nothing.
LEMMA StutterPreserves ==
    ASSUME SelectionInv, UNCHANGED vars
    PROVE  SelectionInv'
<1>1. UNCHANGED <<chain, layer, pc, row, col, cores, skip, end, conflicts, held, stack, set>>
  BY DEF vars, bounds, collections, search
<1>2. PICK p \in [1..Len(set) -> 1..Len(stack)] : PickedBy(p)
  BY DEF SelectionInv
<1>3. MaxIntersections' = MaxIntersections
  BY <1>1 DEF MaxIntersections
<1>4. p \in [1..Len(set') -> 1..Len(stack')] /\ PickedBy(p)'
  BY <1>1, <1>2, <1>3 DEF PickedBy
<1>5. TypeOK' /\ CoresInRange'
  BY <1>1 DEF SelectionInv, TypeOK, CoresInRange
<1>6. SelectionAdmissible' /\ Offsets'
  BY <1>1, <1>3 DEF SelectionInv, SelectionAdmissible, Offsets
<1> QED
  BY <1>1, <1>3, <1>4, <1>5, <1>6 DEF SelectionInv

-----------------------------------------------------------------------------
(* The theorems.                                                           *)

\* The stack of calls and the selection belong together in every reachable state.
THEOREM SelectionInvariant == Spec => []SelectionInv
<1>1. Init => SelectionInv
  BY SelectionInit
<1>2. SelectionInv /\ [Next]_vars => SelectionInv'
  <2> SUFFICES ASSUME SelectionInv, [Next]_vars PROVE SelectionInv'
    OBVIOUS
  <2>1. CASE OwnCore
    BY <2>1, OwnCorePreserves
  <2>2. CASE OwnDone
    BY <2>2, OwnDonePreserves
  <2>3. CASE PairInConflict \/ HoldPair \/ NextRow
    BY <2>3, PairsPreserve
  <2>4. CASE PairsDone
    BY <2>4, PairsDonePreserves
  <2>5. CASE Subset
    BY <2>5, SubsetPreserves
  <2>6. CASE DontPick
    BY <2>6, DontPickPreserves
  <2>7. CASE Pick
    BY <2>7, PickPreserves
  <2>8. CASE CannotPick
    BY <2>8, CannotPickPreserves
  <2>9. CASE Unpick
    BY <2>9, UnpickPreserves
  <2>10. CASE SubsetsDone
    BY <2>10, SubsetsDonePreserves
  <2>11. CASE AddHeld \/ Identity
    BY <2>11, AddingPreserves
  <2>12. CASE HeldDone \/ Finish \/ Done
    BY <2>12, EndPreserves
  <2>13. CASE NextBlock
    BY <2>13, NextBlockPreserves
  <2>14. CASE UNCHANGED vars
    BY <2>14, StutterPreserves
  <2> QED
    BY <2>1, <2>2, <2>3, <2>4, <2>5, <2>6, <2>7, <2>8, <2>9, <2>10, <2>11, <2>12, <2>13, <2>14 DEF Next
<1> QED
  BY <1>1, <1>2, PTL DEF Spec

\* For every chain of blocks and every limit the variables of computeCores have their
\* types, and a core is in conflict with earlier ones only (Index.java:1131-1143, 1158).
THEOREM TypeCorrect == Spec => []TypeOK
<1>1. SelectionInv => TypeOK
  BY DEF SelectionInv
<1> QED
  BY <1>1, SelectionInvariant, PTL

\* For every chain of blocks, every limit and any homomorphisms, no intersection that
\* computeIntersectionCores builds exceeds the limit, has two inherited cores or a
\* pair in conflict (Index.java:1206, 1220-1228).
THEOREM SelectionCorrect == Spec => []SelectionAdmissible
<1>1. SelectionInv => SelectionAdmissible
  BY DEF SelectionInv
<1> QED
  BY <1>1, SelectionInvariant, PTL

-----------------------------------------------------------------------------
(* The cores of a block and their canonical forms.                         *)

\* A list of CPQs has one CPQ for each of finitely many cores.
Matches(canon, list) ==
    /\ IsFiniteSet(canon)
    /\ {Core(list[i]) : i \in DOMAIN list} = canon
    /\ Len(list) = Cardinality(canon)

MatchInv == ~NoSave => Matches(canonCores, cores)

\* Appending a CPQ with a new core keeps list and cores matching.
LEMMA MatchesMore ==
    ASSUME NEW list \in Seq(CPQs), NEW canon, Matches(canon, list), NEW q \in CPQs, Core(q) \notin canon
    PROVE  Matches(canon \cup {Core(q)}, list \o <<q>>)
<1> DEFINE longer == list \o <<q>>
<1>1. /\ longer \in Seq(CPQs) /\ Len(longer) = Len(list) + 1 /\ Len(list) \in Nat
      /\ \A i \in 1..Len(list) : longer[i] = list[i]
      /\ longer[Len(list) + 1] = q
  OBVIOUS
<1> HIDE DEF longer
<1>2. DOMAIN longer = 1..(Len(list) + 1) /\ DOMAIN list = 1..Len(list)
  BY <1>1
<1>3. {Core(longer[i]) : i \in DOMAIN longer} = {Core(list[i]) : i \in DOMAIN list} \cup {Core(q)}
  <2>1. ASSUME NEW i \in DOMAIN longer
        PROVE  Core(longer[i]) \in {Core(list[j]) : j \in DOMAIN list} \cup {Core(q)}
    <3>1. CASE i \in 1..Len(list)
      BY <1>1, <1>2, <3>1
    <3>2. CASE i = Len(list) + 1
      BY <1>1, <3>2
    <3> QED
      BY <1>1, <1>2, <3>1, <3>2
  <2>2. ASSUME NEW i \in DOMAIN list
        PROVE  Core(list[i]) \in {Core(longer[j]) : j \in DOMAIN longer}
    <3>1. i \in DOMAIN longer /\ longer[i] = list[i]
      BY <1>1, <1>2
    <3> QED
      BY <3>1
  <2>3. Core(q) \in {Core(longer[j]) : j \in DOMAIN longer}
    <3>1. Len(list) + 1 \in DOMAIN longer
      BY <1>1, <1>2
    <3> QED
      BY <1>1, <3>1
  <2> QED
    BY <2>1, <2>2, <2>3
<1>4. IsFiniteSet(canon \cup {Core(q)}) /\ Cardinality(canon \cup {Core(q)}) = Cardinality(canon) + 1
  BY FS_AddElement DEF Matches
<1> QED
  BY <1>1, <1>3, <1>4 DEF Matches, longer

\* What Saved appends keeps a list and the cores matching, whether the core is known or not.
LEMMA SavedMatches ==
    ASSUME cores \in Seq(CPQs), Matches(canonCores, cores), NEW q \in CPQs
    PROVE  Matches(canonCores \cup {Core(q)}, cores \o Saved(q, FALSE))
<1>1. CASE Core(q) \in canonCores
  <2>1. canonCores \cup {Core(q)} = canonCores /\ cores \o Saved(q, FALSE) = cores
    BY <1>1 DEF Saved
  <2> QED
    BY <2>1
<1>2. CASE Core(q) \notin canonCores
  BY <1>2, MatchesMore DEF Saved
<1> QED
  BY <1>1, <1>2

\* Cores do not depend on anything that a step changes.
LEMMA SameCores ==
    ASSUME UNCHANGED chain
    PROVE  Matches(canonCores, cores)' <=> Matches(canonCores', cores')
BY DEF Matches, Core, Representative, MapsTo

\* A step that leaves the cores of a block alone keeps them matching.
LEMMA OtherStepsMatch ==
    ASSUME MatchInv, UNCHANGED <<chain, canonCores, cores>>, NoSave' \/ ~NoSave
    PROVE  MatchInv'
BY SameCores DEF MatchInv

\* What addCore does to lists that match.
LEMMA AddCoreMatches ==
    ASSUME cores \in Seq(CPQs), Matches(canonCores, cores), NEW q \in CPQs, AddCore(q, FALSE)
    PROVE  Matches(canonCores', cores')
BY SavedMatches DEF AddCore

\* With saved forms, every step that adds cores keeps them matching.
LEMMA AddingMatches ==
    ASSUME SelectionInv, MatchInv, ~NoSave, UNCHANGED <<chain, layer>>,
           NEW q \in CPQs, AddCore(q, NoSave)
    PROVE  MatchInv'
<1>1. cores \in Seq(CPQs) /\ Matches(canonCores, cores)
  BY DEF SelectionInv, TypeOK, MatchInv
<1>2. NoSave = FALSE
  BY NoSaveType
<1>3. Matches(canonCores', cores')
  BY <1>1, <1>2, AddCoreMatches
<1> QED
  BY <1>3, SameCores DEF MatchInv

\* An intersection of several cores is added by itself and with the identity: two
\* different cores.
LEMMA SubsetMatches ==
    ASSUME SelectionInv, MatchInv, ~NoSave, Subset
    PROVE  MatchInv'
<1> DEFINE list == [i \in 1..Len(set) |-> cores[set[i]]]
           q == Intersect(list)
<1>1. TypeOK /\ SelectionAdmissible /\ CoresInRange /\ pc = "subsets" /\ UNCHANGED <<chain, layer>>
  BY DEF SelectionInv, Subset, Running, bounds
<1>2. cores \in Seq(CPQs) /\ Matches(canonCores, cores)
  BY <1>1 DEF TypeOK, MatchInv
<1>3. Len(set) \in Nat /\ list \in [1..Len(set) -> CPQs]
  <2>1. set \in Seq(Nat \ {0}) /\ end \in Nat /\ end <= Len(cores)
    BY <1>1 DEF TypeOK, CoresInRange
  <2>2. ASSUME NEW i \in 1..Len(set)
        PROVE  cores[set[i]] \in CPQs
    <3>1. set[i] \in Nat \ {0} /\ set[i] <= end
      BY <1>1, <2>1 DEF SelectionAdmissible
    <3>2. set[i] \in 1..Len(cores)
      BY <1>2, <2>1, <3>1
    <3> QED
      BY <1>2, <3>2
  <2> QED
    BY <2>1, <2>2
<1>4. q \in CPQs /\ WithId(q) \in CPQs
  BY <1>3, IntersectType, WithIdType
<1>5. \/ UNCHANGED collections
      \/ AddCore(q, NoSave)
      \/ /\ ~q.id
         /\ canonCores' = canonCores \cup {Core(q), Core(WithId(q))}
         /\ cores' = cores \o Saved(q, NoSave) \o Saved(WithId(q), NoSave)
  BY DEF Subset
<1> HIDE DEF q
<1>6. CASE UNCHANGED collections
  BY <1>1, <1>6, OtherStepsMatch DEF collections, NoSave
<1>7. CASE AddCore(q, NoSave)
  BY <1>1, <1>4, <1>7, AddingMatches
<1>8. CASE /\ ~q.id
           /\ canonCores' = canonCores \cup {Core(q), Core(WithId(q))}
           /\ cores' = cores \o Saved(q, NoSave) \o Saved(WithId(q), NoSave)
  <2> DEFINE half == cores \o Saved(q, FALSE)
             canon == canonCores \cup {Core(q)}
             more == Saved(WithId(q), FALSE)
  <2>1. half \in Seq(CPQs) /\ Matches(canon, half)
    BY <1>2, <1>4, SavedMatches, SavedType, ConcatProperties
  <2>2. NoSave = FALSE
    BY NoSaveType
  <2>3. Core(q) # Core(WithId(q))
    <3>1. Core(q).id = q.id /\ Core(WithId(q)).id = TRUE
      BY <1>4 DEF Core, WithId, CPQs
    <3> QED
      BY <1>8, <3>1
  <2>4. cores' = half \o more /\ canonCores' = canon \cup {Core(WithId(q))}
    BY <1>8, <2>2
  <2>5. Matches(canonCores', cores')
    <3>1. CASE Core(WithId(q)) \in canonCores
      <4>1. more = <<>> /\ canonCores' = canon
        BY <2>4, <3>1 DEF Saved
      <4> HIDE DEF half, canon, more
      <4>2. cores' = half
        BY <2>1, <2>4, <4>1
      <4> QED
        BY <2>1, <4>1, <4>2
    <3>2. CASE Core(WithId(q)) \notin canonCores
      <4>1. more = <<WithId(q)>> /\ Core(WithId(q)) \notin canon
        BY <2>3, <3>2 DEF Saved
      <4> HIDE DEF half, canon, more
      <4> QED
        BY <1>4, <2>1, <2>4, <4>1, MatchesMore
    <3> QED
      BY <3>1, <3>2
  <2> QED
    BY <1>1, <2>5, SameCores DEF MatchInv
<1> QED
  BY <1>5, <1>6, <1>7, <1>8

\* Every step keeps the cores and the canonical forms matching while they are needed.
LEMMA MatchPreserved ==
    ASSUME SelectionInv, MatchInv, [Next]_vars
    PROVE  MatchInv'
<1>1. TypeOK /\ chain.own \in Seq(Seq(CPQs)) /\ layer \in 1..Len(chain.own) /\ cores \in Seq(CPQs)
  BY ChainType DEF SelectionInv, TypeOK
<1>2. CASE OwnCore
  <2>1. chain.own[layer] \in Seq(CPQs) /\ row \in 1..Len(chain.own[layer])
    BY <1>1, <1>2, ChainType DEF OwnCore, TypeOK
  <2> DEFINE own == chain.own[layer]
  <2> HIDE DEF own
  <2>2. own[row] \in CPQs /\ AddCore(own[row], FALSE) /\ UNCHANGED <<chain, layer>>
    <3>1. own[row] \in CPQs
      BY <2>1 DEF own
    <3> QED
      BY <1>2, <3>1 DEF OwnCore, bounds, own
  <2>3. ~NoSave => Matches(canonCores', cores')
    BY <1>1, <2>2, AddCoreMatches DEF MatchInv
  <2> QED
    BY <2>2, <2>3, SameCores DEF MatchInv, NoSave
<1>3. CASE Subset
  <2>1. UNCHANGED <<chain, layer>>
    BY <1>3 DEF Subset, bounds
  <2>2. NoSave' = NoSave
    BY <2>1 DEF NoSave
  <2> QED
    BY <1>3, <2>2, SubsetMatches DEF MatchInv
<1>4. CASE AddHeld
  <2>1. held \in Seq(CPQs) /\ row \in 1..Len(held)
    BY <1>1, <1>4 DEF AddHeld, TypeOK
  <2>2. held[row] \in CPQs /\ AddCore(held[row], NoSave) /\ UNCHANGED <<chain, layer>>
    BY <1>4, <2>1 DEF AddHeld, bounds
  <2>3. NoSave' = NoSave
    BY <2>2 DEF NoSave
  <2> QED
    BY <2>2, <2>3, AddingMatches DEF MatchInv
<1>5. CASE Identity
  <2>1. row \in 1..Len(cores)
    BY <1>1, <1>5 DEF Identity, TypeOK, SelectionInv, CoresInRange
  <2>2. WithId(cores[row]) \in CPQs /\ AddCore(WithId(cores[row]), NoSave) /\ UNCHANGED <<chain, layer>>
    BY <1>1, <1>5, <2>1, WithIdType DEF Identity, bounds
  <2>3. NoSave' = NoSave
    BY <2>2 DEF NoSave
  <2> QED
    BY <2>2, <2>3, AddingMatches DEF MatchInv
<1>6. CASE Finish
  <2>1. UNCHANGED <<chain, layer, canonCores>> /\ NoSave' = NoSave /\ (~NoSave => UNCHANGED cores)
    BY <1>6 DEF Finish, bounds, NoSave
  <2> QED
    BY <2>1, OtherStepsMatch DEF MatchInv
<1>7. CASE NextBlock
  <2>1. UNCHANGED <<chain, canonCores, cores>> /\ layer # Len(chain.own)
    BY <1>1, <1>7 DEF NextBlock, collections
  <2> QED
    BY <2>1, OtherStepsMatch DEF NoSave
<1>8. CASE \/ OwnDone \/ PairInConflict \/ HoldPair \/ NextRow \/ PairsDone
           \/ DontPick \/ Pick \/ CannotPick \/ Unpick \/ SubsetsDone \/ HeldDone \/ Done
           \/ UNCHANGED vars
  <2>1. UNCHANGED <<chain, layer, canonCores, cores>>
    BY <1>8 DEF OwnDone, PairInConflict, HoldPair, NextRow, PairsDone, DontPick, Pick, CannotPick,
                Unpick, SubsetsDone, HeldDone, Done, vars, bounds, collections
  <2>2. NoSave' = NoSave
    BY <2>1 DEF NoSave
  <2> QED
    BY <2>1, <2>2, OtherStepsMatch DEF MatchInv
<1> QED
  BY <1>2, <1>3, <1>4, <1>5, <1>6, <1>7, <1>8 DEF Next

\* For every chain of blocks, every limit and any homomorphisms, the explicit cores that
\* later blocks inherit stand for the canonical forms one to one: none is kept twice
\* and none is missing (Index.java:1074-1075, 1099).
THEOREM FormsMatch == Spec => []CoresMatchForms
<1>1. Init => MatchInv
  <2> SUFFICES ASSUME Init PROVE Matches(canonCores, cores)
    BY DEF MatchInv
  <2>1. canonCores = {} /\ cores = <<>>
    BY DEF Init
  <2> QED
    BY <2>1, FS_EmptySet DEF Matches
<1>2. SelectionInv /\ MatchInv /\ [Next]_vars => MatchInv'
  BY MatchPreserved
<1>3. SelectionInv /\ MatchInv => CoresMatchForms
  BY DEF SelectionInv, MatchInv, Matches, CoresMatchForms
<1> QED
  BY <1>1, <1>2, <1>3, SelectionInvariant, PTL DEF Spec
=============================================================================
