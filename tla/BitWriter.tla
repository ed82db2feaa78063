----------------------------- MODULE BitWriter -----------------------------
(***************************************************************************)
(* BitWriter: integers written with any number of bits to an array of      *)
(* bytes, most significant bit first.  A byte is the set of the positions  *)
(* of its ones (7 is the first one written), so that OR is union and a     *)
(* shift moves the positions.  One step is one turn of writeInt's loop.    *)
(***************************************************************************)
EXTENDS Integers

VARIABLES
    data,   \* The bytes.
    pos,    \* The byte being written.
    sub,    \* How many of its bits are still free.
    value,  \* The integer being written,
    bits    \* and how many bits of it are left to be written.

writerVars == <<data, pos, sub, value, bits>>

\* The array for a number of bits.
ByteCount(n) == n \div 8 + (IF (n \div 8) * 8 = n THEN 0 ELSE 1)
NewData(n) == [p \in 0..(ByteCount(n) - 1) |-> {}]

\* The ones among the lowest w bits of i.
LowBits(i, w) == {k \in 0..(w - 1) : (i \div 2^k) % 2 = 1}

NewWriter(n) ==
    /\ data' = NewData(n)
    /\ pos' = 0
    /\ sub' = 8
    /\ value' = 0
    /\ bits' = 0

WriteInt(i, w) ==
    /\ bits = 0
    /\ value' = i
    /\ bits' = w
    /\ UNCHANGED <<data, pos, sub>>

\* Leaving a full byte without going on to the next one.
FullyFits_Stay ==
    /\ bits > 0
    /\ sub >= bits
    /\ data' = [data EXCEPT ![pos] = @ \cup {k + sub - bits : k \in LowBits(value, bits)}]
    /\ sub' = IF sub = bits THEN 8 ELSE sub - bits
    /\ bits' = 0
    /\ UNCHANGED <<pos, value>>

FullyFits ==
    /\ bits > 0
    /\ sub >= bits
    /\ data' = [data EXCEPT ![pos] = @ \cup {k + sub - bits : k \in LowBits(value, bits)}]
    /\ IF sub = bits THEN pos' = pos + 1 /\ sub' = 8 ELSE pos' = pos /\ sub' = sub - bits
    /\ bits' = 0
    /\ UNCHANGED value

NeedsSplit ==
    /\ sub < bits
    /\ data' = [data EXCEPT ![pos] = @ \cup LowBits(value \div 2^(bits - sub), sub)]
    /\ bits' = bits - sub
    /\ pos' = pos + 1
    /\ sub' = 8
    /\ UNCHANGED value

WriteStep == FullyFits \/ NeedsSplit

\* How many bits were written.
Written == 8 * pos + 8 - sub

WriterTypeOK ==
    /\ \A p \in DOMAIN data : data[p] \subseteq 0..7
    /\ pos \in Nat /\ sub \in 1..8 /\ value \in Nat /\ bits \in Nat
=============================================================================
