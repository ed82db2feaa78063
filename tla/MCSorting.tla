----------------------------- MODULE MCSorting -----------------------------
(***************************************************************************)
(* Arrays to sort: all short ones of a few values, and longer ones that    *)
(* are split often.  The segments that are sorted by insertion, and those  *)
(* that are split at a median of three, are shorter than in nauty, so that *)
(* short arrays take all the ways.                                         *)
(***************************************************************************)
EXTENDS Sorting

CONSTANTS MaxSize, Value

Input(n, keys) == {[size |-> n, keys |-> keys, indirect |-> b] : b \in BOOLEAN}

ShortArrays == UNION {UNION {Input(n, k) : k \in [0..(n - 1) -> Value]} : n \in 0..MaxSize}

\* Ascending, descending, rising and falling, and with the least value in the middle.
LongArrays ==
    UNION {Input(n, [p \in 0..(n - 1) |-> p]) \cup Input(n, [p \in 0..(n - 1) |-> -p])
           \cup Input(n, [p \in 0..(n - 1) |-> (p * 5) % n]) \cup Input(n, [p \in 0..(n - 1) |-> p * (n - p)])
           \cup Input(n, [p \in 0..(n - 1) |-> (p + n \div 2) % n]) : n \in 10..14}

AllArrays == ShortArrays \cup LongArrays
=============================================================================
