----------------------------- MODULE MCSchreier -----------------------------
(***************************************************************************)
(* Small groups, with the bases and sets that are asked for.               *)
(***************************************************************************)
EXTENDS Schreier

\* The permutation of 0..n-1 whose cycles are given.
Cycles(n, cycles) ==
    [x \in 0..(n - 1) |->
        IF \E c \in cycles : x \in ToSet(c)
        THEN LET c == CHOOSE c \in cycles : x \in ToSet(c)
                 i == CHOOSE i \in DOMAIN c : c[i] = x
             IN  c[(i % Len(c)) + 1]
        ELSE x]

Rotation(n) == [x \in 0..(n - 1) |-> (x + 1) % n]
Reflection(n) == [x \in 0..(n - 1) |-> n - 1 - x]

Symmetric3 ==
    [n |-> 3, perms |-> {Rotation(3), Cycles(3, {<<1, 2>>})}, calls |-> 4,
     bases |-> {<<2>>, <<0, 1>>}, sets |-> {{0, 1, 2}}]
Square ==
    [n |-> 4, perms |-> {Rotation(4), Reflection(4)}, calls |-> 3,
     bases |-> {<<>>, <<2>>, <<1, 0>>}, sets |-> {{}, {0, 2}}]
Rotations(n) == [n |-> n, perms |-> {Rotation(n)}, calls |-> 2, bases |-> {<<1>>}, sets |-> {{}}]

AllWorkloads == {Symmetric3, Square, Rotations(7)}
=============================================================================
