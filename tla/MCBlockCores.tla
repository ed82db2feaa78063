---------------------------- MODULE MCBlockCores ----------------------------
(***************************************************************************)
(* All ways in which a few branches may map to each other, for chains of   *)
(* two or three blocks.                                                    *)
(***************************************************************************)
EXTENDS BlockCores

\* The partial orders of n branches, as sets of pairs, and the preorders that extend one by a pair.
Diagonal(n) == {<<x, x>> : x \in 1..n}
Transitive(R) == \A p, q \in R : p[2] = q[1] => <<p[1], q[2]>> \in R
Orders(n) ==
    {R \in {E \cup Diagonal(n) : E \in SUBSET {<<x, y>> \in (1..n) \X (1..n) : x # y}} :
        Transitive(R) /\ \A p \in R : <<p[2], p[1]>> \in R => p[1] = p[2]}
Extensions(R, n) ==
    {{<<x, y>> \in (1..n) \X (1..n) : <<x, y>> \in R \/ (<<x, p[1]>> \in R /\ <<p[2], y>> \in R)} :
        p \in (1..n) \X (1..n)}

Chain(n, R, id, loop, own, m, labels) ==
    [branches |-> n, maps |-> R, mapsId |-> id, loop |-> loop, own |-> own, maxIntersections |-> m,
     computeLabels |-> labels]

B(s) == [i \in DOMAIN s |-> Branch(s[i])]

\* Two or three layers that share four branches.
Plain ==
    {Chain(4, R, R, FALSE, own, m, FALSE) :
        R \in Orders(4),
        own \in {<<B(<<1, 2>>), B(<<3, 4>>)>>, <<B(<<1, 2>>), B(<<3>>), B(<<4>>)>>, <<B(<<1, 2, 3>>), B(<<4>>)>>},
        m \in 2..3}

\* Loops of three branches: the identity may make one more pair map.  In the last
\* shape the own cores of layer 2 contain the concatenation of two loops.
Loops ==
    UNION {{Chain(3, R, id, TRUE, own, m, labels) :
        id \in Extensions(R, 3),
        own \in {<<B(<<1, 2>>), B(<<3>>)>>, <<B(<<1>>), B(<<2, 3>>)>>,
                 <<B(<<1, 2>>), Append(B(<<3>>), WithId(Intersect(B(<<1, 2>>))))>>},
        m \in 1..3, labels \in BOOLEAN} : R \in Orders(3)}

AllChains == Plain \cup Loops
=============================================================================
