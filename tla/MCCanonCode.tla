---------------------------- MODULE MCCanonCode ----------------------------
(***************************************************************************)
(* Cores of queries: graphs that are connected and that cannot be mapped   *)
(* to a part of themselves with the source and the target kept in place.   *)
(***************************************************************************)
EXTENDS CanonCode

CONSTANTS
    Label,      \* Predicate ids.
    MaxVertex,  \* The most vertices,
    MaxEdges    \* and the most edges of a core.

Triples(n) == (0..(n - 1)) \X Label \X (0..(n - 1))

Connected(n, E) ==
    \A U \in SUBSET (0..(n - 1)) :
        U \in {{}, 0..(n - 1)} \/ \E e \in E : (e[1] \in U) # (e[3] \in U)

IsCore(n, t, E) ==
    \A h \in [0..(n - 1) -> 0..(n - 1)] :
        (h[0] = 0 /\ h[t] = t /\ \A e \in E : <<h[e[1]], e[2], h[e[3]]>> \in E) =>
            \A x, y \in 0..(n - 1) : h[x] = h[y] => x = y

EdgeSets(n) == {{}} \cup {{s[i] : i \in 1..MaxEdges} : s \in [1..MaxEdges -> Triples(n)]}

CoresOf(n, t) ==
    {[vertices |-> n, source |-> 0, target |-> t, edges |-> SetToSeq(E)] :
        E \in {E \in EdgeSets(n) : Connected(n, E) /\ IsCore(n, t, E)}}

AllCores ==
    (UNION {CoresOf(n, 0) : n \in 1..MaxVertex}) \cup (UNION {CoresOf(n, 1) : n \in 2..MaxVertex})
=============================================================================
