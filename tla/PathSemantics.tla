--------------------------- MODULE PathSemantics ---------------------------
(***************************************************************************)
(* Reference definitions for the index of a graph g: what is connected by  *)
(* paths of a length, with which label sequences, which pairs of vertices  *)
(* are k-path-bisimilar and which relations the conjunctive path queries   *)
(* (CPQ) of a diameter denote.  None of them mentions the segment ids,     *)
(* sorting or blocks of the construction.                                  *)
(*                                                                         *)
(* An edge is <<source, label, target>>.  Each operator that takes n       *)
(* returns a sequence with one element per length 1..n.                    *)
(***************************************************************************)
EXTENDS Integers, Sequences, FiniteSets, FiniteSetsExt

\* The code LabelSequence.write uses for the inverse of a label.
Backward(label) == -label - 1

\* Every edge can be followed in both directions.
Steps(g) == g \cup {<<e[3], Backward(e[2]), e[1]>> : e \in g}
OneStep(g) == {<<s[1], s[3]>> : s \in Steps(g)}

\* Grow(first, more, n) is <<first, more(<<first>>), ...>>, of length n.
Grow(first, more(_), n) ==
    LET upto[i \in 1..n] ==
            IF i = 1 THEN <<first>> ELSE LET prev == upto[i - 1] IN Append(prev, more(prev))
    IN  upto[n]

Compose(r, s) ==
    {<<x[1][1], x[2][2]>> : x \in {y \in r \X s : y[1][2] = y[2][1]}}

\* The pairs connected by a path of exactly i edges.
Walks(g, n) ==
    LET more(prev) == Compose(prev[Len(prev)], OneStep(g)) IN Grow(OneStep(g), more, n)

\* The label sequences of those paths, as <<pair, sequence>>.
LabelWalks(g, n) ==
    LET one == {<<<<s[1], s[3]>>, <<s[2]>>>> : s \in Steps(g)}
        more(prev) ==
            {<<<<x[1][1][1], x[2][1][2]>>, x[1][2] \o x[2][2]>> :
                 x \in {y \in prev[Len(prev)] \X one : y[1][1][2] = y[2][1][1]}}
    IN  Grow(one, more, n)

\* Which pairs with a path of exactly i edges are equivalent: loops only with
\* loops, the same labels for i = 1, and otherwise the same classes of parts
\* in every split and the same class at the last shorter length they occur at.
Bisimilar(g, n) ==
    LET W == Walks(g, n)
        Loop(p) == p[1] = p[2]
        Labels(p) == {s[2] : s \in {s \in Steps(g) : <<s[1], s[3]>> = p}}
        Before(p, i) == {j \in 1..(i - 1) : p \in W[j]}
        first == {x \in W[1] \X W[1] :
                      Loop(x[1]) = Loop(x[2]) /\ Labels(x[1]) = Labels(x[2])}
        \* Every way through q's middle vertices is matched by one through p's.
        Matched(prev, i, p, q) ==
            \A j \in 1..(i - 1) :
                \A y \in {w \in W[j] : w[1] = q[1] /\ <<w[2], q[2]>> \in W[i - j]} :
                    \E x \in {w \in W[j] : w[1] = p[1] /\ <<w[2], p[2]>> \in W[i - j]} :
                        /\ <<x, y>> \in prev[j]
                        /\ <<<<x[2], p[2]>>, <<y[2], q[2]>>>> \in prev[i - j]
        Same(prev, i, p, q) ==
            /\ Loop(p) = Loop(q)
            /\ Matched(prev, i, p, q) /\ Matched(prev, i, q, p)
            /\ IF Before(p, i) = {} THEN Before(q, i) = {}
               ELSE /\ Before(q, i) # {} /\ Max(Before(p, i)) = Max(Before(q, i))
                    /\ <<p, q>> \in prev[Max(Before(p, i))]
        more(prev) ==
            LET i == Len(prev) + 1
            IN  {x \in W[i] \X W[i] : Same(prev, i, x[1], x[2])}
    IN  Grow(first, more, n)

\* All the intersections of members of a set of relations.
MeetClosure(S) ==
    LET meet(r, acc) == acc \cup {r} \cup {r \cap s : s \in acc} IN FoldSet(meet, {}, S)

\* The relations on V that the CPQs of diameter at most i denote on g: a CPQ
\* is the identity, a label, a concatenation, whose diameters add up, or a
\* conjunction, whose diameter is the larger one.
Definable(g, V, n) ==
    LET id == {<<v, v>> : v \in V}
        one == {{<<s[1], s[3]>> : s \in {s \in Steps(g) : s[2] = l}} : l \in {s[2] : s \in Steps(g)}}
        more(prev) ==
            LET i == Len(prev) + 1
            IN  MeetClosure(prev[i - 1] \cup
                    UNION {{Compose(r, s) : r \in prev[j], s \in prev[i - j]} : j \in 1..(i - 1)})
    IN  Grow(MeetClosure(one \cup {id}), more, n)
=============================================================================
