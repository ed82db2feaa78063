----------------------------- MODULE Canonizer -----------------------------
(***************************************************************************)
(* What the native method Nauty.computeCanonSparse promises to the index:  *)
(* asked for one coloured graph after the other it answers each with a     *)
(* labelling that respects the colours, and graphs that are the same up to *)
(* the names of their vertices, whenever they are asked, get labellings    *)
(* that turn them into the same graph.                                     *)
(***************************************************************************)
EXTENDS ColoredGraph

CONSTANT Workloads   \* The sequences of graphs that are asked.

VARIABLES
    todo,      \* The graphs still to be asked
    answers    \* and the answers so far: records of a graph and a labelling.

Init ==
    /\ todo \in Workloads
    /\ answers = <<>>

\* An answer that agrees with an earlier one.
Agree(a, b) ==
    Isomorphisms(a.graph, b.graph) # {} => Relabel(a.graph, a.lab) = Relabel(b.graph, b.lab)

Answer ==
    LET k == Len(answers')
    IN  /\ todo # <<>>
        /\ todo' = Tail(todo)
        /\ k = Len(answers) + 1
        /\ \A i \in DOMAIN answers : answers'[i] = answers[i]
        /\ answers'[k].graph = Head(todo)
        /\ IsLabelling(answers'[k].graph, answers'[k].lab)
        /\ \A i \in DOMAIN answers : Agree(answers[i], answers'[k])

Spec == Init /\ [][Answer]_<<todo, answers>>
=============================================================================
