---------------------------- MODULE LayeredCores ----------------------------
(***************************************************************************)
(* What Index.computeCores promises, with neither threads nor locks: the   *)
(* cores of the blocks are computed layer by layer, a block only when the  *)
(* blocks it was combined from are ready, and the mapping from cores to    *)
(* blocks is built once, after the last layer.  The caller may also give   *)
(* up (an InterruptedException), after which the layers never advance.     *)
(***************************************************************************)
EXTENDS Naturals

CONSTANTS
    K,          \* The diameter of the index: the number of layers.
    Block,      \* The blocks of all layers.
    LayerOf,    \* The layer each block is stored in, 1..K.
    Deps        \* The blocks whose cores computing a block reads.

VARIABLES
    ready,      \* The blocks whose cores are complete.
    closed,     \* How many layers have been declared complete.
    outcome     \* "running", "mapped" or "abandoned".

vars == <<ready, closed, outcome>>

Init ==
    /\ ready = {}
    /\ closed = 0
    /\ outcome = "running"

\* Blocks of an abandoned computation may still become ready: nobody stops
\* the threads that compute them.
Compute(b) ==
    /\ b \notin ready
    /\ LayerOf[b] = closed + 1
    /\ Deps[b] \subseteq ready
    /\ ready' = ready \cup {b}
    /\ UNCHANGED <<closed, outcome>>

CloseLayer ==
    /\ outcome = "running"
    /\ closed < K
    /\ {b \in Block : LayerOf[b] = closed + 1} \subseteq ready
    /\ closed' = closed + 1
    /\ UNCHANGED <<ready, outcome>>

MapCores ==
    /\ outcome = "running"
    /\ closed = K
    /\ outcome' = "mapped"
    /\ UNCHANGED <<ready, closed>>

Abandon ==
    /\ outcome = "running"
    /\ closed < K
    /\ outcome' = "abandoned"
    /\ UNCHANGED <<ready, closed>>

Next ==
    \/ \E b \in Block : Compute(b)
    \/ CloseLayer
    \/ MapCores
    \/ Abandon

Spec == Init /\ [][Next]_vars
=============================================================================
