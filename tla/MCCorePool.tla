----------------------------- MODULE MCCorePool -----------------------------
(***************************************************************************)
(* Instances of CorePool for TLC.  The blocks of layer l are <<l, 1>>,     *)
(* <<l, 2>>, ...; Width gives the number of blocks per layer.              *)
(***************************************************************************)
EXTENDS CorePool, Sequences

CONSTANT Width

MCBlock == {<<l, i>> \in (1..K) \X (1..3) : i <= Width[l]}
MCLayerOf == [b \in MCBlock |-> b[1]]

\* Every block reads all the blocks of the layers below.
MCDeps == [b \in MCBlock |-> {d \in MCBlock : d[1] < b[1]}]

MCAll == MCBlock
MCNone == {}

Width21 == <<2, 1>>
Width211 == <<2, 1, 1>>
=============================================================================
