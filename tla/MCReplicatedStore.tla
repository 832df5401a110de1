-------------------------- MODULE MCReplicatedStore --------------------------
(* Model-checking instance of ReplicatedStore: values of its constants.    *)
EXTENDS ReplicatedStore, TLC

CONSTANTS n1, n2, n3

NoSkew == [n \in Nodes |-> 0]
\* the clock of one node runs a tick ahead
SkewedNode == [n \in Nodes |-> IF n = n2 THEN 1 ELSE 0]

Symmetry == Permutations(Vals)
=============================================================================
