----------------------------- MODULE MCClientHub -----------------------------
(* Model-checking instance of ClientHub: connections of one instance.      *)
EXTENDS ClientHub, TLC

CONSTANTS c1, c2, s1, s2, s3, app

OneKey == [c \in Conns |-> app]
OneDest == [s \in Sends |-> app]
Symmetry == Permutations(Conns) \cup Permutations(Sends)
=============================================================================
