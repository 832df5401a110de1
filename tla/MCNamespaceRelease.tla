------------------------- MODULE MCNamespaceRelease -------------------------
(* Model-checking instance of NamespaceRelease.                            *)
EXTENDS NamespaceRelease, TLC

CONSTANTS n1, n2, v1, v2, h1, h2

FileSymmetry == Permutations({v1, v2})
Symmetry == FileSymmetry \cup Permutations({h1, h2})
=============================================================================
