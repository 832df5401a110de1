-------------------------- MODULE MCBadgerLogStore --------------------------
(* Model-checking instance of BadgerLogStore.                              *)
EXTENDS BadgerLogStore, TLC

CONSTANTS a, b

Symmetry == Permutations({a, b})
=============================================================================
