----------------------------- MODULE MCHashChain -----------------------------
(* Small instances of HashChain; the bounds are in the .cfg files.            *)
EXTENDS HashChain, TLC

CONSTANTS w1, w2

Symmetry == Permutations(Writers)
==============================================================================
