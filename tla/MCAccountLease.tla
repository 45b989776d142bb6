--------------------------- MODULE MCAccountLease ---------------------------
(* The lease among a small set of processes that are interchangeable.       *)
EXTENDS AccountLeaseImplements, TLC

Symmetry == Permutations(Instances)

=============================================================================
