-------------------------- MODULE MCOrderExecution --------------------------
(* Orders in a few interchangeable instruments.                              *)
EXTENDS OrderExecutionImplements, TLC

Symmetry == Permutations(Symbols)

=============================================================================
