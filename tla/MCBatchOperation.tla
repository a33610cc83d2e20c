-------------------------- MODULE MCBatchOperation --------------------------
(* Model checking of BatchOperation: two workers, each of which may be any *)
(* of the three kinds in turn.                                              *)
EXTENDS BatchOperation, TLC

BatchSymmetry == Permutations(Notes) \cup Permutations(Txs) \cup Permutations(Workers)
=============================================================================
