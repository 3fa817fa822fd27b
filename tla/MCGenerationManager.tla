----------------------- MODULE MCGenerationManager -----------------------
(* Small instances of GenerationManager.                                  *)
EXTENDS GenerationManagerInv, TLC

CONSTANTS p1, p2, t1, t2, t3, c1, c2

AllPoints == Point \ Quiet

ProcSymmetry == Permutations(Proc)
TxnSymmetry == Permutations(Txn)
Symmetry == ProcSymmetry \cup TxnSymmetry
==========================================================================
