------------------------- MODULE MCManagedProject -------------------------
(* Small instances of ManagedProject.                                      *)
EXTENDS ManagedProjectInv, TLC

CONSTANTS p1, p2, t1, t2, t3, a, b, m, x, d

\* The configuration file may be edited from a to b and back.  Read once before
\* and once after an edit, it does to the input and to the generation what an
\* edit of the packages does: the input matches and the generation differs.
As(config) == [config |-> config, pins |-> m, packages |-> x]
OneSource == {As(a)}
EditedSources == {As(a), As(b)}

Declares == (a :> d) @@ (b :> d)
ContentsOf(sources) ==
    [declared : {d}, config : {s.config : s \in sources}, packages : {x}]
OneContent == ContentsOf(OneSource)
EditedContents == ContentsOf(EditedSources)

AllPoints == (Point \cup CommandPoint) \ Quiet

\* All points except those where a create-new file is still empty.
WholeFilePoints == AllPoints \ {"writeLock", "writeRecord", "writeReservation"}

ProcSymmetry == Permutations(Proc)
Symmetry == ProcSymmetry \cup Permutations(Txn)
===========================================================================
