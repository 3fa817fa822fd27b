-------------------------- MODULE MCImmutableStore --------------------------
(* Small instances of ImmutableStore.                                      *)
EXTENDS ImmutableStore, TLC

CONSTANTS a1, a2, b1, k1, k2, t1, r1, r2, q1, i1, i2

\* Two threads of one process and one of another.
HostOf == (a1 :> i1) @@ (a2 :> i1) @@ (b1 :> i2)
\* One thread of each of two processes.
HostOfTwo == (a1 :> i1) @@ (b1 :> i2)

\* r1 and r2 come from two sources with one tree, of which q1 is a path snapshot.
Sources == [r \in Request |-> CASE r = r1 -> k1 [] r = r2 -> k2 [] r = q1 -> NoKey]
OneTree == [r \in Request |-> t1]

AllPoints == {"lease", "slot", "fetch", "materialize", "rename", "seal", "rollback",
              "record", "renameRecord", "syncRecord", "cleanup"}
=============================================================================
