---------------------------- MODULE MCManagedBuild ----------------------------
(***************************************************************************)
(* Two projects with one source, which is the package core of the one and  *)
(* base of the other; the first also has a package above it.               *)
(***************************************************************************)
EXTENDS ManagedBuild

Git(source, dependencies) ==
    [kind |-> "git", source |-> source, tree |-> source, dependencies |-> dependencies]

Two == [core |-> Git("core1", {}), above |-> Git("above1", {"core"})]
One == [base |-> Git("core1", {})]

Entry(p, transaction, packages) ==
    LET lock == [schema |-> "v1", config |-> "c1", declaration |-> "d", toolchain |-> "v4",
                 packages |-> packages]
        project == [there |-> "there", config |-> "c1", toolchain |-> "v4", manifest |-> "m"]
        metadata == [transaction |-> transaction, project |-> p, root |-> <<p, transaction>>,
                     lock |-> lock, toolchain |-> "v4",
                     packages |-> [n \in DOMAIN packages |-> packages[n].tree]]
        generation == GenerationIdentity(metadata)
    IN  [name |-> p,
         record |-> [project |-> p, active |-> transaction, pending |-> FALSE, target |-> "t",
                     input |-> ManagementInput(project, "d")],
         project |-> project,
         active |-> [transaction |-> transaction, root |-> <<p, transaction>>,
                     generation |-> generation],
         transaction |-> [transaction |-> transaction, project |-> p,
                          generation |-> generation, state |-> "published"],
         metadata |-> metadata, lock |-> lock,
         trees |-> [n \in DOMAIN packages |-> packages[n].tree],
         references |-> Nothing]

MCBuilders == {"p", "q"}
MCEntries == [p \in MCBuilders |-> Entry(p, 1, IF p = "p" THEN Two ELSE One)]
MCMakes == [core |-> {"b1", "b2"}, base |-> {"b1", "b2"}, above |-> {"a1"}]
MCRegistered == [above |-> "a1"]
MCUpdates == [p \in MCBuilders |-> IF p = "q" THEN {Entry(p, 2, One)} ELSE {}]
=============================================================================
