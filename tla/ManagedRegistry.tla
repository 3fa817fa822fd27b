--------------------------- MODULE ManagedRegistry ---------------------------
(***************************************************************************)
(* What is read of a managed project (leanbun-managed: registry.rs,        *)
(* references.rs and execution.rs) and the keys of its compiled packages   *)
(* (leanbun-build: package_reuse.rs).  An entry is all that is on disk of  *)
(* a project: the managed record, the project itself, the active record    *)
(* with its transaction, metadata, lock and files, and the references of   *)
(* the last build.  A digest, and an identity, is the value it is made of. *)
(***************************************************************************)
EXTENDS Naturals, FiniteSets

CONSTANTS
    Nothing,      \* a file that is absent, or a refused one
    Supported     \* TOOLCHAIN, COMPILER and LAKE_VERSION

-----------------------------------------------------------------------------
(* Locks and keys.                                                         *)

GitPackages(lock) == {n \in DOMAIN lock.packages : lock.packages[n].kind = "git"}

\* PackageSourceKeyV1::from_locked_package
SourceKey(lock, n) == [source |-> lock.packages[n].source, tree |-> lock.packages[n].tree]

\* A package and all that is below it, to any depth.
Below(lock, n) ==
    {m \in DOMAIN lock.packages :
        \A S \in SUBSET DOMAIN lock.packages :
            (n \in S /\ \A k \in S : lock.packages[k].dependencies \subseteq S) => m \in S}

\* package_build_keys_v1: the packages that have a key are Git packages above
\* Git packages only.
Eligible(lock) == {n \in GitPackages(lock) : Below(lock, n) \subseteq GitPackages(lock)}

\* PackageBuildKeyV1::new, for an acyclic lock: a key has the names and keys of
\* the direct dependencies, and neither the name of the package itself nor the
\* project or the generation, so that two names of one source share an object.
BuildKey(lock, n) ==
    LET key[m \in DOMAIN lock.packages] ==
            [source |-> SourceKey(lock, m), toolchain |-> lock.toolchain,
             dependencies |-> [d \in lock.packages[m].dependencies |-> key[d]]]
    IN  key[n]

-----------------------------------------------------------------------------
(* References of a generation to compiled packages.                        *)

\* What publish_generation_references_v1 accepts and parse_summary expects.
ReferencesAreConsistent(r) ==
    /\ r.sources >= Cardinality(DOMAIN r.packages)
    /\ r.reuses + r.publications = Cardinality(DOMAIN r.packages)
    /\ r.hits <= r.reuses

\* parse_summary: what a reader of consistent references sees of them.
Summary(r) ==
    [sources |-> r.sources, keys |-> {r.packages[n].source : n \in DOMAIN r.packages}]

\* same_reference_identity: how the artifacts came about does not matter.
SameReferences(r, s) ==
    /\ r.generation = s.generation /\ r.sources = s.sources
    /\ r.packages = s.packages

-----------------------------------------------------------------------------
(* The state of a registered project.                                      *)

ManagementInput(project, declaration) ==
    [declaration |-> declaration, config |-> project.config,
     toolchain |-> project.toolchain, manifest |-> project.manifest]

\* generation_identity: all of the metadata but the versions.
GenerationIdentity(m) ==
    [transaction |-> m.transaction, project |-> m.project, root |-> m.root,
     lock |-> m.lock, packages |-> m.packages]

\* verify_published_transaction: the record of the transaction, to the byte.
TransactionIsPublished(e) ==
    e.transaction = [transaction |-> e.record.active, project |-> e.record.project,
                     generation |-> e.active.generation, state |-> "published"]

ActiveAgrees(e) ==
    /\ e.active # Nothing
    /\ e.active.transaction = e.record.active
    /\ e.active.root = <<e.record.project, e.record.active>>
    /\ TransactionIsPublished(e)

MetadataAgrees(e) ==
    LET m == e.metadata
    IN  /\ m # Nothing
        /\ m.transaction = e.record.active /\ m.project = e.record.project
        /\ m.root = e.active.root
        /\ GenerationIdentity(m) = e.active.generation

\* verify_project_inputs
InputsAgree(e) ==
    /\ e.project.config # Nothing
    /\ e.project.config = e.lock.config
    /\ e.project.toolchain = e.lock.toolchain /\ e.metadata.toolchain = e.lock.toolchain
    /\ ManagementInput(e.project, e.lock.declaration) = e.record.input

\* verify_package_source_ignoring_lake_cache: every path of a package outside
\* of .lake is that of the generation, and none is missing.
SourceAgrees(e, n) == e.trees[n] = e.metadata.packages[n]

\* verify_generation_files
FilesAgree(e) == \A n \in DOMAIN e.metadata.packages : SourceAgrees(e, n)

\* verify_active_generation: the active record, the metadata and the packages.
VerifyActive(e) == ActiveAgrees(e) /\ MetadataAgrees(e) /\ FilesAgree(e)

VerifyRegisteredGeneration(e) ==
    CASE ~(ActiveAgrees(e) /\ MetadataAgrees(e)) -> "Drifted"
      [] e.lock.schema # "v1" -> "Unsupported"
      [] OTHER ->
            IF /\ e.metadata.lock = e.lock
               /\ DOMAIN e.lock.packages = DOMAIN e.metadata.packages
               /\ InputsAgree(e) /\ FilesAgree(e)
            THEN "Healthy" ELSE "Drifted"

\* The references, if there are any, are to packages of the lock.
ReferencesAgree(e) ==
    LET r == e.references
        s == Summary(r)
        exact == {SourceKey(e.lock, n) : n \in GitPackages(e.lock)}
    IN  \/ r = Nothing \/ r.generation # e.active.generation
        \/ /\ ReferencesAreConsistent(r)
           /\ s.sources = Cardinality(GitPackages(e.lock))
           /\ s.keys \subseteq exact

\* inspect_registry_entry
State(e) ==
    CASE e.record = Nothing \/ e.record.project # e.name -> "InvalidRecord"
      [] e.project.there = "missing" -> "Missing"
      [] e.project.there = "moved" -> "Drifted"
      [] e.record.pending -> "PendingRecovery"
      [] OTHER ->
            CASE VerifyRegisteredGeneration(e) # "Healthy" -> VerifyRegisteredGeneration(e)
              [] ~ReferencesAgree(e) -> "InvalidRecord"
              [] e.lock.toolchain # Supported -> "Unsupported"
              [] OTHER -> "Healthy"

\* selection_from_observations, for two readings of an entry
Selection(e) ==
    [project |-> e.record.project, target |-> e.record.target,
     generation |-> e.active.generation, packages |-> DOMAIN e.lock.packages]

\* Two healthy readings that are the same, as prepare_managed_execution_v1 asks.
Select(first, second) ==
    IF State(first) = "Healthy" /\ State(second) = "Healthy"
       /\ Selection(first) = Selection(second)
       /\ first.record = second.record /\ first.references = second.references
    THEN Selection(first) ELSE Nothing
=============================================================================
