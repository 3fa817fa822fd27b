-------------------------- MODULE GenerationInputs --------------------------
(***************************************************************************)
(* What a generation is made of and what is read of it again: the path     *)
(* decisions (leanbun-lock/src/lock_v1.rs), the projections for Lake       *)
(* (leanbun-lake-bridge/src/model.rs), the generation and its metadata     *)
(* (leanbun-generation/src/model.rs), and their reader                     *)
(* (leanbun-managed/src/registry.rs).  A digest is what was hashed.        *)
(***************************************************************************)
EXTENDS ReservoirBinding

-----------------------------------------------------------------------------
(* Path decisions: one final path for every locked package.                *)

\* generation_package_path, and package_path of the generation.
PackagePath(transaction, k) == <<transaction, "packages", k>>

\* PackagePathProvenanceSetV1::new: one entry for a package in each layer, and a
\* runtime entry only from this program.
ProvenanceIsValid(entries) ==
    /\ \A e, f \in entries : e.key = f.key /\ e.layer = f.layer => e = f
    /\ \A e \in entries : e.layer = "runtime" => e.generated

\* PackagePathDecisionV1::new: one layer vouches for the selected source.
IsVouchedFor(entries, k, source) ==
    Cardinality({e \in entries : e.key = k /\ e.source = source}) = 1

Provenance(p) ==
    {[key |-> p.key, layer |-> "runtime", source |-> p.exact, generated |-> TRUE]}

\* The decision of generation() for an object: its package is looked up in the
\* lock, which says what was selected.
DecisionOf(packages, object, transaction, graph) ==
    LET p == Of(packages, object.key)
    IN  [key |-> object.key, source |-> p.exact, path |-> PackagePath(transaction, object.key),
         object |-> object.object, graph |-> graph,
         vouched |-> ProvenanceIsValid(Provenance(p))
                     /\ IsVouchedFor(Provenance(p), object.key, p.exact)]

\* PackagePathDecisionSetV1::new
DecisionSetMatches(packages, decisions) ==
    /\ \A d \in decisions : d.vouched
    /\ OnePerKey(decisions)
    /\ Keys(decisions) = Keys(packages)
    /\ \A p \in packages : p.exact = Of(decisions, p.key).source

-----------------------------------------------------------------------------
(* The projections: a manifest of exact sources and a packages file of     *)
(* final paths.                                                            *)

ProjectionMetadata(c) == [key |-> c.key, input |-> Locked(c).req.rev]

\* validate_metadata
MetadataMatches(packages, metadata) ==
    OnePerKey(metadata) /\ Keys(metadata) = Keys(packages)

ManifestEntries(packages, metadata) ==
    LET sorted == InKeyOrderOf(packages)
    IN  [i \in DOMAIN sorted |->
            [key |-> sorted[i].key, source |-> sorted[i].exact,
             input |-> Of(metadata, sorted[i].key).input]]

\* A mistake to be caught: the n-th decision made is taken for the n-th package.
RuntimeEntriesByPosition(packages, decisions) ==
    LET sorted == InKeyOrderOf(packages)
        made == SetToSortSeq(decisions, LAMBDA d, e : d.key > e.key)
    IN  [i \in DOMAIN sorted |-> [key |-> sorted[i].key, path |-> made[i].path]]

RuntimeEntries(packages, decisions) ==
    LET sorted == InKeyOrderOf(packages)
    IN  [i \in DOMAIN sorted |->
            [key |-> sorted[i].key, path |-> Of(decisions, sorted[i].key).path]]

\* LakeWorkspacePathObservationV1::compare: Lake reports every decided package
\* once, where it was decided to be.
WorkspaceMatches(decisions, reports) ==
    /\ OnePerKey(reports)
    /\ Keys(reports) = Keys(decisions)
    /\ \A d \in decisions : d.path = Of(reports, d.key).path

-----------------------------------------------------------------------------
(* The generation.                                                         *)

\* validate_reservoir_bindings: a document exactly if there are Reservoir
\* packages, made for this lock, with what was selected for each of them.
BindingsMatch(lock, graph, document) ==
    LET reservoir == {c \in graph : c.req.kind = "reservoir"}
    IN  IF reservoir = {} THEN document = NoDocument
        ELSE /\ document # NoDocument
             /\ document.lock = LockText(lock)
             /\ Cardinality(document.bindings) = Cardinality(reservoir)
             /\ \A c \in reservoir : \E b \in document.bindings :
                    /\ b.package = c.key /\ b.version = c.req.rev
                    /\ b.url = c.exact.at /\ b.commit = c.exact.id

\* LeanBunGenerationV1::new_with_reservoir_bindings: lock, graph, decisions and
\* objects describe one closure with the same facts for each package.
GenerationMatches(lock, graph, identity, decisions, objects, document) ==
    /\ OnePerKey(objects)
    /\ Keys(lock.packages) = Keys(graph) /\ Keys(lock.packages) = Keys(objects)
    /\ BindingsMatch(lock, graph, document)
    /\ \A p \in lock.packages :
        LET c == Of(graph, p.key)
            d == Of(decisions, p.key)
            o == Of(objects, p.key)
        IN  /\ c.exact = p.exact /\ DependencyKeys(c) = p.deps
            /\ o.candidate = c /\ o.exact = p.exact
            /\ d.object = o.object /\ d.graph = identity

\* The digests generation_identity is made of, and the packages.
GenerationOf(transaction, lock, graph, decisions, metadata, objects, document) ==
    [transaction |-> transaction, lock |-> LockText(lock), graph |-> graph,
     decisions |-> decisions, manifest |-> ManifestEntries(lock.packages, metadata),
     runtime |-> RuntimeEntries(lock.packages, decisions), document |-> document,
     packages |-> LET sorted == InKeyOrderOf(lock.packages)
                  IN  [i \in DOMAIN sorted |->
                        <<sorted[i].key, Of(decisions, sorted[i].key).path,
                          Of(objects, sorted[i].key).object, sorted[i].exact>>]]

\* A mistake to be caught: the companion is not written down.
MetadataTextWithoutCompanion(g) ==
    << <<"leanbun-generation-v1", 1>>, <<"transaction", g.transaction>>,
       <<"lock-sha256", g.lock>>, <<"graph-sha256", g.graph>>,
       <<"decision-set-sha256", g.decisions>>,
       <<"manifest-projection-sha256", g.manifest>>,
       <<"runtime-projection-sha256", g.runtime>>,
       <<"package-count", Len(g.packages)>> >>
    \o [i \in DOMAIN g.packages |-> <<"package">> \o g.packages[i]]
    \o << <<"generation-sha256", g>>, <<"end-generation">> >>

\* canonical_metadata: the second schema has a line more.
MetadataText(g) ==
    << <<IF g.document = NoDocument THEN "leanbun-generation-v1"
         ELSE "leanbun-generation-v2", 1>>, <<"transaction", g.transaction>>,
       <<"lock-sha256", g.lock>>, <<"graph-sha256", g.graph>>,
       <<"decision-set-sha256", g.decisions>>,
       <<"manifest-projection-sha256", g.manifest>>,
       <<"runtime-projection-sha256", g.runtime>> >>
    \o (IF g.document = NoDocument THEN <<>>
        ELSE << <<"reservoir-bindings-sha256", g.document>> >>)
    \o << <<"package-count", Len(g.packages)>> >>
    \o [i \in DOMAIN g.packages |-> <<"package">> \o g.packages[i]]
    \o << <<"generation-sha256", g>>, <<"end-generation">> >>

\* parse_generation_metadata, with the identity computed again and compared.
ReadMetadata(text) ==
    LET two == Expect(text, 1, "leanbun-generation-v2", 1)
        i == IF two THEN 9 ELSE 8
        count == text[i][2]
        g == [transaction |-> text[2][2], lock |-> text[3][2], graph |-> text[4][2],
              decisions |-> text[5][2], manifest |-> text[6][2], runtime |-> text[7][2],
              document |-> IF two THEN text[8][2] ELSE NoDocument,
              packages |-> [n \in 1..count |-> Tail(text[i + n])]]
    IN  IF /\ two \/ Expect(text, 1, "leanbun-generation-v1", 1)
           /\ Expect(text, 2, "transaction", 1) /\ Expect(text, 3, "lock-sha256", 1)
           /\ Expect(text, 4, "graph-sha256", 1) /\ Expect(text, 5, "decision-set-sha256", 1)
           /\ Expect(text, 6, "manifest-projection-sha256", 1)
           /\ Expect(text, 7, "runtime-projection-sha256", 1)
           /\ two => Expect(text, 8, "reservoir-bindings-sha256", 1)
           /\ Expect(text, i, "package-count", 1)
           /\ \A n \in 1..count : Expect(text, i + n, "package", 4)
           /\ Expect(text, i + count + 1, "generation-sha256", 1)
           /\ Expect(text, i + count + 2, "end-generation", 0)
           /\ Len(text) = i + count + 2
           /\ MetadataText(g) = text
           /\ text[i + count + 1][2] = g
        THEN g ELSE Unreadable

\* What verify_registered_generation and verify_generation_files compare of the
\* files of a generation.
FilesAgree(g, lockText, manifest, runtime) ==
    LET lock == ReadLock(lockText)
    IN  /\ g # Unreadable /\ lock # Unreadable
        /\ lockText = g.lock
        /\ Cardinality(lock.packages) = Len(g.packages)
        /\ manifest = g.manifest /\ runtime = g.runtime
        /\ \A i \in DOMAIN g.packages : g.packages[i][2] = PackagePath(g.transaction, g.packages[i][1])
=============================================================================
