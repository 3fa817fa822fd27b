-------------------------- MODULE ReservoirBinding --------------------------
(***************************************************************************)
(* Reservoir versions (leanbun-lock/src/reservoir_binding_v1.rs and        *)
(* leanbun-resolver/src/reservoir_policy_v1.rs).  A registry maps a        *)
(* version to a commit and may change its mind; a binding holds what it    *)
(* said, a document accompanies a lock with the bindings of its packages,  *)
(* and a commit that moves needs an authorization of exactly that move.    *)
(***************************************************************************)
EXTENDS LockText

CONSTANTS
    NoBinding,        \* the package has no active binding
    NoDocument,       \* the lock has no companion
    NoAuthorization   \* none is presented

\* What the registry says of a version; the metadata has the dependencies and
\* the toolchain.
Binding(c) ==
    [package |-> c.key, version |-> c.req.rev, metadata |-> <<c.deps, c.tool>>,
     url |-> c.exact.at, commit |-> c.exact.id]

ASSUME BindingAssumption == \A c \in Candidate : NoBinding # Binding(c)

\* require_same_scope, for the one registry there is.
SameScope(a, b) == a.package = b.package /\ a.version = b.version

\* ReservoirRebindAuthorizationV1::new, for bindings of one scope whose commits
\* differ.
Authorization(active, proposed) ==
    [package |-> active.package, version |-> active.version,
     old |-> active.commit, new |-> proposed.commit, metadata |-> proposed.metadata,
     active |-> active, proposed |-> proposed]

\* A mistake to be caught: what is authorized is the commit, whatever it replaces.
MatchesTheNewCommit(authorization, active, proposed) ==
    /\ authorization.package = proposed.package
    /\ authorization.new = proposed.commit

AuthorizationMatches(authorization, active, proposed) ==
    /\ SameScope(authorization, active) /\ SameScope(authorization, proposed)
    /\ authorization.old = active.commit /\ authorization.new = proposed.commit
    /\ authorization.metadata = proposed.metadata
    /\ authorization.active = active /\ authorization.proposed = proposed

\* evaluate_reservoir_binding_v1
Evaluate(active, observations, authorization) ==
    LET presented == authorization # NoAuthorization
        proposed == CHOOSE o \in observations : TRUE
    IN  CASE active = NoBinding /\ presented -> "InvalidAuthorization"
          [] active = NoBinding /\ ~presented ->
                CASE observations = {} -> "DisappearedBinding"
                  [] Cardinality(observations) = 1 -> "FirstResolutionPending"
                  [] OTHER -> "AmbiguousCandidates"
          [] active # NoBinding /\ \E o \in observations : ~SameScope(active, o) ->
                "InvalidScope"
          [] OTHER ->
                IF Cardinality(observations) # 1
                THEN IF presented THEN "InvalidAuthorization"
                     ELSE IF observations = {} THEN "DisappearedBinding"
                     ELSE "AmbiguousCandidates"
                ELSE IF proposed = active
                THEN IF presented THEN "InvalidAuthorization" ELSE "StableBinding"
                ELSE IF presented
                THEN IF AuthorizationMatches(authorization, active, proposed)
                     THEN "ExplicitRebindAccepted" ELSE "InvalidAuthorization"
                ELSE IF proposed.commit # active.commit THEN "VersionRebound"
                ELSE IF proposed.url # active.url THEN "ContentMismatch"
                ELSE "MetadataDrift"

-----------------------------------------------------------------------------
(* The companion of a lock.                                                *)

\* ReservoirBindingDocumentV1::new: every binding is of a package that is locked
\* with the commit it names.
DocumentIsValid(packages, bindings) ==
    /\ bindings # {}
    /\ \A a, b \in bindings : a.package = b.package => a = b
    /\ \A b \in bindings : \E p \in packages :
        /\ p.key = b.package /\ p.exact.kind = "git"
        /\ p.exact.at = b.url /\ p.exact.id = b.commit

\* The identity of a lock is the digest of its text.
Document(lock, bindings) == [lock |-> LockText(lock), bindings |-> bindings]

BindingLines(b) ==
    << <<"binding", b.package>>, <<"requested-version", b.version>>,
       <<"metadata-sha256", b.metadata>>, <<"resolved-url", b.url>>,
       <<"exact-commit", b.commit>>, <<"binding-identity", b>>, <<"end-binding">> >>

DocumentText(document) ==
    LET keys == InKeyOrder({b.package : b \in document.bindings})
        bindings == [i \in DOMAIN keys |->
                        CHOOSE b \in document.bindings : b.package = keys[i]]
    IN  << <<"leanbun-reservoir-bindings-v1", 1>>, <<"lock-v1-identity", document.lock>>,
           <<"binding-count", Len(bindings)>> >>
        \o FlattenSeq([i \in DOMAIN bindings |-> BindingLines(bindings[i])])
        \o << <<"document-identity", document>>, <<"end-reservoir-bindings">> >>

ReadBinding(text, i) ==
    LET b == [package |-> text[i][2], version |-> text[i + 1][2],
              metadata |-> text[i + 2][2], url |-> CanonicalUrl(text[i + 3][2]),
              commit |-> text[i + 4][2]]
    IN  IF /\ Expect(text, i, "binding", 1) /\ Expect(text, i + 1, "requested-version", 1)
           /\ Expect(text, i + 2, "metadata-sha256", 1) /\ Expect(text, i + 3, "resolved-url", 1)
           /\ Expect(text, i + 4, "exact-commit", 1) /\ Expect(text, i + 5, "binding-identity", 1)
           /\ Expect(text, i + 6, "end-binding", 0)
           /\ text[i + 5][2] = b
        THEN b ELSE Unreadable

\* from_canonical_text: with the lock it was written for, and no other.
ReadDocument(text, lock) ==
    LET count == text[3][2]
        read == {ReadBinding(text, 4 + 7 * n) : n \in 0..(count - 1)}
        last == 4 + 7 * count
    IN  IF /\ Expect(text, 1, "leanbun-reservoir-bindings-v1", 1) /\ text[1][2] = 1
           /\ Expect(text, 2, "lock-v1-identity", 1) /\ text[2][2] = LockText(lock)
           /\ Expect(text, 3, "binding-count", 1)
           /\ count > 0 /\ Unreadable \notin read /\ Cardinality(read) = count
           /\ Expect(text, last, "document-identity", 1)
           /\ Expect(text, last + 1, "end-reservoir-bindings", 0)
           /\ Len(text) = last + 1
           /\ DocumentIsValid(lock.packages, read)
           /\ text[last][2] = Document(lock, read)
           /\ DocumentText(Document(lock, read)) = text
        THEN Document(lock, read) ELSE Unreadable
=============================================================================
