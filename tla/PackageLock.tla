---------------------------- MODULE PackageLock ----------------------------
(***************************************************************************)
(* Packages, candidates and locks                                          *)
(* (src/rust/crates/leanbun-lock/src/lock_v1.rs,                           *)
(* leanbun-resolver/src/model.rs, leanbun-lake-bridge/src/model.rs and     *)
(* leanbun-generation/src/model.rs).                                       *)
(*                                                                         *)
(* A package key stands for scope and name; keys are numbers because the   *)
(* code visits packages in key order.  A requested source has a kind, a    *)
(* place (URL and subdirectory, or path token) and a revision or version;  *)
(* an exact source has a kind, a place and an id, which stands for the     *)
(* exact revision and every digest of the content.                         *)
(***************************************************************************)
EXTENDS Integers, FiniteSets, SequencesExt

CONSTANTS
    Key,          \* package keys
    Candidate,    \* metadata that may be supplied for packages
    MaxDepth,     \* MAX_GRAPH_DEPTH_V1
    NoRevision    \* a Git request that names no revision

ASSUME LockAssumption ==
    /\ Key \subseteq Nat
    /\ IsFiniteSet(Key)
    /\ MaxDepth \in Nat \ {0}

Keys(S) == {x.key : x \in S}
Of(S, k) == CHOOSE x \in S : x.key = k
OnePerKey(S) == \A x, y \in S : x.key = y.key => x = y

\* Keys in order, and what has keys in the order of its keys.
InKeyOrder(S) ==
    CHOOSE s \in [1..Cardinality(S) -> S] : \A i, j \in DOMAIN s : i < j => s[i] < s[j]
InKeyOrderOf(S) ==
    LET keys == InKeyOrder(Keys(S)) IN [i \in DOMAIN keys |-> Of(S, keys[i])]

\* What a dependency declaration asks for: <<key, requested source>>.
Requirement(k, source) == [key |-> k, source |-> source]

DependencyKeys(c) == {d.key : d \in Range(c.deps)}

\* A path request is satisfied by a path source, all others by a Git source,
\* in the same place if they name one.
SourcePair(requested, exact) ==
    /\ (requested.kind = "path") = (exact.kind = "path")
    /\ requested.kind # "reservoir" => requested.at = exact.at

\* LeanPackageCandidateV1::new; nothing keeps a candidate from naming a key twice
\* or itself.
CandidateIsValid(c) == SourcePair(c.req, c.exact)

ASSUME CandidateAssumption == \A c \in Candidate : CandidateIsValid(c)

-----------------------------------------------------------------------------
(* The lock: a set of packages with pinned content and dependency keys.    *)

\* A Reservoir candidate is locked as the Git source it was bound to.
Locked(c) ==
    [key |-> c.key,
     req |-> IF c.req.kind = "reservoir"
             THEN [kind |-> "git", at |-> c.exact.at, rev |-> c.req.rev] ELSE c.req,
     exact |-> c.exact,
     deps |-> DependencyKeys(c)]

\* A path of n packages along dependency edges.
HasPath(packages, n) ==
    \E path \in [1..n -> packages] :
        \A i \in 1..(n - 1) : path[i + 1].key \in path[i].deps

\* LockedLeanPackageV1::new: the source that was asked for is the one that was
\* resolved, and no package depends on itself.
PackageIsValid(p) ==
    p.req.kind = p.exact.kind /\ p.req.at = p.exact.at /\ p.key \notin p.deps

\* LeanBunLockV1::new: unique keys, closed edges, no cycle and no path of more
\* than MaxDepth packages.
LockError(packages) ==
    CASE \E p \in packages : ~PackageIsValid(p) -> "InvalidPackage"
      [] \E p, q \in packages : p # q /\ p.key = q.key -> "DuplicatePackage"
      [] \E p \in packages : ~(p.deps \subseteq {q.key : q \in packages}) -> "MissingPackage"
      [] HasPath(packages, Cardinality(packages) + 1) -> "DependencyCycle"
      [] HasPath(packages, MaxDepth + 1) -> "GraphTooDeep"
      [] OTHER -> "none"

-----------------------------------------------------------------------------
(* How requests, candidates and locked packages are compared.              *)

RequestMatches(source, c) == source = c.req /\ SourcePair(source, c.exact)

\* A Reservoir candidate is not asked for the version it was locked with.
CandidateMatchesLock(c, p) ==
    /\ c.key = p.key
    /\ c.exact = p.exact
    /\ DependencyKeys(c) = p.deps
    /\ \/ c.req = p.req
       \/ c.req.kind = "reservoir" /\ p.req.kind = "git"

\* The root's dependencies against the lock, before the manifest projection is
\* written: a revision, if the root declares one, has to be the exact one.
RootMatchesLock(root, packages) ==
    \A d \in Range(root) : \E p \in packages :
        /\ p.key = d.key
        /\ \/ d.source.kind = "reservoir"
           \/ /\ {d.source.kind} = {p.req.kind, p.exact.kind}
              /\ {d.source.at} = {p.req.at, p.exact.at}
              /\ d.source.kind = "git" => d.source.rev \in {NoRevision, p.exact.id}

=============================================================================
