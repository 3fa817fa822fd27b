----------------------------- MODULE Resolution -----------------------------
(***************************************************************************)
(* The deterministic resolver                                              *)
(* (src/rust/crates/leanbun-resolver/src/model.rs) and what is made of its *)
(* graph: the lock, the fetched objects, the path decisions and the        *)
(* generation (leanbun-lock, leanbun-lake-bridge, leanbun-generation and   *)
(* the model of leanbun-managed).                                          *)
(*                                                                         *)
(* A request names a root declaration, a mode and an active lock.  The     *)
(* metadata at hand may be different every time.  Requirements are taken   *)
(* one by one, the last declared first: those of the root, then those of   *)
(* the selected packages, breadth first.  There is no backtracking.        *)
(*                                                                         *)
(* A graph with Reservoir packages needs a companion document.  That the   *)
(* policy is asked before a candidate becomes active, and not for a frozen *)
(* replay, is what the only caller of the policy does                      *)
(* (leanbun-managed/src/reservoir_regression.rs).                          *)
(***************************************************************************)
EXTENDS GenerationInputs

CONSTANTS
    Roots,        \* root declarations: sequences of requirements in key order
    Registries,   \* the sets of candidates that may be at hand
    GivenLocks,   \* locks from elsewhere: valid, but perhaps not the root's closure
    UpdateSets,   \* the update targets an operator may name
    Toolchain,    \* the toolchain of every request
    NoTool,       \* a candidate that proposes no toolchain
    NoLock        \* there is no active lock

VARIABLES
    lock,      \* the active lock: its root and packages
    basis,     \* the root and the candidates that lock was made from
    request,   \* root, candidates, frozen or update targets, locked or not
    phase,     \* idle, select, done, fetched
    batch,     \* the requirements left of the root or of the current parent
    queue,     \* selected packages whose dependencies are to be taken
    selected,  \* for a selected key its candidate and the winning origin
    order,     \* resolution order
    shadows,   \* origins of requirements met by an earlier selection
    outcome,   \* running, resolved or an error
    objects,   \* for a resolved package the store object its fetch returned
    document,  \* the companion of the active lock
    consent    \* the authorization its last assembly was given

companion == <<document, consent>>

vars == <<lock, basis, request, phase, batch, queue, selected, order, shadows,
          outcome, objects, companion>>

RootOrigin == 0   \* parent of a root requirement; no package has this key

\* LakeRootDeclarationV1::new sorts the requirements and refuses two of one key.
IsRootDeclaration(requirements) ==
    \A i, j \in DOMAIN requirements : i < j => requirements[i].key < requirements[j].key

\* A list of packages with what is asked of each.
IsDeclaration(requirements) ==
    requirements \in
        Seq([key : Key, source : {requirements[i].source : i \in DOMAIN requirements}])

ASSUME RootAssumption ==
    /\ RootOrigin \notin Key
    /\ \A l \in GivenLocks :
        /\ l = [root |-> l.root, packages |-> l.packages]
        /\ l.root \in Roots
        /\ LockError(l.packages) = "none"
        /\ \A p \in l.packages : IsPackage(p) /\ p.key \in Key
    /\ \A r \in Roots : IsDeclaration(r) /\ IsRootDeclaration(r)

ASSUME RegistryAssumption ==
    /\ \A c \in Candidate : IsDeclaration(c.deps)
    /\ \A registry \in Registries : registry \subseteq Candidate /\ IsFiniteSet(registry)

ASSUME NoLockAssumption ==
    \A root \in Roots, registry \in Registries : NoLock # [root |-> root, registry |-> registry]

SelectedKeys == DOMAIN selected
Graph == {selected[k].candidate : k \in SelectedKeys}
LockedPackages == IF lock = NoLock THEN {} ELSE lock.packages
ActivePackages == IF request.locked THEN lock.packages ELSE {}
NoRequest == [root |-> <<>>, registry |-> {}, frozen |-> FALSE, targets |-> {},
              locked |-> FALSE]

\* The URL of a root requirement is taken as canonical sources are.
RootRequirements(root) ==
    [i \in DOMAIN root |->
        IF root[i].source.kind = "git"
        THEN [root[i] EXCEPT !.source.at = CanonicalUrl(@)] ELSE root[i]]

\* Requirements with where they were declared, last declared first.
Declared(parent, requirements) ==
    Reverse([i \in DOMAIN requirements |->
                [key |-> requirements[i].key, source |-> requirements[i].source,
                 origin |-> <<parent, i>>]])

-----------------------------------------------------------------------------
(* A request.                                                              *)

\* LeanResolutionRequestV1::new refuses a frozen request without a lock and a
\* lock of another root declaration.
Request(root, registry, frozen, targets, locked) ==
    /\ phase = "idle"
    /\ locked => lock # NoLock
    /\ frozen => targets = {}
    /\ IF frozen /\ ~locked THEN outcome' = "ActiveLockRequired" /\ phase' = "done"
       ELSE IF locked /\ lock.root # root
            THEN outcome' = "ActiveLockMismatch" /\ phase' = "done"
       ELSE outcome' = "running" /\ phase' = "select"
    /\ request' = [root |-> root, registry |-> registry, frozen |-> frozen,
                   targets |-> targets, locked |-> locked]
    /\ batch' = Declared(RootOrigin, RootRequirements(root))
    /\ consent' = NoAuthorization
    /\ UNCHANGED <<lock, basis, queue, selected, order, shadows, objects, document>>

-----------------------------------------------------------------------------
(* select_requirement.                                                     *)

Available(k) == {c \in request.registry : c.key = k}

\* A mistake to be caught: only an update keeps pins.
PinnedByUpdates(c) ==
    \A p \in ActivePackages :
        p.key = c.key /\ c.key \notin request.targets =>
            request.frozen \/ CandidateMatchesLock(c, p)

\* A locked package keeps its pin unless it is an update target.
Pinned(c) ==
    \A p \in ActivePackages :
        p.key = c.key /\ c.key \notin request.targets => CandidateMatchesLock(c, p)

Matching(r) == {c \in Available(r.key) : RequestMatches(r.source, c) /\ Pinned(c)}

\* A mistake to be caught: one of several exact candidates is taken.
SelectionErrorAmbiguous(r) ==
    IF Available(r.key) = {} THEN "MissingTransitiveDeclaration"
    ELSE IF Matching(r) = {} THEN "SourceKindConflict"
    ELSE "none"

SelectionError(r) ==
    CASE Available(r.key) = {} -> "MissingTransitiveDeclaration"
      [] Available(r.key) # {} /\ Matching(r) = {} ->
            IF \E c \in Available(r.key) : c.req.kind = r.source.kind
            THEN "SourceValueConflict" ELSE "SourceKindConflict"
      [] Cardinality(Matching(r)) > 1 -> "AmbiguousCandidate"
      [] \E c \in Matching(r) : c.tool \notin {NoTool, Toolchain} /\ Matching(r) = {c} ->
            "ToolchainCandidateConflict"
      [] OTHER -> "none"

Stop(error) ==
    /\ outcome' = error
    /\ phase' = "done"
    /\ UNCHANGED <<lock, basis, request, batch, queue, selected, order, shadows, objects,
                   companion>>

Selecting == phase = "select" /\ batch # <<>>

\* A mistake to be caught: a package that is there already is not compared.
ShadowAnything ==
    /\ Selecting
    /\ LET r == Head(batch)
       IN  /\ r.key \in SelectedKeys
           /\ batch' = Tail(batch)
           /\ shadows' = shadows \cup {r.origin}
           /\ UNCHANGED <<lock, basis, request, phase, queue, selected, order,
                          outcome, objects, companion>>

\* A key that is selected already must have come from the same source.
Shadow ==
    /\ Selecting
    /\ LET r == Head(batch)
       IN  /\ r.key \in SelectedKeys
           /\ IF ~RequestMatches(r.source, selected[r.key].candidate)
              THEN Stop("SourceValueConflict")
              ELSE /\ batch' = Tail(batch)
                   /\ shadows' = shadows \cup {r.origin}
                   /\ UNCHANGED <<lock, basis, request, phase, queue, selected, order,
                                  outcome, objects, companion>>

Select ==
    /\ Selecting
    /\ LET r == Head(batch)
       IN  /\ r.key \notin SelectedKeys
           /\ IF SelectionError(r) # "none" THEN Stop(SelectionError(r))
              ELSE \E c \in Matching(r) :
                   /\ selected' = [k \in SelectedKeys \cup {r.key} |->
                                     IF k = r.key THEN [candidate |-> c, winner |-> r.origin]
                                     ELSE selected[k]]
                   /\ batch' = Tail(batch)
                   /\ queue' = Append(queue, r.key)
                   /\ order' = Append(order, r.key)
                   /\ UNCHANGED <<lock, basis, request, phase, shadows, outcome, objects, companion>>

NextParent ==
    /\ phase = "select"
    /\ batch = <<>>
    /\ queue # <<>>
    /\ batch' = Declared(Head(queue), selected[Head(queue)].candidate.deps)
    /\ queue' = Tail(queue)
    /\ UNCHANGED <<lock, basis, request, phase, selected, order, shadows, outcome, objects,
                   companion>>

-----------------------------------------------------------------------------
(* validate_cycles_and_depth: depth first over the packages in key order;  *)
(* a package that is done is not entered again, so that the depth at which *)
(* it was met first is the only one that counts.                           *)

WalkErrors == {"none", "GraphTooDeep", "DependencyCycle", "MissingTransitiveDeclaration"}
Marks == [open : SUBSET Key, done : SUBSET Key, error : WalkErrors]
Unmarked == [open |-> {}, done |-> {}, error |-> "none"]

\* Packages are entered one after the other, until there is an error.
InTurn(enter, keys, marks) ==
    LET after[i \in 0..Len(keys)] ==
            IF i = 0 THEN marks
            ELSE IF after[i - 1].error # "none" THEN after[i - 1]
            ELSE enter[keys[i]][after[i - 1]]
    IN  after[Len(keys)]

\* visit of one package, with visit of the packages below it.
Visit(deps, enter, k, marks) ==
    IF k \in marks.open THEN [marks EXCEPT !.error = "DependencyCycle"]
    ELSE IF k \in marks.done THEN marks
    ELSE IF k \notin DOMAIN deps THEN [marks EXCEPT !.error = "MissingTransitiveDeclaration"]
    ELSE LET below == InTurn(enter, InKeyOrder(deps[k]), [marks EXCEPT !.open = @ \cup {k}])
         IN  IF below.error # "none" THEN below
             ELSE [below EXCEPT !.open = @ \ {k}, !.done = @ \cup {k}]

\* visit where so many levels are left before the limit.
Visits(deps) ==
    LET visit[left \in 0..MaxDepth] ==
            [k \in Key |-> [marks \in Marks |->
                IF left = 0 THEN [marks EXCEPT !.error = "GraphTooDeep"]
                ELSE Visit(deps, visit[left - 1], k, marks)]]
    IN  visit

Walk(deps) == InTurn(Visits(deps)[MaxDepth], InKeyOrder(DOMAIN deps), Unmarked)

SelectedDeps == [k \in SelectedKeys |-> DependencyKeys(selected[k].candidate)]

\* A mistake to be caught: cycles are not looked for.
CyclesNotLookedFor == "none"

CycleOrDepthError == Walk(SelectedDeps).error

-----------------------------------------------------------------------------
(* validate_mode_result.                                                   *)

\* What is reachable from the targets along dependency edges.
ImpactClosure(deps, targets) ==
    {k \in DOMAIN deps : \A S \in SUBSET DOMAIN deps :
        (/\ targets \cap DOMAIN deps \subseteq S
         /\ \A i \in S : deps[i] \cap DOMAIN deps \subseteq S) => k \in S}

ActiveDeps ==
    [k \in {p.key : p \in ActivePackages} |->
        (CHOOSE p \in ActivePackages : p.key = k).deps]

Impact ==
    IF ~request.locked \/ request.frozen THEN {}
    ELSE ImpactClosure(ActiveDeps, request.targets)
         \cup ImpactClosure(SelectedDeps, request.targets)

MatchesItsPin(k) ==
    \A p \in ActivePackages :
        p.key = k => CandidateMatchesLock(selected[k].candidate, p)

\* A mistake to be caught: the result is not compared with the active lock.
ModeUnchecked == "none"

ModeError ==
    LET active == DOMAIN ActiveDeps
    IN  CASE ~request.locked ->
                IF request.targets \subseteq SelectedKeys THEN "none"
                ELSE "UnknownUpdateTarget"
          [] request.locked /\ request.frozen ->
                IF active = SelectedKeys /\ \A k \in active : MatchesItsPin(k)
                THEN "none" ELSE "FrozenGraphDrift"
          [] request.locked /\ ~request.frozen ->
                IF ~(request.targets \subseteq active \cup SelectedKeys)
                THEN "UnknownUpdateTarget"
                ELSE IF \E k \in (active \cup SelectedKeys) \ Impact :
                            \/ k \notin SelectedKeys
                            \/ k \in active /\ ~MatchesItsPin(k)
                THEN "UpdateEscapesImpactClosure" ELSE "none"

\* The graph is checked as a whole.
Finish ==
    /\ phase = "select"
    /\ batch = <<>>
    /\ queue = <<>>
    /\ \/ CycleOrDepthError # "none" /\ Stop(CycleOrDepthError)
       \/ CycleOrDepthError = "none" /\ Stop(IF ModeError # "none" THEN ModeError ELSE "resolved")

-----------------------------------------------------------------------------
(* What is made of the graph.                                              *)

\* A path package has an object of its own; Git packages are fetched by source,
\* and all packages with one source get the object of the one whose task ran.
SharesTask(c, d) ==
    \/ c = d
    \/ c.exact.kind = "git" /\ c.exact = d.exact

Object(c) == [key |-> c.key, candidate |-> c, exact |-> c.exact, object |-> c.exact]

Fetch ==
    /\ phase = "done"
    /\ outcome = "resolved"
    /\ \E runner \in [SelectedKeys -> Graph] :
        /\ \A k, l \in SelectedKeys :
            /\ SharesTask(selected[k].candidate, runner[k])
            /\ SharesTask(selected[k].candidate, selected[l].candidate) =>
                    runner[k] = runner[l]
        /\ objects' = [k \in SelectedKeys |-> Object(runner[k])]
    /\ phase' = "fetched"
    /\ UNCHANGED <<lock, basis, request, batch, queue, selected, order, shadows, outcome,
                   companion>>

\* graph_identity: what was selected, and how it was come by.
GraphIdentity ==
    [toolchain |-> Toolchain, root |-> request.root, packages |-> Graph,
     rootPackages |-> {request.root[i].key : i \in DOMAIN request.root},
     order |-> order, shadows |-> shadows, impact |-> Impact]

NewLock == {Locked(c) : c \in Graph}
NextLock == [root |-> request.root, packages |-> NewLock]
Transaction == "tx"
Decisions == {DecisionOf(NewLock, objects[k], Transaction, GraphIdentity) : k \in SelectedKeys}
Metadata == {ProjectionMetadata(c) : c \in Graph}

\* The Reservoir policy, package by package: the registry is asked again, and an
\* authorization is presented for the package it is about.
ReservoirGraph == {c \in Graph : c.req.kind = "reservoir"}
Observations(c) ==
    {Binding(d) : d \in {d \in Available(c.key) : d.req = c.req}}
ActiveBinding(c) ==
    LET found == {b \in IF document = NoDocument THEN {} ELSE document.bindings :
                    b.package = c.key /\ b.version = c.req.rev}
    IN  IF found = {} THEN NoBinding ELSE CHOOSE b \in found : TRUE
Verdict(c, authorization) ==
    Evaluate(ActiveBinding(c), Observations(c),
             IF authorization # NoAuthorization /\ authorization.package = c.key
             THEN authorization ELSE NoAuthorization)

PolicyAllows(authorization) ==
    IF request.frozen THEN authorization = NoAuthorization
    ELSE /\ authorization # NoAuthorization =>
                \E c \in ReservoirGraph : authorization.package = c.key
         /\ \A c \in ReservoirGraph :
                Verdict(c, authorization) \in
                    {"FirstResolutionPending", "StableBinding", "ExplicitRebindAccepted"}

\* A frozen replay reads the companion that is there.
NextDocument ==
    IF ReservoirGraph = {} THEN NoDocument
    ELSE IF request.frozen THEN document
    ELSE Document(NextLock, {Binding(c) : c \in ReservoirGraph})

\* A mistake to be caught: the objects are not compared with the graph.
GenerationUncompared ==
    LockError(NewLock) = "none" /\ RootMatchesLock(request.root, NewLock)

\* The gates of model() and generation(): the lock, the manifest projection, the
\* path decisions and the generation with its companion.
GenerationIsAccepted ==
    /\ LockError(NewLock) = "none"
    /\ RootMatchesLock(request.root, NewLock)
    /\ MetadataMatches(NewLock, Metadata)
    /\ DecisionSetMatches(NewLock, Decisions)
    /\ GenerationMatches(NextLock, Graph, GraphIdentity, Decisions, Range(objects), NextDocument)

Reset ==
    /\ phase' = "idle"
    /\ request' = NoRequest
    /\ batch' = <<>> /\ queue' = <<>> /\ order' = <<>>
    /\ selected' = <<>> /\ objects' = <<>> /\ shadows' = {}
    /\ outcome' = "running"

\* Any two bindings of one scope with different commits can be authorized.
Authorizations ==
    LET known == {Binding(c) : c \in {c \in Candidate : c.req.kind = "reservoir"}}
    IN  {Authorization(m[1], m[2]) : m \in
            {m \in known \X known : SameScope(m[1], m[2]) /\ m[1].commit # m[2].commit}}

\* A generation that is accepted makes its lock and companion the active ones.
Assemble(authorization) ==
    /\ phase = "fetched"
    /\ PolicyAllows(authorization)
    /\ GenerationIsAccepted
    /\ lock' = NextLock
    /\ basis' = [root |-> request.root, registry |-> request.registry]
    /\ document' = NextDocument
    /\ consent' = authorization
    /\ Reset

\* An error, or an assembly that is refused, leaves the active lock alone.
GiveUp ==
    /\ \/ phase = "done" /\ outcome # "resolved"
       \/ phase = "fetched" /\ ~(PolicyAllows(NoAuthorization) /\ GenerationIsAccepted)
    /\ UNCHANGED <<lock, basis, companion>>
    /\ Reset

-----------------------------------------------------------------------------
Init ==
    /\ lock \in {NoLock} \cup GivenLocks
    /\ basis = NoLock
    /\ request = NoRequest
    /\ phase = "idle"
    /\ batch = <<>> /\ queue = <<>> /\ order = <<>>
    /\ selected = <<>> /\ objects = <<>> /\ shadows = {}
    /\ outcome = "running"
    /\ document = NoDocument
    /\ consent = NoAuthorization

Next ==
    \/ \E root \in Roots, registry \in Registries, frozen, locked \in BOOLEAN,
          targets \in UpdateSets : Request(root, registry, frozen, targets, locked)
    \/ Shadow \/ Select \/ NextParent \/ Finish
    \/ Fetch \/ GiveUp
    \/ \E authorization \in {NoAuthorization} \cup Authorizations : Assemble(authorization)

Spec == Init /\ [][Next]_vars

-----------------------------------------------------------------------------
Resolved == phase = "done" /\ outcome = "resolved"

\* All requirements of the root and of selected packages, with their origins.
AllRequirements ==
    UNION {Range(Declared(RootOrigin, RootRequirements(request.root))),
           UNION {Range(Declared(k, selected[k].candidate.deps)) : k \in SelectedKeys}}

\* An accepted graph is coherent: every requirement of the root and of every
\* selected package is met by the one selected candidate, although
\* requirements met later were only compared with what earlier ones had
\* selected, and the ones that did not win their package are recorded as
\* shadowed ("every compatible collision becomes LeanShadowDecisionV1").
GraphIsCoherent ==
    Resolved =>
        /\ \A r \in AllRequirements :
              /\ r.key \in SelectedKeys
              /\ RequestMatches(r.source, selected[r.key].candidate)
        /\ LET winners == {selected[k].winner : k \in SelectedKeys}
           IN  /\ winners \cap shadows = {}
               /\ winners \cup shadows = {r.origin : r \in AllRequirements}

\* An accepted graph has no cycle, although packages that were left are not
\* entered again: no path visits more packages than there are.
GraphIsAcyclic == Resolved => ~HasPath(NewLock, Cardinality(SelectedKeys) + 1)

\* What a resolution has to select, without an order: the least set of
\* requirements that has those of the root and of every candidate that matches
\* one of its members.
RequirementsOf(c) == Range(c.deps)

Needed ==
    LET root == Range(RootRequirements(request.root))
        all == root \cup UNION {RequirementsOf(c) : c \in request.registry}
    IN  {r \in all : \A S \in SUBSET all :
            (/\ root \subseteq S
             /\ \A q \in S : \A c \in Matching(q) : RequirementsOf(c) \subseteq S) => r \in S}

\* Traversal succeeds exactly if each needed requirement has one matching
\* candidate of the right toolchain and no key is needed from two sources, and
\* it then selects those candidates: neither declaration order nor the order of
\* the queue decides what is selected.
OrderDoesNotDecide ==
    LET solvable ==
            /\ \A r \in Needed : SelectionError(r) = "none"
            /\ \A r, q \in Needed : r.key = q.key => r = q
    IN  /\ (phase = "select" /\ batch = <<>> /\ queue = <<>>) =>
                solvable /\ Graph = UNION {Matching(r) : r \in Needed}
        /\ (phase = "done" /\ outcome \in {"MissingTransitiveDeclaration",
                "SourceValueConflict", "SourceKindConflict", "AmbiguousCandidate",
                "ToolchainCandidateConflict"}) => ~solvable

\* A frozen resolution of the root and metadata a lock was made from succeeds,
\* although the metadata may hold newer candidates for the same requests.
FrozenReplays ==
    (phase = "done" /\ request.frozen /\ request.locked
        /\ [root |-> request.root, registry |-> request.registry] = basis) =>
            outcome = "resolved" /\ NewLock = lock.packages

Bindings(d) == IF d = NoDocument THEN {} ELSE d.bindings

\* Replacing the active lock with a targeted update changes only targets and
\* what comes or goes with them: another package that stays keeps content and
\* edges, and one that disappears was reachable from a target.  And a Reservoir
\* version that was bound stays bound to what the registry said of it, except
\* that its commit moves with an authorization of exactly that move: a moved
\* place, other metadata or an authorization of another move do not do.
ReplacesAsAsked ==
    /\ (lock' # lock /\ request.locked) =>
        /\ \A p \in LockedPackages, q \in lock'.packages :
            (p.key = q.key /\ p.key \notin request.targets) =>
                p.exact = q.exact /\ p.deps = q.deps
        /\ {p.key : p \in LockedPackages} \ {q.key : q \in lock'.packages}
            \subseteq ImpactClosure(ActiveDeps, request.targets)
    /\ \A old \in Bindings(document), new \in Bindings(document') :
        (SameScope(old, new) /\ old # new) =>
            old.commit # new.commit /\ consent' = Authorization(old, new)

\* Every step replaces the active lock and its companion as it was asked to
\* (validate_mode_result, evaluate_reservoir_binding_v1).
UpdateIsTargeted == [][ReplacesAsAsked]_vars

\* In a generation that is accepted every package has the object that was made
\* for it, although the fetch of a package that joined another's task returned an
\* object that describes the other package (materialize names tasks by source;
\* LeanBunGenerationV1::new compares the objects with the lock and the graph).
NoObjectOfAnother ==
    (phase = "fetched" /\ GenerationIsAccepted) =>
        \A k \in SelectedKeys : objects[k] = Object(selected[k].candidate)

\* A generation that is accepted describes one closure: every package has its
\* object, and Lake finds it where it was decided to be.  What is written of it
\* reads back, the companion with this lock and no other, and a lock that lost a
\* line or had two lines swapped does not read.
GenerationDescribesItsClosure ==
    /\ NoObjectOfAnother
    /\ (phase = "fetched" /\ GenerationIsAccepted) =>
           LET text == LockText(NextLock)
               g == GenerationOf(Transaction, NextLock, GraphIdentity, Decisions, Metadata,
                                 Range(objects), NextDocument)
           IN  /\ WorkspaceMatches(Decisions, Range(RuntimeEntries(NewLock, Decisions)))
               /\ ReadLock(text) = NextLock
               /\ \A i \in DOMAIN text : ReadLock(WithoutLine(text, i)) = Unreadable
               /\ \A i \in 1..(Len(text) - 1) : ReadLock(Swapped(text, i)) = Unreadable
               /\ NextDocument # NoDocument =>
                   \A l \in {lock, NextLock} \ {NoLock} :
                       ReadDocument(DocumentText(NextDocument), l) =
                           IF l = NextLock THEN NextDocument ELSE Unreadable
               /\ ReadMetadata(MetadataText(g)) = g
               /\ FilesAgree(g, text, g.manifest, g.runtime)
=============================================================================
