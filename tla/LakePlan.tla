------------------------------- MODULE LakePlan -------------------------------
(***************************************************************************)
(* Package inventory, dependency drift, the plan of `lake update`, and the *)
(* documents an approval is made of (leanbun-inventory-legacy and          *)
(* leanbun-plan).  All of it is pure.  A SHA-256 digest is the value that  *)
(* is hashed, so two digests are equal exactly when the values are.        *)
(***************************************************************************)
EXTENDS Naturals, Sequences, FiniteSets

CONSTANTS
    Nothing,          \* an optional value that is absent
    Selectors,        \* package names that valid_package_selector accepts
    MaxInventory,     \* most packages in an inventory
    RequestWindow,    \* longest life of an approval request
    ObservationAge,   \* oldest executable observation a preflight accepts
    ChallengeWindow   \* longest life of a challenge

ASSUME WindowAssumption ==
    RequestWindow \in Nat /\ ObservationAge \in Nat /\ ChallengeWindow \in Nat

-----------------------------------------------------------------------------
(* Inventory and drift.                                                    *)

Git(revision) == [kind |-> "git", at |-> revision]
PathSource(directory) == [kind |-> "path", at |-> directory]
Unobserved == [state |-> "unobserved"]

Lookup(f, n) == IF f # Nothing /\ n \in DOMAIN f THEN f[n] ELSE Nothing
NamesIn(f) == IF f = Nothing THEN {} ELSE DOMAIN f
Names(project, provider) ==
    NamesIn(project.manifest) \cup NamesIn(project.overrides) \cup NamesIn(provider)

\* Checkouts outside the inventory and too many packages are refused.
InventoryIsRefused(project, provider, observed) ==
    \/ ~(DOMAIN observed \subseteq Names(project, provider))
    \/ Cardinality(Names(project, provider)) > MaxInventory

PackageInventory(project, provider, observed) ==
    [path |-> project.path, toolchain |-> project.toolchain,
     files |-> <<project.manifest, project.overrides, provider>>,
     packages |->
        [n \in Names(project, provider) |->
            [declaration |-> Lookup(project.manifest, n),
             override |-> Lookup(project.overrides, n),
             resolved |-> Lookup(project.paths, n),
             provider |-> Lookup(provider, n),
             checkout |-> IF n \in DOMAIN observed THEN observed[n] ELSE Unobserved]]]

When(condition, finding) == IF condition THEN {finding} ELSE {}
IsDeclared(p, kind) == p.declaration # Nothing /\ p.declaration.kind = kind

ExpectedRevision(p) ==
    IF IsDeclared(p, "git") THEN p.declaration.at
    ELSE IF p.provider # Nothing THEN p.provider.revision ELSE Nothing

ExpectedDirectory(p) ==
    IF p.resolved # Nothing THEN p.resolved
    ELSE IF p.provider # Nothing THEN p.provider.directory ELSE Nothing

\* What a present checkout shows; a dirty state is compared only where a
\* revision is expected.
CheckoutFindings(p) ==
    LET c == p.checkout
        pinned == ExpectedRevision(p) # Nothing
    IN  When(ExpectedDirectory(p) \notin {Nothing, c.directory}, <<"path", "checkout">>)
        \cup When(pinned /\ c.revision \notin {Nothing, ExpectedRevision(p)},
                  <<"revision", "checkout">>)
        \cup When(pinned /\ c.revision = Nothing, <<"unobserved", "checkout-revision">>)
        \cup When(pinned /\ c.dirty = TRUE, <<"dirty", "checkout">>)
        \cup When(pinned /\ c.dirty = Nothing, <<"unobserved", "checkout-dirty">>)

\* classify_package; an empty set is its single finding "matched".
Findings(p) ==
    LET provided == p.provider # Nothing
    IN  When(provided /\ p.declaration = Nothing, <<"missing", "manifest-package">>)
        \cup When(provided /\ IsDeclared(p, "git") /\ p.declaration.at # p.provider.revision,
                  <<"revision", "manifest-provider">>)
        \cup When(provided /\ IsDeclared(p, "path"), <<"path", "manifest-provider">>)
        \cup When(provided /\ p.override # p.provider.directory,
                  <<"override", "project-provider">>)
        \cup When(p.checkout.state = "unobserved", <<"unobserved", "checkout">>)
        \cup When(p.checkout.state = "missing", <<"missing", "checkout">>)
        \cup IF p.checkout.state = "present" THEN CheckoutFindings(p) ELSE {}

DependencyDrift(inventory) ==
    [path |-> inventory.path,
     findings |-> [n \in DOMAIN inventory.packages |-> Findings(inventory.packages[n])]]

DriftSummary(drift) ==
    LET kinds == {f[1] : f \in UNION {drift.findings[n] : n \in DOMAIN drift.findings}}
    IN  IF kinds \ {"unobserved"} # {} THEN "drifted"
        ELSE IF "unobserved" \in kinds THEN "unobserved" ELSE "matched"

\* The digest is refused unless the report is this inventory's own.
Snapshot(inventory, drift) ==
    IF drift = DependencyDrift(inventory) THEN inventory ELSE Nothing

-----------------------------------------------------------------------------
(* The plan and the fixed contract of `lake update`.                       *)

SafeExecutable(e) == e.regular /\ e.executable

PlanError(e, root, inventory, drift, packages) ==
    CASE ~e.supported -> "TOOLCHAIN_MISMATCH"
      [] e.supported /\ (\/ inventory.path # drift.path
                         \/ inventory.path # root
                         \/ Snapshot(inventory, drift) = Nothing) -> "BUILD_INSPECTION_FAILED"
      [] e.supported /\ ~e.managed -> "PATH_ESCAPES_ALLOWED_ROOT"
      [] e.supported /\ e.managed /\ (~SafeExecutable(e) \/ packages = <<>>) ->
            "BUILD_NOT_AUTHORIZED"
      [] \E i \in DOMAIN packages :
            \/ packages[i] \notin Selectors
            \/ \E j \in 1..(i - 1) : packages[j] = packages[i] -> "MANIFEST_SHAPE_INVALID"
      [] \E i \in DOMAIN packages : packages[i] \notin DOMAIN inventory.packages ->
            "PROVIDER_PACKAGE_MISSING"
      [] \E i \in DOMAIN packages :
            /\ packages[i] \in DOMAIN inventory.packages
            /\ ~IsDeclared(inventory.packages[packages[i]], "git") -> "BUILD_NOT_AUTHORIZED"
      [] OTHER -> "none"

ContractEffects ==
    {"load-configuration", "read-overrides", "rewrite-manifest", "modify-lake-directory",
     "fetch-content", "modify-checkouts", "run-post-update-hooks"}
ContractRisks ==
    {"configuration-execution", "network", "manifest-rewrite", "checkout-mutation",
     "lake-state-mutation", "hook-execution"}

\* Selectors are sorted, so their order in the command does not matter.
LakePlan(e, root, inventory, drift, packages) ==
    [executable |-> e, cwd |-> root, inventory |-> Snapshot(inventory, drift),
     packages |-> {packages[i] : i \in DOMAIN packages},
     effects |-> ContractEffects,
     risks |-> ContractRisks \cup {"recheck-executable"}
               \cup When(DriftSummary(drift) = "drifted", "observed-drift")
               \cup When(DriftSummary(drift) = "unobserved", "checkouts-unknown")]

\* verify_lake_update_plan_contract_v1.  A Git package may be called "upgrade":
\* its plan is made, and refused here.
MeetsContract(plan) ==
    /\ plan.executable.supported /\ SafeExecutable(plan.executable)
    /\ plan.effects = ContractEffects
    /\ ContractRisks \subseteq plan.risks
    /\ plan.packages # {} /\ "upgrade" \notin plan.packages

-----------------------------------------------------------------------------
(* Request, preflight and challenge.                                       *)

WindowIsValid(issued, expires, longest) ==
    issued > 0 /\ expires > issued /\ expires - issued <= longest

\* The request id covers the plan report, which shows the whole plan.
ApprovalRequest(plan, nonce, issued, expires) ==
    [plan |-> plan, nonce |-> nonce, issued |-> issued, expires |-> expires]

CanRequest(plan, issued, expires) ==
    WindowIsValid(issued, expires, RequestWindow) /\ MeetsContract(plan)

\* A mistake to be caught: the id of the plan is not compared.
RequestIsUnexpired(request, plan, now) ==
    now >= request.issued /\ now < request.expires

RequestIsCurrent(request, plan, now) ==
    /\ now >= request.issued /\ now < request.expires
    /\ CanRequest(plan, request.issued, request.expires)
    /\ request = ApprovalRequest(plan, request.nonce, request.issued, request.expires)

Preflight(request, plan, e, observed, now) ==
    /\ RequestIsCurrent(request, plan, now)
    /\ observed > 0 /\ observed <= now /\ now - observed <= ObservationAge
    /\ SafeExecutable(e) /\ e = plan.executable

Challenge(request, observed, nonce, terminal, issued) ==
    [request |-> request, observed |-> observed, nonce |-> nonce, terminal |-> terminal,
     issued |-> issued,
     expires |-> IF issued + ChallengeWindow <= request.expires
                 THEN issued + ChallengeWindow ELSE request.expires]

CanChallenge(c) ==
    /\ c.issued >= c.request.issued /\ c.issued >= c.observed
    /\ WindowIsValid(c.issued, c.expires, ChallengeWindow)
    /\ c.expires <= c.request.expires
=============================================================================
