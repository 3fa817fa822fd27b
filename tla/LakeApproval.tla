---------------------------- MODULE LakeApproval ----------------------------
(***************************************************************************)
(* The life of an approved Lake command (leanbun-approval-macos): request, *)
(* preflight, challenge on a terminal, response, single-use consumption,   *)
(* fresh observation and plan, seal, grant, launch intent, reservation,    *)
(* and the request to a coordinator.  One action is one call; reading the  *)
(* response and reserving are split where they wait and read the clock     *)
(* again.  Every token is moved into the call that uses it: a    *)
(* refusal, an I/O error or a crash loses it (Stop), and only the slots in *)
(* the two registries survive.  One session is one attempt.                *)
(***************************************************************************)
EXTENDS LakePlan, CoordinatorWire

CONSTANTS
    Sessions,       \* attempts, each in a process of its own
    Executables,    \* what bin/lake below the managed root can be
    Projects,       \* what the project and provider documents can be
    Terminals,      \* what observing the process's terminal can show
    Environments,   \* environment locations a caller can pass
    Paths,          \* what the components of the executable's path can show
    Packages,       \* the selected packages, in command order
    RequestNonces, ChallengeNonces,
    MaxClock,       \* bound: last clock value
    MaxDrift        \* bound: changes of executable, documents or terminal, and
                    \* times the clock is set back

ASSUME ClockAssumption == MaxClock \in Nat \ {0}

VARIABLES
    now,        \* the system clock
    world,      \* the executable, documents and terminal that exist
    ses,        \* the state of every session
    consumed,   \* pairs of a challenge and the session that made its slot
    reserved,   \* pairs of a launch intent and the session that made its slot
    wire        \* the coordinator request that was sent and what arrived

vars == <<now, world, ses, consumed, reserved, wire>>

-----------------------------------------------------------------------------
(* The terminal.                                                           *)

\* observe_current_process_terminal_v1: the metadata is read twice around the
\* platform identities.
TerminalDecision(o) ==
    CASE ~o.interactive -> "DeniedNonInteractive"
      [] o.interactive /\ (\E d \in {o.stdin, o.stderr} : d = Nothing) ->
            "DeniedUnverifiableTerminal"
      [] o.interactive /\ o.stdin # o.stderr -> "DeniedDistinctTerminal"
      [] o.interactive /\ o.stdin = o.stderr /\ o.again # o.stdin -> "DeniedUnverifiableTerminal"
      [] OTHER ->
            CASE o.owner # o.euid -> "DeniedTerminalOwnerMismatch"
              [] o.owner = o.euid /\ o.foreground \notin {Nothing, o.group} ->
                    "DeniedBackgroundProcessGroup"
              [] /\ o.owner = o.euid /\ o.foreground \in {Nothing, o.group}
                 /\ Nothing \notin {o.session, o.tsession} /\ o.session # o.tsession ->
                    "DeniedForeignTerminalSession"
              [] o.owner = o.euid /\ o.foreground = o.group /\ o.session = o.tsession
                 /\ o.session # Nothing -> "ReadyForChallengeResponse"
              [] OTHER -> "DeniedUnverifiableTerminal"

\* trusted_terminal_binding_v1
IsTrusted(o) == TerminalDecision(o) = "ReadyForChallengeResponse"
Binding(o) == <<o.stdin, o.owner, o.euid, o.group, o.session>>
IsBound(c) == IsTrusted(world.terminal) /\ Binding(world.terminal) = c.terminal

InWindow(c) == now >= c.issued /\ now < c.expires

-----------------------------------------------------------------------------
(* From the plan to the response.                                          *)

Unused ==
    [stage |-> "new", request |-> Nothing, observed |-> 0, challenge |-> Nothing,
     presented |-> FALSE, at |-> 0, token |-> Nothing, fresh |-> Nothing, intent |-> Nothing]
Stopped == [Unused EXCEPT !.stage = "stopped"]

At(s, stage) == ses[s].stage = stage
Becomes(s, record) == ses' = [ses EXCEPT ![s] = record]
Others == UNCHANGED <<now, world, consumed, reserved, wire>>

Plan(e, project, observed) ==
    LET inventory == PackageInventory(project.input, project.provider, observed)
        drift == DependencyDrift(inventory)
    IN  IF \/ InventoryIsRefused(project.input, project.provider, observed)
           \/ PlanError(e, project.input.path, inventory, drift, Packages) # "none"
        THEN Nothing
        ELSE LakePlan(e, project.input.path, inventory, drift, Packages)

\* A request for what the caller sees now.
Ask(s) ==
    /\ At(s, "new")
    /\ \E nonce \in RequestNonces :
          LET plan == Plan(world.exec, world.project, world.project.checkouts)
          IN  /\ plan # Nothing /\ CanRequest(plan, now, now + RequestWindow)
              /\ Becomes(s, [Unused EXCEPT !.stage = "asked",
                    !.request = ApprovalRequest(plan, nonce, now, now + RequestWindow)])
    /\ Others

\* The caller shows the executable again.
ReadyForApproval(s) ==
    /\ At(s, "asked")
    /\ Preflight(ses[s].request, ses[s].request.plan, world.exec, now, now)
    /\ Becomes(s, [ses[s] EXCEPT !.stage = "ready", !.observed = now])
    /\ Others

PreparePresentation(s) ==
    /\ At(s, "ready") /\ IsTrusted(world.terminal)
    /\ \E nonce \in ChallengeNonces :
          LET c == Challenge(ses[s].request, ses[s].observed, nonce,
                             Binding(world.terminal), now)
          IN  /\ CanChallenge(c)
              /\ Becomes(s, [ses[s] EXCEPT !.stage = "prepared", !.challenge = c])
    /\ Others

\* A failed presentation leaves the challenge, and may be tried again.
Present(s) ==
    /\ At(s, "prepared") /\ ~ses[s].presented
    /\ IsBound(ses[s].challenge) /\ InWindow(ses[s].challenge)
    /\ Becomes(s, [ses[s] EXCEPT !.presented = TRUE])
    /\ Others

StartRead(s) ==
    /\ At(s, "prepared") /\ ses[s].presented
    /\ InWindow(ses[s].challenge) /\ IsBound(ses[s].challenge)
    /\ Becomes(s, [ses[s] EXCEPT !.stage = "reading"])
    /\ Others

\* A person types the confirmation of a challenge that some session shows.
Displayed == {ses[t].challenge : t \in {t \in Sessions : ses[t].presented}}
FinishRead(s) ==
    /\ At(s, "reading")
    /\ \E typed \in Displayed : typed = ses[s].challenge
    /\ IsBound(ses[s].challenge) /\ InWindow(ses[s].challenge)
    /\ Becomes(s, [ses[s] EXCEPT !.stage = "claimed", !.at = now])
    /\ Others

-----------------------------------------------------------------------------
(* Consumption.  The stamp is taken, the slot created, written and synced;  *)
(* whatever fails once the slot exists is Stop.                            *)

\* The stamp must not precede the previous one nor reach the expiry.
InOrder(s) == now >= ses[s].at /\ now < ses[s].challenge.expires

\* A mistake to be caught: the slot is opened without O_EXCL.
ConsumeAnyway(s) ==
    /\ At(s, "claimed") /\ InOrder(s)
    /\ consumed' = consumed \cup {<<ses[s].challenge, s>>}
    /\ Becomes(s, [ses[s] EXCEPT !.stage = "consumed", !.at = now])
    /\ UNCHANGED <<now, world, reserved, wire>>

Consume(s) ==
    /\ At(s, "claimed") /\ InOrder(s)
    /\ \A t \in Sessions : <<ses[s].challenge, t>> \notin consumed
    /\ consumed' = consumed \cup {<<ses[s].challenge, s>>}
    /\ Becomes(s, [ses[s] EXCEPT !.stage = "consumed", !.at = now])
    /\ UNCHANGED <<now, world, reserved, wire>>

-----------------------------------------------------------------------------
(* Fresh facts and authority.                                              *)

\* observe_reviewed_lake_executable_v1 with the plan of the request.
IsReviewed(e, plan) == e.managed /\ SafeExecutable(e) /\ e = plan.executable /\ MeetsContract(plan)

\* Neither call needs the consumption; Observing is the bound on how early
\* they are made.
Observing == {"claimed", "consumed"}
ObserveExecutable(s) ==
    /\ ses[s].stage \in Observing /\ ses[s].token = Nothing /\ ses[s].fresh = Nothing
    /\ IsReviewed(world.exec, ses[s].request.plan)
    /\ Becomes(s, [ses[s] EXCEPT !.token = [exec |-> world.exec, at |-> now]])
    /\ Others

\* The checkouts are never observed here.
DeriveFresh(s) ==
    LET plan == Plan(ses[s].token.exec, world.project, <<>>)
    IN  /\ ses[s].stage \in Observing /\ ses[s].token # Nothing
        /\ world.project.input.path = ses[s].request.plan.cwd
        /\ plan # Nothing
        /\ Becomes(s, [ses[s] EXCEPT !.token = Nothing,
                                     !.fresh = [plan |-> plan, at |-> ses[s].token.at]])
        /\ Others

\* reverify_at_v1 inside seal_trusted_lake_execution_candidate_v1: the caller may
\* pass the request of another attempt, and the consumption's must be that one.
Seal(s) ==
    /\ At(s, "consumed") /\ ses[s].fresh # Nothing
    /\ \E t \in Sessions :
          /\ ses[s].challenge.request = ses[t].request
          /\ Preflight(ses[t].request, ses[s].fresh.plan, ses[s].fresh.plan.executable,
                       ses[s].fresh.at, now)
    /\ ses[s].fresh.at >= ses[s].at /\ now >= ses[s].fresh.at
    /\ now < ses[s].challenge.expires
    /\ Becomes(s, [ses[s] EXCEPT !.stage = "sealed", !.at = now])
    /\ Others

\* A candidate that Seal made is intact.
Grant(s) ==
    /\ At(s, "sealed") /\ InOrder(s) /\ MeetsContract(ses[s].fresh.plan)
    /\ Becomes(s, [ses[s] EXCEPT !.stage = "granted", !.at = now])
    /\ Others

\* assemble_environment
EnvironmentIsSafe(env) ==
    /\ env.path # <<>> /\ env.root.private /\ env.elan.private /\ env.home.private
    /\ \A i \in 1..Len(env.path) :
          /\ env.path[i].private /\ ~env.path[i].separator
          /\ \A j \in 1..(i - 1) : env.path[j] # env.path[i]

\* The executable is observed again between the grant and the intent.
PrepareIntent(s) ==
    /\ At(s, "granted") /\ InOrder(s) /\ IsReviewed(world.exec, ses[s].fresh.plan)
    /\ \E env \in Environments :
          /\ EnvironmentIsSafe(env)
          /\ Becomes(s, [ses[s] EXCEPT !.stage = "intended", !.at = now,
                !.intent = [challenge |-> ses[s].challenge, granted |-> ses[s].at,
                            env |-> env, prepared |-> now]])
    /\ Others

Reserve(s) ==
    /\ At(s, "intended") /\ InOrder(s)
    /\ \A t \in Sessions : <<ses[s].intent, t>> \notin reserved
    /\ reserved' = reserved \cup {<<ses[s].intent, s>>}
    /\ Becomes(s, [ses[s] EXCEPT !.stage = "enduring", !.at = now])
    /\ UNCHANGED <<now, world, consumed, wire>>

\* The clock is read again once the slot is durable.
SyncReservation(s) ==
    /\ At(s, "enduring") /\ InOrder(s)
    /\ Becomes(s, [ses[s] EXCEPT !.stage = "reserved"])
    /\ Others

-----------------------------------------------------------------------------
(* After the reservation: the path and the coordinator.                    *)

\* classify_components: the first that holds; none of them allows a launch.
PathDecision(components) ==
    LET denials ==
            <<<<\E c \in components : c.owned, "DeniedUserOwnedComponent">>,
              <<\E c \in components : c.write = "allowed", "DeniedEffectiveUidWriteAccess">>,
              <<\E c \in components : c.shared, "DeniedGroupOrWorldWritable">>,
              <<\E c \in components : c.write = "unverified", "DeniedEffectiveAccessUnverified">>,
              <<\E c \in components : c.acl = "mutation", "DeniedAclMutationAllowEntry">>,
              <<\E c \in components : c.acl = "unknown", "DeniedAclCoverageUnverified">>,
              <<TRUE, "DeniedMountOrWriterContinuityUnverified">>>>
    IN  denials[CHOOSE i \in 1..7 : denials[i][1] /\ \A j \in 1..(i - 1) : ~denials[j][1]][2]

\* The reservation is only borrowed, so it may be assessed again.
AssessPath(s) ==
    /\ ses[s].stage \in {"reserved", "assessed"}
    /\ LET expired == ~InOrder(s)
           drifted == ~IsReviewed(world.exec, ses[s].fresh.plan)
       IN  \E components \in Paths :
             Becomes(s, [ses[s] EXCEPT !.stage = "assessed", !.token =
                IF expired THEN "DeniedReservationExpired"
                ELSE IF drifted THEN "DeniedExecutableIdentityDrift"
                ELSE PathDecision(components)])
    /\ Others

\* The caller of prepare_macos_coordinator_request_v1 copies the digests.
Lineage(s) == [i \in 1..6 |-> <<i, s>>]
CoordinatorRequest(s) ==
    [peer |-> [signing |-> CHOOSE i \in Identifiers : TRUE, team |-> CHOOSE t \in Teams : TRUE,
               code |-> <<7, s>>, euid |-> 501, audit |-> 1],
     principal |-> [uid |-> 501, gid |-> 20, groups |-> <<12, 61>>],
     lineage |-> Lineage(s), nonce |-> <<8, s>>, issued |-> ses[s].at,
     expires |-> ses[s].at + RequestLife]

\* What a transport may make of an envelope.
Damaged(e) ==
    {[e EXCEPT !.fields = SubSeq(e.fields, 1, 20)], [e EXCEPT !.fields = Append(@, @[1])],
     [e EXCEPT !.fields[12] = e.fields[13], !.fields[13] = e.fields[12]],
     [e EXCEPT !.fields[12][2] = e.fields[13][2]],
     [e EXCEPT !.fields[7][2] = 0, !.fields[9][2] = 0],
     [e EXCEPT !.fields[11][2] = <<61, 12>>], [e EXCEPT !.fields[10][2] = 21],
     [e EXCEPT !.fields[20][2] = @ - 1], [e EXCEPT !.count = 20]}

\* A request is encoded, carried and decoded.  Bound: one, while no other
\* session is under way, since the transport depends on nothing else.
Send(s) ==
    LET r == CoordinatorRequest(s)
    IN  /\ At(s, "reserved") /\ wire = Nothing
        /\ \A t \in Sessions \ {s} : ses[t].stage \in {"new", "stopped"}
        /\ CoordinatorRequestIsValid(r)
        /\ \E envelope \in {Encode(r)} \cup Damaged(Encode(r)) :
              wire' = [sent |-> r, damaged |-> envelope # Encode(r),
                       accepted |-> Decode(envelope)]
        /\ UNCHANGED <<now, world, ses, consumed, reserved>>

-----------------------------------------------------------------------------
(* What goes on meanwhile.                                                 *)

\* A refusal, an error or a crash: the tokens are gone, the slots stay.
Stop(s) ==
    /\ ses[s].stage \notin {"new", "stopped"}
    /\ Becomes(s, Stopped)
    /\ Others

Tick ==
    /\ now < MaxClock /\ now' = now + 1
    /\ UNCHANGED <<world, ses, consumed, reserved, wire>>
SetBack ==
    /\ now > 1 /\ world.drifts < MaxDrift
    /\ now' = now - 1 /\ world' = [world EXCEPT !.drifts = @ + 1]
    /\ UNCHANGED <<ses, consumed, reserved, wire>>

Drift ==
    /\ world.drifts < MaxDrift
    /\ \/ \E e \in Executables \ {world.exec} :
             world' = [world EXCEPT !.exec = e, !.drifts = @ + 1]
       \/ \E p \in Projects \ {world.project} :
             world' = [world EXCEPT !.project = p, !.drifts = @ + 1]
       \/ \E t \in Terminals \ {world.terminal} :
             world' = [world EXCEPT !.terminal = t, !.drifts = @ + 1]
    /\ UNCHANGED <<now, ses, consumed, reserved, wire>>

Init ==
    /\ now = 1
    /\ \E e \in Executables, p \in Projects, t \in Terminals :
          world = [exec |-> e, project |-> p, terminal |-> t, drifts |-> 0]
    /\ ses = [s \in Sessions |-> Unused]
    /\ consumed = {} /\ reserved = {} /\ wire = Nothing

SessionStep(s) ==
    \/ Ask(s) \/ ReadyForApproval(s) \/ PreparePresentation(s) \/ Present(s)
    \/ StartRead(s) \/ FinishRead(s)
    \/ Consume(s) \/ ObserveExecutable(s) \/ DeriveFresh(s) \/ Seal(s) \/ Grant(s)
    \/ PrepareIntent(s) \/ Reserve(s) \/ SyncReservation(s)
    \/ AssessPath(s) \/ Send(s) \/ Stop(s)

Next == (\E s \in Sessions : SessionStep(s)) \/ Tick \/ SetBack \/ Drift

Spec == Init /\ [][Next]_vars
-----------------------------------------------------------------------------
(* Properties.                                                             *)

Holding == {"sealed", "granted", "intended", "enduring", "reserved", "assessed"}

\* Types, and tokens are used up: an executable observation (here or in the
\* plan derived from it) exists once, and a stopped session holds nothing.
TypeOK ==
    /\ now \in 1..MaxClock
    /\ world.exec \in Executables /\ world.project \in Projects
    /\ \A s \in Sessions :
          /\ ses[s].stage = "new" => ses[s] = Unused
          /\ ses[s].stage = "stopped" => ses[s] = Stopped
          /\ ses[s].stage \in Observing => Nothing \in {ses[s].token, ses[s].fresh}
          /\ ses[s].stage \in Holding => ses[s].fresh # Nothing
    /\ consumed \subseteq {p[1] : p \in consumed} \X Sessions
    /\ reserved \subseteq {p[1] : p \in reserved} \X Sessions

\* Whatever changed while a person was asked: a session that holds a sealed
\* candidate or more is about to run the plan that was shown, inside the life
\* of the request, and is the only one that answered its challenge.
AuthorityMatchesApproval ==
    \A s \in Sessions : ses[s].stage \in Holding =>
        /\ ses[s].fresh.plan = ses[s].request.plan
        /\ ses[s].challenge.request = ses[s].request
        /\ ses[s].request.issued <= ses[s].challenge.issued
        /\ ses[s].challenge.issued <= ses[s].at /\ ses[s].at < ses[s].challenge.expires
        /\ ses[s].challenge.expires <= ses[s].request.expires
        /\ {t \in Sessions : <<ses[s].challenge, t>> \in consumed} = {s}

\* The coordinator accepts what was sent, or nothing.
WireIsFaithful ==
    wire # Nothing => wire.accepted = IF wire.damaged THEN NoRequest ELSE wire.sent

\* Single use across processes, failures and restarts.
Ledger == INSTANCE ApprovalLedger WITH
    Session <- Sessions,
    granted <- consumed,
    launched <- {<<p[1].challenge, p[2]>> : p \in reserved}
KeepsPromise == Ledger!Spec
=============================================================================
