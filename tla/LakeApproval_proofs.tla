------------------------ MODULE LakeApproval_proofs ------------------------
(***************************************************************************)
(* Theorems about LakeApproval, for any number of attempts, any windows    *)
(* and any executables, documents and terminals.                           *)
(*                                                                         *)
(* The invariant follows one session: what it holds at a stage            *)
(* (OwnInv), and what the registries hold for it there (SlotsOf).  With    *)
(* that a slot is never made twice for one challenge (Slots), it is        *)
(* inductive.  The clock may go back: no fact of the invariant compares a  *)
(* stored time with the clock.                                             *)
(***************************************************************************)
EXTENDS LakeApproval, TLAPS

Fields == {"stage", "request", "observed", "challenge", "presented", "at", "token",
           "fresh", "intent"}
IsSession(r) == DOMAIN r = Fields /\ r = [f \in Fields |-> r[f]]

\* Stages by what a session must have reached.
Reserved == {"enduring", "reserved", "assessed"}
Intended == {"intended"} \cup Reserved
Consumed == {"consumed"} \cup Holding
Claimed == {"claimed"} \cup Consumed
Challenged == {"prepared", "reading"} \cup Claimed
Requested == {"asked", "ready"} \cup Challenged

OwnInv(r) ==
    /\ IsSession(r)
    /\ r.stage \in {"new", "stopped"} \cup Requested
    /\ r.stage = "new" => r = Unused
    /\ r.stage = "stopped" => r = Stopped
    /\ r.stage \in Requested =>
          r.request.issued \in Nat /\ r.request.expires \in Nat
    /\ r.stage \in Challenged =>
          /\ r.challenge.request = r.request
          /\ r.challenge.issued \in Nat /\ r.challenge.expires \in Nat
          /\ r.request.issued <= r.challenge.issued
          /\ r.challenge.expires <= r.request.expires
    /\ r.stage \in Claimed =>
          /\ r.at \in Nat
          /\ r.challenge.issued <= r.at /\ r.at < r.challenge.expires
    /\ r.stage \in {"asked", "ready", "prepared", "reading"} =>
          r.token = Nothing /\ r.fresh = Nothing
    /\ r.stage \in Observing =>
          /\ Nothing \in {r.token, r.fresh}
          /\ r.token # Nothing => r.token.at \in Nat
          /\ r.fresh # Nothing => r.fresh.at \in Nat
    /\ r.stage \in Holding => r.fresh # Nothing /\ r.fresh.plan = r.request.plan
    /\ r.stage \in Intended => r.intent.challenge = r.challenge

SlotsOf(s, r) ==
    /\ r.stage \in Consumed => <<r.challenge, s>> \in consumed
    /\ r.stage \in Reserved => <<r.intent, s>> \in reserved
    /\ r.stage \notin {"stopped"} \cup Reserved => \A i : <<i, s>> \notin reserved

Slots ==
    /\ \A p \in consumed \cup reserved : p = <<p[1], p[2]>> /\ p[2] \in Sessions
    /\ \A c, s, t : <<c, s>> \in consumed /\ <<c, t>> \in consumed => s = t
    /\ \A i, j, s : <<i, s>> \in reserved /\ <<j, s>> \in reserved => i = j
    /\ \A i, s : <<i, s>> \in reserved => <<i.challenge, s>> \in consumed

ApprovalInv ==
    /\ now \in 1..MaxClock
    /\ world.exec \in Executables /\ world.project \in Projects
    /\ world = [f \in DOMAIN world |-> world[f]]
    /\ {"exec", "project", "terminal", "drifts"} = DOMAIN world
    /\ ses = [s \in Sessions |-> ses[s]]
    /\ \A s \in Sessions : OwnInv(ses[s]) /\ SlotsOf(s, ses[s])
    /\ Slots

-----------------------------------------------------------------------------
\* Before anything is asked, no attempt holds anything and both registries are
\* empty.
LEMMA InitInv == Init => ApprovalInv
<1> SUFFICES ASSUME Init PROVE ApprovalInv
  OBVIOUS
<1>1. now \in 1..MaxClock
  BY ClockAssumption DEF Init
<1>2. /\ world.exec \in Executables /\ world.project \in Projects
      /\ world = [f \in DOMAIN world |-> world[f]]
      /\ {"exec", "project", "terminal", "drifts"} = DOMAIN world
  BY DEF Init
<1>3. \A s \in Sessions : OwnInv(Unused) /\ SlotsOf(s, Unused)
  BY DEF Init, OwnInv, SlotsOf, Unused, IsSession, Fields, Requested, Challenged, Claimed,
         Consumed, Holding, Intended, Reserved, Observing
<1>4. Slots
  BY DEF Init, Slots
<1> QED
  BY <1>1, <1>2, <1>3, <1>4 DEF Init, ApprovalInv

\* A step that gives one session another record and leaves the registries alone.
LEMMA Moves ==
    ASSUME ApprovalInv, NEW s \in Sessions, NEW r, Becomes(s, r), Others,
           OwnInv(r), SlotsOf(s, r)
    PROVE  ApprovalInv'
<1>1. ses' = [t \in Sessions |-> IF t = s THEN r ELSE ses[t]]
  BY DEF ApprovalInv, Becomes
<1>2. ASSUME NEW t \in Sessions PROVE OwnInv(ses'[t]) /\ SlotsOf(t, ses'[t])
  BY <1>1 DEF ApprovalInv
<1>3. ASSUME NEW t \in Sessions PROVE OwnInv(ses[t])' /\ SlotsOf(t, ses[t])'
  BY <1>2 DEF Others, OwnInv, SlotsOf
<1>4. ses' = [t \in Sessions |-> ses'[t]]
  BY <1>1
<1>5. Slots'
  BY DEF ApprovalInv, Others, Slots
<1> QED
  BY <1>3, <1>4, <1>5 DEF ApprovalInv, Others

-----------------------------------------------------------------------------
(* One lemma for each call.                                                *)

\* A refusal, an error or a crash leaves an attempt with nothing but its slots.
LEMMA StopInv == ASSUME ApprovalInv, NEW s \in Sessions, Stop(s) PROVE ApprovalInv'
<1>1. IsSession(Stopped) /\ Stopped.stage = "stopped"
  BY DEF Stopped, Unused, IsSession, Fields
<1>2. OwnInv(Stopped) /\ SlotsOf(s, Stopped)
  BY <1>1 DEF OwnInv, SlotsOf, Requested, Challenged, Claimed, Consumed, Holding, Intended,
              Reserved, Observing
<1> QED
  BY <1>2, Moves DEF Stop

\* A request starts the chain: it carries the plan it was made from.
LEMMA AskInv == ASSUME ApprovalInv, NEW s \in Sessions, Ask(s) PROVE ApprovalInv'
<1>1. PICK nonce \in RequestNonces :
        LET plan == Plan(world.exec, world.project, world.project.checkouts)
        IN  Becomes(s, [Unused EXCEPT !.stage = "asked",
                !.request = ApprovalRequest(plan, nonce, now, now + RequestWindow)])
  BY DEF Ask
<1> DEFINE plan == Plan(world.exec, world.project, world.project.checkouts)
           q == ApprovalRequest(plan, nonce, now, now + RequestWindow)
           r == [Unused EXCEPT !.stage = "asked", !.request = q]
<1>2. q.issued \in Nat /\ q.expires \in Nat
  BY WindowAssumption, ClockAssumption DEF ApprovalInv, ApprovalRequest
<1> HIDE DEF q
<1>3. /\ IsSession(r) /\ r.stage = "asked" /\ r.request = q
      /\ r.token = Nothing /\ r.fresh = Nothing
  BY DEF Unused, IsSession, Fields
<1>4. \A i : <<i, s>> \notin reserved
  BY DEF ApprovalInv, SlotsOf, Ask, At, Reserved
<1> HIDE DEF r
<1>5. OwnInv(r) /\ SlotsOf(s, r)
  BY <1>2, <1>3, <1>4 DEF OwnInv, SlotsOf, Requested, Challenged, Claimed, Consumed, Holding,
              Intended, Reserved, Observing
<1> QED
  BY <1>1, <1>5, Moves DEF Ask, q, r

\* The preflight's readiness adds the request's own plan and no authority.
LEMMA ReadyForApprovalInv ==
    ASSUME ApprovalInv, NEW s \in Sessions, ReadyForApproval(s) PROVE ApprovalInv'
<1> DEFINE r == [ses[s] EXCEPT !.stage = "ready", !.observed = now]
<1>1. OwnInv(ses[s]) /\ SlotsOf(s, ses[s]) /\ ses[s].stage = "asked"
  BY DEF ApprovalInv, ReadyForApproval, At
<1>2. /\ IsSession(r) /\ r.stage = "ready" /\ r.request = ses[s].request
      /\ r.token = ses[s].token /\ r.fresh = ses[s].fresh
  BY <1>1 DEF OwnInv, IsSession, Fields
<1> HIDE DEF r
<1>3. OwnInv(r) /\ SlotsOf(s, r)
  BY <1>1, <1>2 DEF OwnInv, SlotsOf, Requested, Challenged, Claimed, Consumed, Holding,
              Intended, Reserved, Observing
<1> QED
  BY <1>3, Moves DEF ReadyForApproval, r

\* A challenge begins and ends inside the life of its request.
LEMMA PreparePresentationInv ==
    ASSUME ApprovalInv, NEW s \in Sessions, PreparePresentation(s) PROVE ApprovalInv'
<1>1. PICK nonce \in ChallengeNonces :
        LET c == Challenge(ses[s].request, ses[s].observed, nonce,
                           Binding(world.terminal), now)
        IN  CanChallenge(c)
            /\ Becomes(s, [ses[s] EXCEPT !.stage = "prepared", !.challenge = c])
  BY DEF PreparePresentation
<1> DEFINE c == Challenge(ses[s].request, ses[s].observed, nonce, Binding(world.terminal), now)
           r == [ses[s] EXCEPT !.stage = "prepared", !.challenge = c]
<1>2. OwnInv(ses[s]) /\ SlotsOf(s, ses[s]) /\ ses[s].stage = "ready"
  BY DEF ApprovalInv, PreparePresentation, At
<1>3. ses[s].request.issued \in Nat /\ ses[s].request.expires \in Nat
  BY <1>2 DEF OwnInv, Requested
<1>4. /\ c.request = ses[s].request
      /\ c.issued \in Nat /\ c.expires \in Nat
  BY <1>3, WindowAssumption, ClockAssumption DEF ApprovalInv, Challenge
<1>5. c.request.issued <= c.issued /\ c.expires <= c.request.expires
  BY <1>1, <1>3, <1>4 DEF CanChallenge
<1> HIDE DEF c
<1>6. /\ IsSession(r) /\ r.stage = "prepared" /\ r.request = ses[s].request
      /\ r.challenge = c /\ r.token = ses[s].token /\ r.fresh = ses[s].fresh
  BY <1>2 DEF OwnInv, IsSession, Fields
<1> HIDE DEF r
<1>7. OwnInv(r) /\ SlotsOf(s, r)
  BY <1>2, <1>3, <1>4, <1>5, <1>6 DEF OwnInv, SlotsOf, Requested, Challenged, Claimed, Consumed,
              Holding, Intended, Reserved, Observing
<1> QED
  BY <1>1, <1>7, Moves DEF PreparePresentation, c, r

\* Showing the challenge on the terminal changes only the stage.
LEMMA PresentInv ==
    ASSUME ApprovalInv, NEW s \in Sessions, Present(s) PROVE ApprovalInv'
<1> DEFINE r == [ses[s] EXCEPT !.presented = TRUE]
<1>1. OwnInv(ses[s]) /\ SlotsOf(s, ses[s]) /\ ses[s].stage = "prepared"
  BY DEF ApprovalInv, Present, At, Observing
<1>2. /\ IsSession(r) /\ r.stage = ses[s].stage
      /\ r.request = ses[s].request /\ r.challenge = ses[s].challenge
      /\ r.token = ses[s].token /\ r.fresh = ses[s].fresh
      /\ r.intent = ses[s].intent /\ r.at = ses[s].at
  BY <1>1 DEF OwnInv, IsSession, Fields
<1> HIDE DEF r
<1>4. OwnInv(r) /\ SlotsOf(s, r)
  BY <1>1, <1>2 DEF OwnInv, SlotsOf, Requested, Challenged, Claimed, Consumed,
              Holding, Intended, Reserved, Observing
<1> QED
  BY <1>4, Moves DEF Present, r

\* Waiting for the answer keeps the challenge.
LEMMA StartReadInv ==
    ASSUME ApprovalInv, NEW s \in Sessions, StartRead(s) PROVE ApprovalInv'
<1> DEFINE r == [ses[s] EXCEPT !.stage = "reading"]
<1>1. OwnInv(ses[s]) /\ SlotsOf(s, ses[s]) /\ ses[s].stage = "prepared"
  BY DEF ApprovalInv, StartRead, At, Observing
<1>2. /\ IsSession(r) /\ r.stage = "reading"
      /\ r.request = ses[s].request /\ r.challenge = ses[s].challenge
      /\ r.token = ses[s].token /\ r.fresh = ses[s].fresh
      /\ r.intent = ses[s].intent /\ r.at = ses[s].at
  BY <1>1 DEF OwnInv, IsSession, Fields
<1> HIDE DEF r
<1>4. OwnInv(r) /\ SlotsOf(s, r)
  BY <1>1, <1>2 DEF OwnInv, SlotsOf, Requested, Challenged, Claimed, Consumed,
              Holding, Intended, Reserved, Observing
<1> QED
  BY <1>4, Moves DEF StartRead, r

\* An answer is dated inside the life of its challenge.
LEMMA FinishReadInv ==
    ASSUME ApprovalInv, NEW s \in Sessions, FinishRead(s) PROVE ApprovalInv'
<1> DEFINE r == [ses[s] EXCEPT !.stage = "claimed", !.at = now]
<1>1. OwnInv(ses[s]) /\ SlotsOf(s, ses[s]) /\ ses[s].stage = "reading"
  BY DEF ApprovalInv, FinishRead, At, Observing
<1>2. /\ IsSession(r) /\ r.stage = "claimed"
      /\ r.request = ses[s].request /\ r.challenge = ses[s].challenge
      /\ r.token = ses[s].token /\ r.fresh = ses[s].fresh
      /\ r.intent = ses[s].intent /\ r.at = now
  BY <1>1 DEF OwnInv, IsSession, Fields
<1>3. now \in Nat /\ ses[s].challenge.issued <= now /\ now < ses[s].challenge.expires
  BY <1>1 DEF ApprovalInv, FinishRead, InWindow, OwnInv, Challenged
<1> HIDE DEF r
<1>4. OwnInv(r) /\ SlotsOf(s, r)
  BY <1>1, <1>2, <1>3 DEF OwnInv, SlotsOf, Requested, Challenged, Claimed, Consumed,
              Holding, Intended, Reserved, Observing
<1> QED
  BY <1>4, Moves DEF FinishRead, r

\* The executable is observed after the consumption, which stays as it is.
LEMMA ObserveExecutableInv ==
    ASSUME ApprovalInv, NEW s \in Sessions, ObserveExecutable(s) PROVE ApprovalInv'
<1> DEFINE r == [ses[s] EXCEPT !.token = [exec |-> world.exec, at |-> now]]
<1>1. OwnInv(ses[s]) /\ SlotsOf(s, ses[s]) /\ ses[s].stage \in {"claimed", "consumed"} /\ ses[s].fresh = Nothing
  BY DEF ApprovalInv, ObserveExecutable, At, Observing
<1>2. /\ IsSession(r) /\ r.stage = ses[s].stage
      /\ r.request = ses[s].request /\ r.challenge = ses[s].challenge
      /\ r.token = [exec |-> world.exec, at |-> now] /\ r.fresh = ses[s].fresh
      /\ r.intent = ses[s].intent /\ r.at = ses[s].at
  BY <1>1 DEF OwnInv, IsSession, Fields
<1>3. now \in Nat /\ r.token.at = now
  BY <1>2, ClockAssumption DEF ApprovalInv
<1> HIDE DEF r
<1>4. OwnInv(r) /\ SlotsOf(s, r)
  BY <1>1, <1>2, <1>3 DEF OwnInv, SlotsOf, Requested, Challenged, Claimed, Consumed,
              Holding, Intended, Reserved, Observing
<1> QED
  BY <1>4, Moves DEF ObserveExecutable, r

\* The fresh plan takes the observation's place.
LEMMA DeriveFreshInv ==
    ASSUME ApprovalInv, NEW s \in Sessions, DeriveFresh(s) PROVE ApprovalInv'
<1> DEFINE r == [ses[s] EXCEPT !.token = Nothing, !.fresh = [plan |-> Plan(ses[s].token.exec, world.project, <<>>), at |-> ses[s].token.at]]
<1>1. OwnInv(ses[s]) /\ SlotsOf(s, ses[s]) /\ ses[s].stage \in {"claimed", "consumed"}
  BY DEF ApprovalInv, DeriveFresh, At, Observing
<1>2. /\ IsSession(r) /\ r.stage = ses[s].stage
      /\ r.request = ses[s].request /\ r.challenge = ses[s].challenge
      /\ r.token = Nothing /\ r.fresh = [plan |-> Plan(ses[s].token.exec, world.project, <<>>), at |-> ses[s].token.at]
      /\ r.intent = ses[s].intent /\ r.at = ses[s].at
  BY <1>1 DEF OwnInv, IsSession, Fields
<1>3. ses[s].token.at \in Nat /\ r.fresh.at = ses[s].token.at
  BY <1>1, <1>2 DEF OwnInv, Observing, DeriveFresh
<1> HIDE DEF r
<1>4. OwnInv(r) /\ SlotsOf(s, r)
  BY <1>1, <1>2, <1>3 DEF OwnInv, SlotsOf, Requested, Challenged, Claimed, Consumed,
              Holding, Intended, Reserved, Observing
<1> QED
  BY <1>4, Moves DEF DeriveFresh, r

\* Sealing compares the fresh plan with the plan that was shown.
LEMMA SealInv ==
    ASSUME ApprovalInv, NEW s \in Sessions, Seal(s) PROVE ApprovalInv'
<1> DEFINE r == [ses[s] EXCEPT !.stage = "sealed", !.at = now]
<1>1. OwnInv(ses[s]) /\ SlotsOf(s, ses[s]) /\ ses[s].stage = "consumed" /\ ses[s].fresh # Nothing
  BY DEF ApprovalInv, Seal, At, Observing
<1>2. /\ IsSession(r) /\ r.stage = "sealed"
      /\ r.request = ses[s].request /\ r.challenge = ses[s].challenge
      /\ r.token = ses[s].token /\ r.fresh = ses[s].fresh
      /\ r.intent = ses[s].intent /\ r.at = now
  BY <1>1 DEF OwnInv, IsSession, Fields
<1>3. /\ now \in Nat /\ ses[s].challenge.issued <= now /\ now < ses[s].challenge.expires
      /\ ses[s].fresh.plan = ses[s].request.plan
  <2>1. now \in Nat /\ ses[s].at \in Nat /\ ses[s].challenge.issued \in Nat
    BY <1>1, ClockAssumption DEF ApprovalInv, OwnInv, Challenged, Claimed, Consumed
  <2>2. ses[s].challenge.issued <= ses[s].at
    BY <1>1 DEF OwnInv, Claimed, Consumed
  <2>6. ses[s].fresh.at \in Nat
    BY <1>1 DEF OwnInv, Observing
  <2>3. now >= ses[s].fresh.at /\ ses[s].fresh.at >= ses[s].at /\ now < ses[s].challenge.expires
    BY DEF Seal
  <2>4. RequestIsCurrent(ses[s].request, ses[s].fresh.plan, now)
    BY <1>1 DEF Seal, Preflight, OwnInv, Challenged, Claimed, Consumed
  <2>5. ses[s].request.plan = ses[s].fresh.plan
    BY <2>4 DEF RequestIsCurrent, ApprovalRequest
  <2> QED
    BY <2>1, <2>2, <2>3, <2>5, <2>6
<1> HIDE DEF r
<1>4. OwnInv(r) /\ SlotsOf(s, r)
  BY <1>1, <1>2, <1>3 DEF OwnInv, SlotsOf, Requested, Challenged, Claimed, Consumed,
              Holding, Intended, Reserved, Observing
<1> QED
  BY <1>4, Moves DEF Seal, r

\* A grant carries over what was sealed.
LEMMA GrantInv ==
    ASSUME ApprovalInv, NEW s \in Sessions, Grant(s) PROVE ApprovalInv'
<1> DEFINE r == [ses[s] EXCEPT !.stage = "granted", !.at = now]
<1>1. OwnInv(ses[s]) /\ SlotsOf(s, ses[s]) /\ ses[s].stage = "sealed"
  BY DEF ApprovalInv, Grant, At, Observing
<1>2. /\ IsSession(r) /\ r.stage = "granted"
      /\ r.request = ses[s].request /\ r.challenge = ses[s].challenge
      /\ r.token = ses[s].token /\ r.fresh = ses[s].fresh
      /\ r.intent = ses[s].intent /\ r.at = now
  BY <1>1 DEF OwnInv, IsSession, Fields
<1>3. now \in Nat /\ ses[s].challenge.issued <= now /\ now < ses[s].challenge.expires
  BY <1>1, ClockAssumption
  DEF ApprovalInv, Grant, InOrder, OwnInv, Challenged, Claimed, Consumed, Holding
<1> HIDE DEF r
<1>4. OwnInv(r) /\ SlotsOf(s, r)
  BY <1>1, <1>2, <1>3 DEF OwnInv, SlotsOf, Requested, Challenged, Claimed, Consumed,
              Holding, Intended, Reserved, Observing
<1> QED
  BY <1>4, Moves DEF Grant, r

\* A reservation that is made durable keeps its slot, in time or not.
LEMMA SyncReservationInv ==
    ASSUME ApprovalInv, NEW s \in Sessions, SyncReservation(s) PROVE ApprovalInv'
<1> DEFINE r == [ses[s] EXCEPT !.stage = "reserved"]
<1>1. OwnInv(ses[s]) /\ SlotsOf(s, ses[s]) /\ ses[s].stage = "enduring"
  BY DEF ApprovalInv, SyncReservation, At, Observing
<1>2. /\ IsSession(r) /\ r.stage = "reserved"
      /\ r.request = ses[s].request /\ r.challenge = ses[s].challenge
      /\ r.token = ses[s].token /\ r.fresh = ses[s].fresh
      /\ r.intent = ses[s].intent /\ r.at = ses[s].at
  BY <1>1 DEF OwnInv, IsSession, Fields
<1> HIDE DEF r
<1>4. OwnInv(r) /\ SlotsOf(s, r)
  BY <1>1, <1>2 DEF OwnInv, SlotsOf, Requested, Challenged, Claimed, Consumed,
              Holding, Intended, Reserved, Observing
<1> QED
  BY <1>4, Moves DEF SyncReservation, r

\* The assessment of the path leaves intent and slots alone.
LEMMA AssessPathInv ==
    ASSUME ApprovalInv, NEW s \in Sessions, AssessPath(s) PROVE ApprovalInv'
<1>1. PICK decision :
        Becomes(s, [ses[s] EXCEPT !.stage = "assessed", !.token = decision])
  BY DEF AssessPath
<1> DEFINE r == [ses[s] EXCEPT !.stage = "assessed", !.token = decision]
<1>2. OwnInv(ses[s]) /\ SlotsOf(s, ses[s]) /\ ses[s].stage \in {"reserved", "assessed"}
  BY DEF ApprovalInv, AssessPath
<1>3. /\ IsSession(r) /\ r.stage = "assessed"
      /\ r.request = ses[s].request /\ r.challenge = ses[s].challenge
      /\ r.fresh = ses[s].fresh /\ r.intent = ses[s].intent /\ r.at = ses[s].at
  BY <1>2 DEF OwnInv, IsSession, Fields
<1> HIDE DEF r
<1>4. OwnInv(r) /\ SlotsOf(s, r)
  BY <1>2, <1>3 DEF OwnInv, SlotsOf, Requested, Challenged, Claimed, Consumed,
              Holding, Intended, Reserved, Observing
<1> QED
  BY <1>1, <1>4, Moves DEF AssessPath, r

\* A launch intent names the challenge its attempt consumed.
LEMMA PrepareIntentInv ==
    ASSUME ApprovalInv, NEW s \in Sessions, PrepareIntent(s) PROVE ApprovalInv'
<1>1. PICK env \in Environments :
        Becomes(s, [ses[s] EXCEPT !.stage = "intended", !.at = now,
              !.intent = [challenge |-> ses[s].challenge, granted |-> ses[s].at,
                          env |-> env, prepared |-> now]])
  BY DEF PrepareIntent
<1> DEFINE i == [challenge |-> ses[s].challenge, granted |-> ses[s].at,
                 env |-> env, prepared |-> now]
           r == [ses[s] EXCEPT !.stage = "intended", !.at = now, !.intent = i]
<1>2. OwnInv(ses[s]) /\ SlotsOf(s, ses[s]) /\ ses[s].stage = "granted"
  BY DEF ApprovalInv, PrepareIntent, At
<1>3. now \in Nat /\ ses[s].challenge.issued <= now /\ now < ses[s].challenge.expires
  BY <1>2, ClockAssumption
  DEF ApprovalInv, PrepareIntent, InOrder, OwnInv, Challenged, Claimed, Consumed, Holding
<1>4. i.challenge = ses[s].challenge
  OBVIOUS
<1> HIDE DEF i
<1>5. /\ IsSession(r) /\ r.stage = "intended" /\ r.intent = i
      /\ r.request = ses[s].request /\ r.challenge = ses[s].challenge
      /\ r.fresh = ses[s].fresh /\ r.at = now
  BY <1>2 DEF OwnInv, IsSession, Fields
<1> HIDE DEF r
<1>6. OwnInv(r) /\ SlotsOf(s, r)
  BY <1>2, <1>3, <1>4, <1>5 DEF OwnInv, SlotsOf, Requested, Challenged, Claimed, Consumed,
              Holding, Intended, Reserved, Observing
<1> QED
  BY <1>1, <1>6, Moves DEF PrepareIntent, i, r

\* The slot of a challenge is made by create-new: its maker is the only one.
LEMMA ConsumeInv == ASSUME ApprovalInv, NEW s \in Sessions, Consume(s) PROVE ApprovalInv'
<1>0. PICK r, c : r = [ses[s] EXCEPT !.stage = "consumed", !.at = now] /\ c = ses[s].challenge
  OBVIOUS
<1>1. OwnInv(ses[s]) /\ SlotsOf(s, ses[s]) /\ ses[s].stage = "claimed"
  BY DEF ApprovalInv, Consume, At
<1>2. /\ IsSession(r) /\ r.stage = "consumed" /\ r.at = now
      /\ r.request = ses[s].request /\ r.challenge = c
      /\ r.token = ses[s].token /\ r.fresh = ses[s].fresh
  BY <1>0, <1>1 DEF OwnInv, IsSession, Fields
<1>3. now \in Nat /\ c.issued <= now /\ now < c.expires
  BY <1>0, <1>1, ClockAssumption DEF ApprovalInv, Consume, InOrder, OwnInv, Challenged, Claimed
<1>4. /\ ses' = [t \in Sessions |-> IF t = s THEN r ELSE ses[t]]
      /\ consumed' = consumed \cup {<<c, s>>}
      /\ UNCHANGED <<now, world, reserved, wire>>
      /\ \A t \in Sessions : <<c, t>> \notin consumed
  BY <1>0 DEF ApprovalInv, Consume, Becomes
<1>5. OwnInv(r) /\ SlotsOf(s, r)'
  BY <1>0, <1>1, <1>2, <1>3, <1>4 DEF OwnInv, SlotsOf, Requested, Challenged, Claimed, Consumed,
              Holding, Intended, Reserved, Observing
<1>6. ASSUME NEW t \in Sessions PROVE OwnInv(ses[t])' /\ SlotsOf(t, ses[t])'
  <2>1. CASE t = s
    BY <1>4, <1>5, <2>1 DEF OwnInv, SlotsOf
  <2>2. CASE t # s
    BY <1>4, <2>2 DEF ApprovalInv, OwnInv, SlotsOf
  <2> QED
    BY <2>1, <2>2
<1>7. Slots'
  <2>1. \A p \in (consumed \cup reserved)' : p = <<p[1], p[2]>> /\ p[2] \in Sessions
    BY <1>4 DEF ApprovalInv, Slots
  <2>2. \A d, t, u : <<d, t>> \in consumed' /\ <<d, u>> \in consumed' => t = u
    <3>1. \A d, t : <<d, t>> \in consumed => t \in Sessions
      BY DEF ApprovalInv, Slots
    <3> QED
      BY <1>4, <3>1 DEF ApprovalInv, Slots
  <2> QED
    BY <1>4, <2>1, <2>2 DEF ApprovalInv, Slots
<1>8. ses' = [t \in Sessions |-> ses'[t]]
  BY <1>4
<1> QED
  BY <1>4, <1>6, <1>7, <1>8 DEF ApprovalInv

\* The slot of an intent is made by create-new, and its attempt consumed the
\* challenge before.
LEMMA ReserveInv == ASSUME ApprovalInv, NEW s \in Sessions, Reserve(s) PROVE ApprovalInv'
<1>0. PICK r, i : r = [ses[s] EXCEPT !.stage = "enduring", !.at = now] /\ i = ses[s].intent
  OBVIOUS
<1>1. OwnInv(ses[s]) /\ SlotsOf(s, ses[s]) /\ ses[s].stage = "intended"
  BY DEF ApprovalInv, Reserve, At
<1>2. /\ IsSession(r) /\ r.stage = "enduring" /\ r.at = now
      /\ r.request = ses[s].request /\ r.challenge = ses[s].challenge
      /\ r.intent = i /\ r.fresh = ses[s].fresh
  BY <1>0, <1>1 DEF OwnInv, IsSession, Fields
<1>3. now \in Nat /\ ses[s].challenge.issued <= now /\ now < ses[s].challenge.expires
  BY <1>1, ClockAssumption
  DEF ApprovalInv, Reserve, InOrder, OwnInv, Challenged, Claimed, Consumed, Holding
<1>4. /\ ses' = [t \in Sessions |-> IF t = s THEN r ELSE ses[t]]
      /\ reserved' = reserved \cup {<<i, s>>}
      /\ UNCHANGED <<now, world, consumed, wire>>
  BY <1>0 DEF ApprovalInv, Reserve, Becomes
<1>5. /\ <<i.challenge, s>> \in consumed
      /\ \A j : <<j, s>> \notin reserved
  BY <1>0, <1>1 DEF OwnInv, SlotsOf, Intended, Consumed, Holding, Reserved
<1>6. OwnInv(r) /\ SlotsOf(s, r)'
  BY <1>0, <1>1, <1>2, <1>3, <1>4, <1>5 DEF OwnInv, SlotsOf, Requested, Challenged, Claimed,
              Consumed, Holding, Intended, Reserved, Observing
<1>7. ASSUME NEW t \in Sessions PROVE OwnInv(ses[t])' /\ SlotsOf(t, ses[t])'
  <2>1. CASE t = s
    BY <1>4, <1>6, <2>1 DEF OwnInv, SlotsOf
  <2>2. CASE t # s
    BY <1>4, <2>2 DEF ApprovalInv, OwnInv, SlotsOf
  <2> QED
    BY <2>1, <2>2
<1>8. Slots'
  BY <1>4, <1>5 DEF ApprovalInv, Slots
<1>9. ses' = [t \in Sessions |-> ses'[t]]
  BY <1>4
<1> QED
  BY <1>4, <1>7, <1>8, <1>9 DEF ApprovalInv

\* The clock, the world and the wire.
LEMMA OutsideInv ==
    ASSUME ApprovalInv, Tick \/ SetBack \/ Drift \/ (\E s \in Sessions : Send(s))
    PROVE  ApprovalInv'
<1>1. UNCHANGED <<ses, consumed, reserved>>
  BY DEF Tick, SetBack, Drift, Send
<1>2. now' \in 1..MaxClock
  <2>1. CASE Tick
    BY <2>1, ClockAssumption DEF ApprovalInv, Tick
  <2>2. CASE SetBack
    BY <2>2, ClockAssumption DEF ApprovalInv, SetBack
  <2>3. CASE Drift \/ \E s \in Sessions : Send(s)
    BY <2>3 DEF ApprovalInv, Drift, Send
  <2> QED
    BY <2>1, <2>2, <2>3
<1>3. /\ world'.exec \in Executables /\ world'.project \in Projects
      /\ world' = [f \in DOMAIN world' |-> world'[f]]
      /\ {"exec", "project", "terminal", "drifts"} = DOMAIN world'
  BY DEF ApprovalInv, Tick, SetBack, Drift, Send
<1> QED
  BY <1>1, <1>2, <1>3 DEF ApprovalInv, OwnInv, SlotsOf, Slots

\* Every step of the specification preserves the invariant.
LEMMA NextInv == ApprovalInv /\ [Next]_vars => ApprovalInv'
<1> SUFFICES ASSUME ApprovalInv, [Next]_vars PROVE ApprovalInv'
  OBVIOUS
<1>1. CASE UNCHANGED vars
  BY <1>1 DEF ApprovalInv, OwnInv, SlotsOf, Slots, vars
<1>2. ASSUME NEW s \in Sessions, SessionStep(s) PROVE ApprovalInv'
  BY <1>2, StopInv, AskInv, ReadyForApprovalInv, PreparePresentationInv, PresentInv,
     StartReadInv, FinishReadInv, ConsumeInv, ObserveExecutableInv, DeriveFreshInv, SealInv,
     GrantInv, PrepareIntentInv, ReserveInv, SyncReservationInv, AssessPathInv, OutsideInv
  DEF SessionStep
<1> QED
  BY <1>1, <1>2, OutsideInv DEF Next

\* A step of one session leaves the others as they are.
LEMMA OtherSessions ==
    ASSUME ApprovalInv, NEW s \in Sessions, NEW t \in Sessions, t # s, SessionStep(t)
    PROVE  ses'[s] = ses[s]
<1>1. (\E r : Becomes(t, r)) \/ UNCHANGED ses
  BY DEF SessionStep, Ask, ReadyForApproval, PreparePresentation, Present, StartRead,
     FinishRead, Consume, ObserveExecutable, DeriveFresh, Seal, Grant, PrepareIntent, Reserve,
     SyncReservation, AssessPath, Send, Stop
<1> QED
  BY <1>1 DEF Becomes, ApprovalInv

-----------------------------------------------------------------------------
(* The theorems.                                                           *)

\* The invariant above: what every stage of an attempt has behind it and which
\* slots of the two registries are its own.
THEOREM ApprovalInvariant == Spec => []ApprovalInv
<1> QED
  BY InitInv, NextInv, PTL DEF Spec

\* Tokens are used up: the executable observation of an attempt exists once, and
\* a stopped attempt holds nothing (every token type is moved, not borrowed).
THEOREM ApprovalTypes == Spec => []TypeOK
<1>1. ApprovalInv => TypeOK
  BY DEF ApprovalInv, OwnInv, Slots, TypeOK
<1> QED
  BY <1>1, ApprovalInvariant, PTL

\* An attempt that holds a sealed candidate runs the plan that was shown, in the
\* life of its request, and alone answered its challenge.
THEOREM AuthorityIsWhatWasApproved == Spec => []AuthorityMatchesApproval
<1>1. ASSUME ApprovalInv, NEW s \in Sessions, ses[s].stage \in Holding
      PROVE  {t \in Sessions : <<ses[s].challenge, t>> \in consumed} = {s}
  <2>1. <<ses[s].challenge, s>> \in consumed
    BY <1>1 DEF ApprovalInv, SlotsOf, Consumed
  <2>2. ASSUME NEW t, <<ses[s].challenge, t>> \in consumed PROVE t = s
    <3>1. \A c, u, v : <<c, u>> \in consumed /\ <<c, v>> \in consumed => u = v
      BY <1>1 DEF ApprovalInv, Slots
    <3> QED
      BY <2>1, <2>2, <3>1, Zenon
  <2> QED
    BY <2>1, <2>2
<1>2. ApprovalInv => AuthorityMatchesApproval
  BY <1>1 DEF ApprovalInv, OwnInv, AuthorityMatchesApproval, Requested, Challenged, Claimed,
              Consumed
<1> QED
  BY <1>2, ApprovalInvariant, PTL

-----------------------------------------------------------------------------
(* The ledger.                                                             *)

\* The pairs the ledger is shown.
Launched == {<<p[1].challenge, p[2]>> : p \in reserved}

\* Consuming a response is the ledger's granting, or a stutter.
LEMMA ConsumeIsLedgerStep ==
    ASSUME ApprovalInv, NEW s \in Sessions, Consume(s) PROVE Ledger!Next
<1> DEFINE pair == <<ses[s].challenge, s>>
<1>1. consumed' = consumed \cup {pair} /\ reserved' = reserved
  BY DEF Consume
<1>2. \A t \in Sessions : <<pair[1], t>> \notin consumed
  BY DEF Consume
<1>3. Ledger!Consume(pair)
  BY <1>1, <1>2 DEF Ledger!Consume
<1> QED
  BY <1>1, <1>3 DEF Ledger!Next

\* The intent is new for its challenge: whoever had a slot for that challenge
\* would have consumed it, and only this session did.
LEMMA ReserveIsLedgerStep ==
    ASSUME ApprovalInv, NEW s \in Sessions, Reserve(s) PROVE Ledger!Next
<1>0. PICK pair : pair = <<ses[s].challenge, s>>
  OBVIOUS
<1>1. OwnInv(ses[s]) /\ SlotsOf(s, ses[s]) /\ ses[s].stage = "intended" /\ Slots
  BY DEF ApprovalInv, Reserve, At
<1>2. ses[s].intent.challenge = ses[s].challenge
  BY <1>1 DEF OwnInv, Intended
<1>3. consumed' = consumed /\ reserved' = reserved \cup {<<ses[s].intent, s>>}
  BY DEF Reserve
<1>4. Launched' = Launched \cup {pair}
  <2>1. PICK i : i = ses[s].intent
    OBVIOUS
  <2>2. Launched' = {<<p[1].challenge, p[2]>> : p \in reserved \cup {<<i, s>>}}
    BY <1>3, <2>1 DEF Launched
  <2>3. <<<<i, s>>[1].challenge, <<i, s>>[2]>> = pair
    BY <1>0, <1>2, <2>1
  <2> QED
    BY <2>2, <2>3 DEF Launched
<1>5. pair \in consumed
  BY <1>0, <1>1 DEF SlotsOf, Consumed, Holding
<1>6. ASSUME NEW t \in Sessions, <<pair[1], t>> \in Launched PROVE FALSE
  <2>1. PICK p \in reserved : <<pair[1], t>> = <<p[1].challenge, p[2]>>
    BY <1>6 DEF Launched
  <2>2. p = <<p[1], t>> /\ p[1].challenge = pair[1]
    BY <1>1, <2>1 DEF Slots
  <2>3. <<pair[1], t>> \in consumed
    BY <1>1, <2>1, <2>2 DEF Slots
  <2>4. t = s
    BY <1>0, <1>1, <1>5, <2>3 DEF Slots
  <2> QED
    BY <1>1, <2>1, <2>2, <2>4 DEF SlotsOf, Reserved
<1>7. Ledger!Launch(pair)
  BY <1>3, <1>4, <1>5, <1>6 DEF Ledger!Launch, Launched
<1>8. pair \in Launched'
  BY <1>4
<1> QED
  BY <1>7, <1>8 DEF Ledger!Next, Launched

\* Single use: at most one attempt consumes a challenge, and at most one launch,
\* by that attempt, is reserved for it, whatever fails, restarts or drifts.
THEOREM ApprovalIsSingleUse == Spec => KeepsPromise
<1>1. Init => Ledger!Init
  BY DEF Init, Ledger!Init
<1>2. ApprovalInv /\ [Next]_vars => [Ledger!Next]_<<consumed, Launched>>
  <2> SUFFICES ASSUME ApprovalInv, [Next]_vars
               PROVE  Ledger!Next \/ (UNCHANGED <<consumed, Launched>>)
    OBVIOUS
  <2>1. CASE UNCHANGED vars
    BY <2>1 DEF vars, Launched
  <2>2. CASE Tick \/ SetBack \/ Drift
    BY <2>2 DEF Tick, SetBack, Drift, Launched
  <2>3. ASSUME NEW s \in Sessions, SessionStep(s), ~Consume(s), ~Reserve(s)
        PROVE  UNCHANGED <<consumed, Launched>>
    BY <2>3 DEF SessionStep, Ask, ReadyForApproval, PreparePresentation, Present, StartRead,
       FinishRead, ObserveExecutable, DeriveFresh, Seal, Grant, PrepareIntent, SyncReservation,
       AssessPath, Send, Stop, Others, Launched
  <2> QED
    BY <2>1, <2>2, <2>3, ConsumeIsLedgerStep, ReserveIsLedgerStep DEF Next
<1> QED
  BY <1>1, <1>2, ApprovalInvariant, PTL DEF Spec, KeepsPromise, Ledger!Spec, Launched

-----------------------------------------------------------------------------
(* The wire.                                                               *)

\* The fields of an envelope, by their places.
LEMMA FieldPlaces ==
    ASSUME NEW r, r.lineage = [i \in 1..6 |-> r.lineage[i]]
    PROVE  LET v == FieldValues(r)
           IN  /\ Len(v) = 21 /\ \A i \in 1..3 : v[i] = FixedFields[i]
               /\ v[4] = r.peer.signing /\ v[5] = r.peer.team /\ v[6] = r.peer.code
               /\ v[7] = r.peer.euid /\ v[8] = r.peer.audit
               /\ v[9] = r.principal.uid /\ v[10] = r.principal.gid
               /\ v[11] = r.principal.groups
               /\ \A i \in 1..6 : v[11 + i] = r.lineage[i]
               /\ v[18] = r.nonce /\ v[19] = r.issued /\ v[20] = r.expires /\ v[21] = r
<1> DEFINE P == <<r.peer.signing, r.peer.team, r.peer.code, r.peer.euid, r.peer.audit>>
           Q == <<r.principal.uid, r.principal.gid, r.principal.groups>>
           T == <<r.nonce, r.issued, r.expires, r>>
           S == {r.lineage[i] : i \in 1..6} \cup {FixedFields[i] : i \in 1..3} \cup {P[i] : i \in 1..5}
                  \cup {Q[i] : i \in 1..3} \cup {T[i] : i \in 1..4}
<1>1. FixedFields \in Seq(S) /\ Len(FixedFields) = 3
  BY DEF FixedFields
<1>2. P \in Seq(S) /\ Len(P) = 5
  OBVIOUS
<1>3. Q \in Seq(S) /\ Len(Q) = 3
  OBVIOUS
<1>4. r.lineage \in Seq(S) /\ Len(r.lineage) = 6
  <2>1. \A i \in 1..6 : r.lineage[i] \in S
    OBVIOUS
  <2> HIDE DEF S
  <2> QED
    BY <2>1
<1>5. T \in Seq(S) /\ Len(T) = 4
  OBVIOUS
<1>6. /\ P[1] = r.peer.signing /\ P[2] = r.peer.team /\ P[3] = r.peer.code
      /\ P[4] = r.peer.euid /\ P[5] = r.peer.audit
      /\ Q[1] = r.principal.uid /\ Q[2] = r.principal.gid /\ Q[3] = r.principal.groups
      /\ T[1] = r.nonce /\ T[2] = r.issued /\ T[3] = r.expires /\ T[4] = r
  OBVIOUS
<1>7. FieldValues(r) = (((FixedFields \o P) \o Q) \o r.lineage) \o T
  BY DEF FieldValues
<1> HIDE DEF P, Q, S, T
<1> DEFINE a == FixedFields \o P
           b == a \o Q
           c == b \o r.lineage
           d == c \o T
<1>11. /\ a \in Seq(S) /\ Len(a) = 8 /\ \A i \in 1..3 : a[i] = FixedFields[i]
       /\ \A i \in 1..5 : a[3 + i] = P[i]
  <2>1. PICK m \in Nat, n \in Nat : m = 3 /\ n = 5
    OBVIOUS
  <2>2. FixedFields \in Seq(S) /\ P \in Seq(S) /\ Len(FixedFields) = m /\ Len(P) = n
    BY <1>1, <1>2, <2>1
  <2>3. /\ a \in Seq(S) /\ Len(a) = m + n
        /\ \A i \in 1..m : a[i] = FixedFields[i]
        /\ \A i \in 1..n : a[m + i] = P[i]
    BY <2>2, SMTT(20)
  <2> HIDE DEF a
  <2> QED
    BY <2>1, <2>3
<1> HIDE DEF a
<1>12. /\ b \in Seq(S) /\ Len(b) = 11 /\ \A i \in 1..8 : b[i] = a[i]
       /\ \A i \in 1..3 : b[8 + i] = Q[i]
  <2>1. PICK m \in Nat, n \in Nat : m = 8 /\ n = 3
    OBVIOUS
  <2>2. a \in Seq(S) /\ Q \in Seq(S) /\ Len(a) = m /\ Len(Q) = n
    BY <1>3, <1>11, <2>1
  <2>3. /\ b \in Seq(S) /\ Len(b) = m + n
        /\ \A i \in 1..m : b[i] = a[i]
        /\ \A i \in 1..n : b[m + i] = Q[i]
    BY <2>2
  <2> HIDE DEF b
  <2> QED
    BY <2>1, <2>3
<1> HIDE DEF b
<1>13. /\ c \in Seq(S) /\ Len(c) = 17 /\ \A i \in 1..11 : c[i] = b[i]
       /\ \A i \in 1..6 : c[11 + i] = r.lineage[i]
  <2>1. PICK m \in Nat, n \in Nat : m = 11 /\ n = 6
    OBVIOUS
  <2>2. b \in Seq(S) /\ r.lineage \in Seq(S) /\ Len(b) = m /\ Len(r.lineage) = n
    BY <1>4, <1>12, <2>1
  <2>3. /\ c \in Seq(S) /\ Len(c) = m + n
        /\ \A i \in 1..m : c[i] = b[i]
        /\ \A i \in 1..n : c[m + i] = r.lineage[i]
    BY <2>2, SMTT(20)
  <2> HIDE DEF c
  <2> QED
    BY <2>1, <2>3
<1> HIDE DEF c
<1>14. /\ d \in Seq(S) /\ Len(d) = 21 /\ \A i \in 1..17 : d[i] = c[i]
       /\ \A i \in 1..4 : d[17 + i] = T[i]
  <2>1. PICK m \in Nat, n \in Nat : m = 17 /\ n = 4
    OBVIOUS
  <2>2. c \in Seq(S) /\ T \in Seq(S) /\ Len(c) = m /\ Len(T) = n
    BY <1>5, <1>13, <2>1
  <2>3. /\ d \in Seq(S) /\ Len(d) = m + n
        /\ \A i \in 1..m : d[i] = c[i]
        /\ \A i \in 1..n : d[m + i] = T[i]
    BY <2>2
  <2> HIDE DEF d
  <2> QED
    BY <2>1, <2>3
<1> HIDE DEF d
<1>15. FieldValues(r) = d
  BY <1>7 DEF a, b, c, d
<1> HIDE DEF d
<1>16. \A i \in 1..17 : d[i] = c[i]
  BY <1>14
<1>17. \A i \in 1..11 : d[i] = b[i]
  <2> SUFFICES ASSUME NEW i \in 1..11 PROVE d[i] = b[i]
    OBVIOUS
  <2>1. i \in 1..17
    OBVIOUS
  <2> QED
    BY <1>13, <1>16, <2>1
<1>18. \A i \in 1..8 : d[i] = a[i]
  <2> SUFFICES ASSUME NEW i \in 1..8 PROVE d[i] = a[i]
    OBVIOUS
  <2>1. i \in 1..11
    OBVIOUS
  <2> QED
    BY <1>12, <1>17, <2>1
<1>19. \A i \in 1..3 : d[i] = FixedFields[i]
  <2> SUFFICES ASSUME NEW i \in 1..3 PROVE d[i] = FixedFields[i]
    OBVIOUS
  <2>1. i \in 1..8
    OBVIOUS
  <2> QED
    BY <1>11, <1>18, <2>1
<1>20. d[4] = P[1] /\ d[5] = P[2] /\ d[6] = P[3] /\ d[7] = P[4] /\ d[8] = P[5]
  <2>1. a[4] = P[1] /\ a[5] = P[2] /\ a[6] = P[3] /\ a[7] = P[4] /\ a[8] = P[5]
    BY <1>11
  <2> QED
    BY <1>18, <2>1
<1>21. d[9] = Q[1] /\ d[10] = Q[2] /\ d[11] = Q[3]
  <2>1. b[9] = Q[1] /\ b[10] = Q[2] /\ b[11] = Q[3]
    BY <1>12
  <2> QED
    BY <1>17, <2>1
<1>22. \A i \in 1..6 : d[11 + i] = r.lineage[i]
  <2> SUFFICES ASSUME NEW i \in 1..6 PROVE d[11 + i] = r.lineage[i]
    OBVIOUS
  <2>1. 11 + i \in 1..17
    OBVIOUS
  <2> QED
    BY <1>13, <1>16, <2>1
<1>23. d[18] = T[1] /\ d[19] = T[2] /\ d[20] = T[3] /\ d[21] = T[4]
  BY <1>14
<1> QED
  BY <1>6, <1>14, <1>15, <1>19, <1>20, <1>21, <1>22, <1>23
\* What is parsed, by the places of an envelope.
LEMMA ParsedPlaces ==
    ASSUME NEW w
    PROVE  Parsed(w) =
             [peer |-> [signing |-> w.fields[4][2], team |-> w.fields[5][2],
                        code |-> w.fields[6][2], euid |-> w.fields[7][2],
                        audit |-> w.fields[8][2]],
              principal |-> [uid |-> w.fields[9][2], gid |-> w.fields[10][2],
                             groups |-> w.fields[11][2]],
              lineage |-> [i \in 1..6 |-> w.fields[11 + i][2]], nonce |-> w.fields[18][2],
              issued |-> w.fields[19][2], expires |-> w.fields[20][2]]
<1> DEFINE v == [i \in 1..21 |-> w.fields[i][2]]
<1>1. SubSeq(v, 12, 17) = [i \in 1..6 |-> v[11 + i]]
  <2>1. v \in Seq({v[i] : i \in 1..21}) /\ Len(v) = 21
    OBVIOUS
  <2> HIDE DEF v
  <2>2. /\ SubSeq(v, 12, 17) \in Seq({v[i] : i \in 1..21}) /\ Len(SubSeq(v, 12, 17)) = 6
        /\ \A i \in 1..6 : SubSeq(v, 12, 17)[i] = v[11 + i]
    BY <2>1
  <2> QED
    BY <2>2
<1>2. \A i \in 1..6 : v[11 + i] = w.fields[11 + i][2]
  OBVIOUS
<1> QED
  BY <1>1, <1>2 DEF Parsed

\* A valid request is decoded as it was encoded.
LEMMA DecodesWhatIsEncoded ==
    ASSUME NEW s \in Sessions, CoordinatorRequestIsValid(CoordinatorRequest(s))
    PROVE  Decode(Encode(CoordinatorRequest(s))) = CoordinatorRequest(s)
<1> DEFINE r == CoordinatorRequest(s)
           e == Encode(r)
<1>1. r.lineage = [i \in 1..6 |-> <<i, s>>]
  BY DEF CoordinatorRequest, Lineage
<1>2. r.lineage = [i \in 1..6 |-> r.lineage[i]]
  BY <1>1
<1>3. r = [peer |-> [signing |-> r.peer.signing, team |-> r.peer.team, code |-> r.peer.code,
                     euid |-> r.peer.euid, audit |-> r.peer.audit],
           principal |-> [uid |-> r.principal.uid, gid |-> r.principal.gid,
                          groups |-> r.principal.groups],
           lineage |-> [i \in 1..6 |-> r.lineage[i]], nonce |-> r.nonce,
           issued |-> r.issued, expires |-> r.expires]
  <2>1. /\ r = [peer |-> r.peer, principal |-> r.principal, lineage |-> r.lineage,
                 nonce |-> r.nonce, issued |-> r.issued, expires |-> r.expires]
        /\ r.principal = [uid |-> 501, gid |-> 20, groups |-> <<12, 61>>]
    BY DEF CoordinatorRequest
  <2>2. PICK identifier, team :
          r.peer = [signing |-> identifier, team |-> team, code |-> <<7, s>>, euid |-> 501,
                    audit |-> 1]
    BY DEF CoordinatorRequest
  <2> HIDE DEF r
  <2>3. r.peer = [signing |-> r.peer.signing, team |-> r.peer.team, code |-> r.peer.code,
                  euid |-> r.peer.euid, audit |-> r.peer.audit]
    BY <2>2
  <2>4. r.principal = [uid |-> r.principal.uid, gid |-> r.principal.gid,
                       groups |-> r.principal.groups]
    BY <2>1
  <2>5. r.lineage = [i \in 1..6 |-> r.lineage[i]]
    BY <1>1
  <2> QED
    BY <2>1, <2>3, <2>4, <2>5
<1> HIDE DEF r
<1>4. /\ e.magic = "v1" /\ e.count = 21 /\ Len(e.fields) = 21
      /\ \A i \in 1..21 : e.fields[i] = <<i, FieldValues(r)[i]>>
  BY DEF Encode
<1>5. IsFramed(e)
  BY <1>4 DEF IsFramed, Encode
<1> HIDE DEF e
<1>6. PICK v : /\ \A i \in 1..21 : e.fields[i][2] = v[i]
               /\ v = FieldValues(r)
  BY <1>4
<1>10. /\ \A i \in 1..3 : v[i] = FixedFields[i]
       /\ v[4] = r.peer.signing /\ v[5] = r.peer.team /\ v[6] = r.peer.code
       /\ v[7] = r.peer.euid /\ v[8] = r.peer.audit
       /\ v[9] = r.principal.uid /\ v[10] = r.principal.gid
       /\ v[11] = r.principal.groups
       /\ \A i \in 1..6 : v[11 + i] = r.lineage[i]
       /\ v[18] = r.nonce /\ v[19] = r.issued /\ v[20] = r.expires /\ v[21] = r
  BY <1>2, <1>6, FieldPlaces
<1>7. \A i \in 1..3 : e.fields[i][2] = FixedFields[i]
  BY <1>6, <1>10
<1>8. Parsed(e) = r /\ e.fields[21][2] = r
  <2>1. /\ e.fields[4][2] = r.peer.signing /\ e.fields[5][2] = r.peer.team
        /\ e.fields[6][2] = r.peer.code /\ e.fields[7][2] = r.peer.euid
        /\ e.fields[8][2] = r.peer.audit /\ e.fields[9][2] = r.principal.uid
        /\ e.fields[10][2] = r.principal.gid /\ e.fields[11][2] = r.principal.groups
        /\ e.fields[18][2] = r.nonce /\ e.fields[19][2] = r.issued
        /\ e.fields[20][2] = r.expires /\ e.fields[21][2] = r
    BY <1>6, <1>10
  <2>2. \A i \in 1..6 : e.fields[11 + i][2] = r.lineage[i]
    <3> SUFFICES ASSUME NEW i \in 1..6 PROVE e.fields[11 + i][2] = r.lineage[i]
      OBVIOUS
    <3>1. 11 + i \in 1..21
      OBVIOUS
    <3> QED
      BY <1>6, <1>10, <3>1
  <2>3. [i \in 1..6 |-> e.fields[11 + i][2]] = r.lineage
    BY <1>3, <2>2
  <2>4. Parsed(e) = [peer |-> r.peer, principal |-> r.principal, lineage |-> r.lineage,
                     nonce |-> r.nonce, issued |-> r.issued, expires |-> r.expires]
    BY <1>3, <2>1, <2>3, ParsedPlaces
  <2> QED
    BY <1>3, <2>1, <2>4
<1> QED
  BY <1>5, <1>7, <1>8 DEF Decode, r, e
\* Whatever a transport makes of it is refused.
LEMMA RefusesWhatIsDamaged ==
    ASSUME NEW s \in Sessions, ses[s].at \in Nat,
           NEW w \in Damaged(Encode(CoordinatorRequest(s)))
    PROVE  Decode(w) = NoRequest
<1> DEFINE r == CoordinatorRequest(s)
           e == Encode(r)
<1>1. /\ r.lineage = [i \in 1..6 |-> <<i, s>>] /\ r.peer.euid = 501
      /\ r.principal.gid = 20
      /\ r.expires \in Nat /\ r.expires - 1 # r.expires
  BY LifeAssumption DEF CoordinatorRequest, Lineage
<1>2. r.lineage = [i \in 1..6 |-> r.lineage[i]]
  BY <1>1
<1> HIDE DEF r
<1>3. PICK v : /\ v = FieldValues(r)
               /\ e = [magic |-> "v1", count |-> 21, fields |-> [i \in 1..21 |-> <<i, v[i]>>]]
  BY DEF Encode
<1>4. v[12] = <<1, s>> /\ v[13] = <<2, s>> /\ v[20] = r.expires /\ v[21] = r
  <2>1. v[11 + 1] = r.lineage[1] /\ v[11 + 2] = r.lineage[2]
    BY <1>2, <1>3, FieldPlaces
  <2>2. v[20] = r.expires /\ v[21] = r
    BY <1>2, <1>3, FieldPlaces
  <2> QED
    BY <1>1, <2>1, <2>2
<1> HIDE DEF e
<1>5. DOMAIN e.fields = 1..21 /\ e.count = 21 /\ \A i \in 1..21 : e.fields[i] = <<i, v[i]>>
  BY <1>3
<1>6. e.fields \in Seq({<<i, v[i]>> : i \in 1..21}) /\ Len(e.fields) = 21
  BY <1>3
<1>7. CASE w = [e EXCEPT !.fields = SubSeq(e.fields, 1, 20)]
  <2>1. Len(SubSeq(e.fields, 1, 20)) = 20
    BY <1>6
  <2>2. Len(w.fields) # 21
    BY <1>3, <1>7, <2>1
  <2> QED
    BY <2>2 DEF Decode, IsFramed
<1>8. CASE w = [e EXCEPT !.fields = Append(e.fields, e.fields[1])]
  <2>1. Len(Append(e.fields, e.fields[1])) = 22
    <3>1. ASSUME NEW S, NEW f \in Seq(S), NEW x \in S PROVE Len(Append(f, x)) = Len(f) + 1
      OBVIOUS
    <3>2. e.fields[1] \in {<<i, v[i]>> : i \in 1..21}
      <4>1. 1 \in 1..21 /\ e.fields[1] = <<1, v[1]>>
        BY <1>5
      <4> QED
        BY <4>1, Zenon
    <3>3. Len(Append(e.fields, e.fields[1])) = Len(e.fields) + 1
      BY <1>6, <3>1, <3>2
    <3> QED
      BY <1>6, <3>3
  <2>2. Len(w.fields) # 21
    BY <1>3, <1>8, <2>1
  <2> QED
    BY <2>2 DEF Decode, IsFramed
<1>9. CASE w = [e EXCEPT !.fields[12] = e.fields[13], !.fields[13] = e.fields[12]]
  <2>1. w.fields[12] = e.fields[13]
    BY <1>3, <1>5, <1>9
  <2>2. w.fields[12][1] # 12
    BY <1>5, <2>1
  <2> QED
    BY <2>2 DEF Decode, IsFramed
<1>10. CASE w = [e EXCEPT !.fields[12][2] = e.fields[13][2]]
  <2>1. w.fields[12][2] = <<2, s>> /\ w.fields[21][2] = r
    BY <1>3, <1>4, <1>5, <1>10
  <2>2. Parsed(w).lineage[1] = <<2, s>>
    <3>1. Parsed(w).lineage = [i \in 1..6 |-> w.fields[11 + i][2]]
      BY ParsedPlaces
    <3>2. w.fields[11 + 1][2] = <<2, s>>
      BY <2>1
    <3> QED
      BY <3>1, <3>2
  <2>3. Parsed(w) # r
    BY <1>1, <2>2
  <2> QED
    BY <2>1, <2>3 DEF Decode
<1>11. CASE w = [e EXCEPT !.fields[7][2] = 0, !.fields[9][2] = 0]
  <2>1. w.fields[7][2] = 0
    BY <1>3, <1>5, <1>11
  <2>2. Parsed(w).peer.euid = 0
    BY <2>1, ParsedPlaces
  <2> QED
    BY <2>2 DEF Decode, CoordinatorRequestIsValid, PeerIsValid
<1>12. CASE w = [e EXCEPT !.fields[11][2] = <<61, 12>>]
  <2>1. w.fields[11][2] = <<61, 12>>
    BY <1>3, <1>5, <1>12
  <2>2. Parsed(w).principal.groups = <<61, 12>>
    BY <2>1, ParsedPlaces
  <2>3. ~PrincipalIsValid(Parsed(w).principal)
    BY <2>2 DEF PrincipalIsValid
  <2> QED
    BY <2>3 DEF Decode, CoordinatorRequestIsValid
<1>13. CASE w = [e EXCEPT !.fields[10][2] = 21]
  <2>1. w.fields[10][2] = 21 /\ w.fields[21][2] = r
    BY <1>3, <1>4, <1>5, <1>13
  <2>2. Parsed(w).principal.gid = 21
    BY <2>1, ParsedPlaces
  <2> QED
    BY <1>1, <2>1, <2>2 DEF Decode
<1>14. CASE w = [e EXCEPT !.fields[20][2] = r.expires - 1]
  <2>1. w.fields[20][2] = r.expires - 1 /\ w.fields[21][2] = r
    BY <1>3, <1>4, <1>5, <1>14
  <2>2. Parsed(w).expires = r.expires - 1
    BY <2>1, ParsedPlaces
  <2> QED
    BY <1>1, <2>1, <2>2 DEF Decode
<1>15. CASE w = [e EXCEPT !.count = 20]
  <2>1. w.count = 20
    BY <1>3, <1>15
  <2> QED
    BY <2>1 DEF Decode, IsFramed
<1>16. e.fields[20][2] = r.expires
  BY <1>4, <1>5
<1> QED
  BY <1>7, <1>8, <1>9, <1>10, <1>11, <1>12, <1>13, <1>14, <1>15, <1>16 DEF Damaged, e, r

\* The coordinator accepts what was sent, or nothing, whatever the transport
\* made of the envelope.
THEOREM WireStaysFaithful == Spec => []WireIsFaithful
<1>1. Init => WireIsFaithful
  BY DEF Init, WireIsFaithful
<1>2. ASSUME ApprovalInv, WireIsFaithful, NEW s \in Sessions, Send(s) PROVE WireIsFaithful'
  <2> DEFINE r == CoordinatorRequest(s)
  <2>1. CoordinatorRequestIsValid(r) /\ ses[s].at \in Nat
    BY <1>2 DEF Send, At, ApprovalInv, OwnInv, Claimed, Consumed, Holding
  <2>2. PICK w \in {Encode(r)} \cup Damaged(Encode(r)) :
          wire' = [sent |-> r, damaged |-> w # Encode(r), accepted |-> Decode(w)]
    BY <1>2 DEF Send
  <2>3. wire'.sent = r /\ wire'.damaged = (w # Encode(r)) /\ wire'.accepted = Decode(w)
    BY <2>2
  <2>4. CASE w = Encode(r)
    BY <2>1, <2>3, <2>4, DecodesWhatIsEncoded DEF WireIsFaithful
  <2>5. CASE w # Encode(r)
    BY <2>1, <2>2, <2>3, <2>5, RefusesWhatIsDamaged DEF WireIsFaithful
  <2> QED
    BY <2>4, <2>5
<1>3. ASSUME WireIsFaithful, UNCHANGED wire PROVE WireIsFaithful'
  BY <1>3 DEF WireIsFaithful
<1>4. ASSUME ApprovalInv, WireIsFaithful, [Next]_vars PROVE WireIsFaithful'
  <2>1. ASSUME NEW s \in Sessions, SessionStep(s), ~Send(s) PROVE UNCHANGED wire
    BY <2>1 DEF SessionStep, Ask, ReadyForApproval, PreparePresentation, Present, StartRead,
       FinishRead, Consume, ObserveExecutable, DeriveFresh, Seal, Grant, PrepareIntent,
       Reserve, SyncReservation, AssessPath, Stop, Others
  <2>2. (UNCHANGED vars) \/ Tick \/ SetBack \/ Drift => UNCHANGED wire
    BY DEF vars, Tick, SetBack, Drift
  <2> QED
    BY <1>2, <1>3, <1>4, <2>1, <2>2 DEF Next
<1> QED
  BY <1>1, <1>4, ApprovalInvariant, PTL DEF Spec

=============================================================================
