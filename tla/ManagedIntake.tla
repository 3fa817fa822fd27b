---------------------------- MODULE ManagedIntake ----------------------------
(***************************************************************************)
(* Reading a project that an editor may be changing.                       *)
(*                                                                         *)
(*  "intake"  prepare_managed_intake_v1 and commit_managed_intake_v1: a    *)
(*            snapshot (tree digest, documents, declaration, tree digest), *)
(*            a second one that must equal it, and the tree digest that    *)
(*            the adoption takes                                           *)
(*  "bound"   read_provider_pair, then read_project_input against the pair *)
(*  "dryRun"  dry_run_external_adoption_v1: one snapshot, whose declaration *)
(*            is left to Lake                                              *)
(*  "closure" load_registered_git_closure: the pair, then the manifest,    *)
(*            read without any check                                       *)
(*                                                                         *)
(* A read is a program: a sequence of steps, of which each either goes on  *)
(* or refuses.  Reading a file stably is a step in two halves, between     *)
(* which the identity of the file (device, inode, mode, size, times) must  *)
(* not change.  The editor gives every file it writes an identity that was *)
(* not there before, but may put an earlier text back, and a file that is  *)
(* moved or copied here may keep its time of modification.                 *)
(***************************************************************************)
EXTENDS ProjectDocuments

CONSTANTS
    Texts,        \* for every document, the texts it may have
    Starts,       \* the texts of all documents to start from
    Managed,      \* TOOLCHAIN, the toolchain of managed projects
    OldTimes,     \* times of modification of files that lie elsewhere
    MaxEdits      \* edits while the program runs

Documents == {"toolchain", "manifest", "override", "config", "links",
              "registry", "providerOverride"}
Timed == {"toolchain", "manifest", "override"}  \* the times a snapshot keeps
Tree == <<"manifest", "config", "toolchain">>   \* .lake is left out of the tree

ASSUME TextsAreGiven == DOMAIN Texts = Documents
ASSUME StartsAreTexts ==
    \A s \in Starts : /\ s = [d \in Documents |-> s[d]]
                      /\ \A d \in Documents : s[d] \in Texts[d]
ASSUME EditsAreBounded == MaxEdits \in Nat
ASSUME TimesAreNumbers == OldTimes \subseteq Nat

VARIABLES
    mode,         \* which program runs
    text, stamp,  \* of every document: what it says, the identity of its file
    modified,     \* of every document: the time of modification of its file
    edits,        \* edits so far
    line,         \* the step of the program it is at
    held,         \* the file that is open, identities taken at the collection
    seen,         \* [slot, document -> text and identity], and digests of trees
    plan,         \* the snapshot that was planned
    outcome,      \* "running", "refused" or "accepted"
    moments,      \* history: what the documents said since the read began
    restored,     \* history: documents that went back to what they said since then
    aged          \* history: documents replaced since then by a file with an older time

history == <<moments, restored, aged>>
files == <<text, stamp, modified>>
vars == <<mode, files, edits, line, held, seen, plan, outcome, history>>

-----------------------------------------------------------------------------
(* Programs.                                                               *)

Do(action, document, slot) == [do |-> action, doc |-> document, slot |-> slot]
Decision(action) == Do(action, "", "")

\* read_stable_text
ReadStable(document, slot) == Do("read", document, slot)

\* hash_project_input_tree
HashTree(slot) ==
    LET All(action) == [i \in DOMAIN Tree |-> Do(action, Tree[i], slot)]
    IN  All("collect") \o All("hash") \o All("verify")

ReadAll(slot) ==
    <<ReadStable("toolchain", slot), ReadStable("manifest", slot),
      ReadStable("override", slot), Do("resolve", "links", slot)>>

ReadProjectInput ==
    ReadAll("first") \o <<Decision("classify")>> \o ReadAll("again") \o <<Decision("compare")>>

ReadProviderPair ==
    <<ReadStable("registry", "first"), ReadStable("providerOverride", "first"),
      Do("resolve", "links", "pair"), Decision("match"),
      ReadStable("registry", "again"), ReadStable("providerOverride", "again"),
      Decision("comparePair")>>

Snapshot ==
    HashTree("before") \o ReadProjectInput
    \o <<ReadStable("config", "first"), Decision("declare")>>
    \o HashTree("after") \o <<Decision("snapshot")>>

Intake ==
    Snapshot \o <<Decision("plan")>> \o Snapshot \o <<Decision("confirm")>>
    \o HashTree("adopt") \o <<Decision("adopt")>>

DryRun ==
    HashTree("before") \o ReadProjectInput
    \o <<Decision("toolchain"), ReadStable("config", "first")>>
    \o HashTree("after") \o <<Decision("snapshot")>>

RegisteredClosure ==
    ReadProviderPair \o <<Do("readPlain", "manifest", "first"), Decision("register")>>

BoundRead == ReadProviderPair \o ReadProjectInput

Program ==
    [intake |-> Intake, dryRun |-> DryRun, closure |-> RegisteredClosure,
     bound |-> BoundRead]

-----------------------------------------------------------------------------
(* What has been read.                                                     *)

At(slot, d) == seen[<<slot, d>>].text
Digest(slot) == [i \in DOMAIN Tree |-> At(slot, Tree[i])]

\* read_provider_pair
Pair ==
    [registry |-> At("first", "registry"), override |-> At("first", "providerOverride"),
     packages |-> ProviderPackages(At("first", "registry"), At("first", "providerOverride"),
                                   At("pair", "links"))]
Provider == IF mode = "bound" THEN <<Pair>> ELSE <<>>

\* read_project_input
Input ==
    [state |-> Classify(At("first", "manifest"), At("first", "override"), Provider),
     toolchain |-> At("first", "toolchain"), manifest |-> At("first", "manifest"),
     override |-> At("first", "override"),
     paths |-> PathPackages(At("first", "manifest"), At("first", "links"))]

\* IntakeSnapshotV1, as far as it is compared: StableTextFile has the time of
\* modification of a file and nothing else of its identity.
IntakeSnapshot ==
    [tree |-> Digest("before"), input |-> Input,
     files |-> [d \in Timed |->
                  IF At("first", d) = Nothing THEN Nothing ELSE seen[<<"first", d>>].modified],
     declaration |-> Declaration(At("first", "config"))]

DecodedInput(slot) ==
    /\ At(slot, "toolchain") \in Toolchains
    /\ ManifestIsValid(At(slot, "manifest"))
    /\ At(slot, "override") = Nothing \/ OverrideIsValid(At(slot, "override"))
    /\ PathPackages(At(slot, "manifest"), At(slot, "links")) # Nothing

DecodedPair(slot) ==
    RegistryIsValid(At(slot, "registry")) /\ OverrideIsValid(At(slot, "providerOverride"))

\* A mistake to be caught: the toolchain is not compared again.
ToolchainMayChange ==
    /\ \A d \in {"manifest", "override"} : At("again", d) = At("first", d)
    /\ PathPackages(At("again", "manifest"), At("again", "links")) = Input.paths

InputIsUnchanged ==
    /\ \A d \in {"toolchain", "manifest", "override"} : At("again", d) = At("first", d)
    /\ PathPackages(At("again", "manifest"), At("again", "links")) = Input.paths

PairIsUnchanged ==
    \A d \in {"registry", "providerOverride"} : At("again", d) = At("first", d)

\* A mistake to be caught: only the tree is compared with the plan.
OnlyTreeIsConfirmed == Digest("before") = plan.tree

IsConfirmed == IntakeSnapshot = plan

\* The condition under which a step that reads nothing goes on.
Holds(action) ==
    CASE action = "classify"    -> DecodedInput("first") /\ Input.state # Nothing
      [] action = "compare"     -> DecodedInput("again") /\ InputIsUnchanged
      [] action = "match"       -> DecodedPair("first") /\ Pair.packages # Nothing
      [] action = "comparePair" -> DecodedPair("again") /\ PairIsUnchanged
      [] action = "declare"     -> Declaration(At("first", "config")) # Nothing
      [] action = "snapshot"    -> Digest("before") = Digest("after")
      [] action = "plan"        -> /\ Input.toolchain = Managed
                                   /\ DependenciesAreSupported(IntakeSnapshot.declaration, Input)
      [] action = "toolchain"   -> Input.toolchain = Managed
      [] action = "confirm"     -> IsConfirmed
      [] action = "adopt"       -> Digest("adopt") = plan.tree
      [] action = "register"    -> IsRegisteredClosure(At("first", "manifest"), Pair.packages)

-----------------------------------------------------------------------------
Init ==
    /\ mode \in DOMAIN Program
    /\ text \in Starts
    /\ stamp = [d \in Documents |-> 0]
    /\ modified = [d \in Documents |-> 0]
    /\ edits = 0
    /\ line = 1
    /\ held = <<>>
    /\ seen = <<>>
    /\ plan = Nothing
    /\ outcome = "running"
    /\ moments = {text}
    /\ restored = {}
    /\ aged = {}

\* The editor writes, creates, removes or replaces a document.  A file that is
\* written has a new time; one that is moved here, or copied with its time, has
\* the one it had, which only an intake can tell.
Edit(d) ==
    /\ outcome = "running" /\ edits < MaxEdits
    /\ \E t \in Texts[d] \ {text[d]} : text' = [text EXCEPT ![d] = t]
    /\ edits' = edits + 1
    /\ stamp' = [stamp EXCEPT ![d] = edits']
    /\ \E time \in {edits'} \cup {old \in OldTimes : /\ old < edits'
                                                    /\ mode = "intake" /\ d \in Timed} :
          /\ modified' = [modified EXCEPT ![d] = time]
          /\ aged' = IF time # edits' THEN aged \cup {d} ELSE aged
    /\ moments' = moments \cup {text'}
    /\ restored' = IF \E m \in moments : m[d] = text'[d] THEN restored \cup {d} ELSE restored
    /\ UNCHANGED <<mode, line, held, seen, plan, outcome>>

Now == Program[mode][line]
Next1(action) == outcome = "running" /\ Now.do = action
Here == Now.doc
Slot == <<Now.slot, Now.doc>>
GoOn ==
    /\ line' = line + 1
    /\ outcome' = IF line = Len(Program[mode]) THEN "accepted" ELSE outcome
Refuse == outcome' = "refused" /\ UNCHANGED line
Advance(condition) == IF condition THEN GoOn ELSE Refuse
Set(f, key, value) == [k \in DOMAIN f \cup {key} |-> IF k = key THEN value ELSE f[k]]
IsOpen == "file" \in DOMAIN held
Current(d) == [stamp |-> stamp[d], text |-> text[d], modified |-> modified[d]]

\* Opening a file: only the override may be absent.
Open ==
    /\ Next1("read") \/ Next1("readPlain")
    /\ ~IsOpen
    /\ held' = Set(held, "file", Current(Here))
    /\ IF text[Here] # Nothing \/ Here = "override" THEN UNCHANGED <<line, outcome>> ELSE Refuse
    /\ UNCHANGED <<mode, files, edits, seen, plan, history>>

\* The file is read; its identity must be the one it was opened with.
Close ==
    /\ Next1("read") /\ IsOpen
    /\ seen' = Set(seen, Slot, held.file)
    /\ held' = <<>>
    /\ Advance(held.file.text = Nothing \/ stamp[Here] = held.file.stamp)
    /\ UNCHANGED <<mode, files, edits, plan, history>>

\* A read without a check: of a file changed underneath, either text may be had.
Plain ==
    /\ Next1("readPlain") /\ IsOpen
    /\ \E t \in {held.file.text, text[Here]} :
          seen' = Set(seen, Slot, [held.file EXCEPT !.text = t])
    /\ held' = <<>>
    /\ Advance(seen'[Slot].text # Nothing)
    /\ UNCHANGED <<mode, files, edits, plan, history>>

\* resolve_path_packages, canonicalize_contained; of several packages one by one,
\* which is one step for a project with one path package
Resolve ==
    /\ Next1("resolve")
    /\ seen' = Set(seen, Slot, Current(Here))
    /\ GoOn
    /\ UNCHANGED <<mode, files, edits, held, plan, history>>

\* collect_entries
Collect ==
    /\ Next1("collect")
    /\ held' = Set(held, Here, stamp[Here])
    /\ Advance(text[Here] # Nothing)
    /\ UNCHANGED <<mode, files, edits, seen, plan, history>>

\* hash_stable_file
HashEntry ==
    /\ Next1("hash")
    /\ seen' = Set(seen, Slot, Current(Here))
    /\ Advance(stamp[Here] = held[Here])
    /\ UNCHANGED <<mode, files, edits, held, plan, history>>

\* verify_entries_unchanged
VerifyEntry ==
    /\ Next1("verify")
    /\ held' = [d \in DOMAIN held \ {Here} |-> held[d]]
    /\ Advance(stamp[Here] = held[Here])
    /\ UNCHANGED <<mode, files, edits, seen, plan, history>>

\* The plan is shown and confirmed (the registry, which may not hold a missing
\* project, and the copy of the fixture are left out): what has been read is read again.
Plan ==
    /\ Next1("plan")
    /\ Advance(Holds("plan"))
    /\ plan' = IntakeSnapshot
    /\ seen' = <<>>
    /\ moments' = {text}
    /\ restored' = {}
    /\ aged' = {}
    /\ UNCHANGED <<mode, files, edits, held>>

\* A step that compares what has been read.
Decide(action) ==
    /\ Next1(action)
    /\ Advance(Holds(action))
    /\ UNCHANGED <<mode, files, edits, held, seen, plan, history>>

Next ==
    \/ \E d \in Documents : Edit(d)
    \/ Open \/ Close \/ Plain \/ Resolve
    \/ Collect \/ HashEntry \/ VerifyEntry
    \/ Plan
    \/ \E action \in {"classify", "compare", "match", "comparePair", "declare", "snapshot",
                      "toolchain", "confirm", "adopt", "register"} : Decide(action)

Spec == Init /\ [][Next]_vars

-----------------------------------------------------------------------------
\* An intake that is committed was there: the tree that is adopted existed at one
\* instant after the confirmation, and with it the toolchain, the manifest and the
\* override (if there is one) that were planned, unless the editor has replaced
\* them since then by a file with an older time: those existed at some instant.
\* So did a configuration that declares what was planned.  Each document is read
\* by itself, the override is outside the tree, and the editor may put a text
\* back between two reads.
CommittedIntakeExisted ==
    mode = "intake" /\ outcome = "accepted" =>
        /\ \E m \in moments :
              /\ plan.tree = [i \in DOMAIN Tree |-> m[Tree[i]]]
              /\ \A d \in Timed \ aged : plan.input[d] \in {Nothing, m[d]}
        /\ \A d \in Timed : \E m \in moments : plan.input[d] = m[d]
        /\ \E m \in moments : Declaration(m.config) = plan.declaration
        /\ plan.input.toolchain = Managed

\* A provider pair that is accepted was there at one instant, unless the editor
\* took both documents back to what they had said before, and so were the documents
\* of a project input that is accepted, unless it took one of them back: texts are
\* compared, not files.  From an accepted input its identity can be derived.
AcceptedInputIsASnapshot ==
    outcome = "accepted" =>
        /\ mode \in {"bound", "closure"} /\ ~({"registry", "providerOverride"} \subseteq restored) =>
              \E m \in moments : /\ Pair.registry = m.registry
                                 /\ Pair.override = m.providerOverride
        /\ mode \in {"bound", "dryRun"} /\ {"toolchain", "manifest", "override"} \cap restored = {} =>
              \E m \in moments : /\ Input.toolchain = m.toolchain
                                 /\ Input.manifest = m.manifest
                                 /\ Input.override = m.override
                                 /\ Input.paths = PathPackages(m.manifest, m.links)
        /\ mode \in {"bound", "dryRun"} =>
              HasIdentity(Input, IF Input.state = "ProviderBound" THEN Provider ELSE <<>>)
=============================================================================
