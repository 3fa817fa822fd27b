# LeanBun: a TLA+ model and its proofs

LeanBun manages the dependencies of Lean projects: it resolves a project's
packages, keeps their sources in an immutable store, assembles *generations*
(a complete, sealed set of package sources with a lock and a manifest), makes
one generation of a project active, and builds the project against it. Nearly
everything it knows is in files; its processes are short-lived and may be
killed anywhere. What is hard is the order of file operations of several
processes, what a crash between two of them leaves behind, and documents that
change between two reads; and, where an algorithm decides (resolution,
projections, archives), whether its result depends on more than it should.

## Inventory

Paths are below `src/rust/crates/` unless they start with `src/src/`.

| part | state | operations | hard behaviour | correct when |
|---|---|---|---|---|
| active-generation manager (`leanbun-generation`) | `project.lock`, `transactions/*.record`, `generations/*/`, `active.record`, `.active-*.tmp`, `retained.record` | `publish`, `recover`, `rollback_active_generation`, verification | crash between any two file operations; recover runs without the lock; read-check-replace of records | one commit point; active is complete; final records stay final; recovery settles |
| managed-project controller (`leanbun-managed/src/lib.rs`, `execution.rs`) | `registry/<project>.record`, `operation.lock`, the user's sources | `adopt`, `update`, `recover`, `rollback`, `build`, `run` | write-ahead of the pending mark; adopt without the lease; sources edited between reads | record follows the manager; pending settles; a build sees one generation |
| registry, intake, references (`registry.rs`, `intake.rs`, `references.rs`, `registered.rs`) | reads the two above; `package-references/*` | status classification, intake, reference publication | documents read one by one while an editor works; classification of what crashed calls left | what is accepted existed at one instant; a build never spoils a healthy project |
| immutable store (`leanbun-store/src/store.rs`, `model.rs`) | objects, source records, slots, leases; an in-process task table | `fetch_and_publish`, `verify_object_for_request` | threads and processes race for one source; cancellation; rename conflicts; a full table; sealing that fails after publication | one runner per task; an object is published once and stays; a record names an object; drift fails closed; every call ends |
| fetch and archives (`fetch.rs`, `archive.rs`) | one slot directory | fetch, extract, walk, materialize | two archives of one tree; collisions; limits | a tree does not depend on how its archive was made |
| build (`leanbun-build`) | package objects, key leases, child processes | restore, publish, supervise | bytes that a key does not decide; crash between rename and seal; TERM against exit | references name sealed objects with those bytes; the group is reaped |
| resolver, lock, companion (`leanbun-resolver`, `leanbun-lock`) | none; the active lock and companion are inputs | resolution, canonical text, Reservoir policy | order of traversal, stale pins, versions that move | coherent and order-independent; a lock replays; updates are targeted |
| Lake bridge (`leanbun-lake-bridge`) | none | declarations, path decisions, projections | lists joined by position or by key | what is written describes the lock |
| plan and update contract (`leanbun-plan`, `leanbun-inventory-legacy`) | none | inventory, drift, plan, request, preflight | stale observations | a plan binds what it read |
| approval on macOS (`leanbun-approval-macos`) | consumption slots, reservation slots | request, challenge, consume, fresh plan, seal, grant, reserve | crash and retry between durable steps, drift while a person is asked, clock | the plan that is reserved was shown, in time, once |
| evidence (`leanbun-evidence`) | none | stable reads, tree hashes, project and provider documents | files that change while they are read | a snapshot is one |
| TypeScript (`src/src`) | execution records, build lock, bindings | inspection, controlled build, recovery | interrupted executions | not modelled |
| core, codec, state, ACL binding | none | identities, canonical JSON | none | not modelled |

**How they interact.** The controller holds the operation lease (except in
`adopt`), models the sources through resolver, lock and store, and calls the
manager; the manager knows nothing of the controller. Intake reads the project
and hands it to `adopt`. The registry classifies what controller and manager
left on disk. `build` verifies the active generation through the manager,
restores and publishes package objects that all projects share, runs Lake under
the supervisor while it holds the lease, and writes the references of the
generation. The approval of a Lake command reads evidence, makes a plan twice
and meets the other parts only through the file system. The Reservoir policy is
called by no production path yet, only by `reservoir_regression.rs`, whose
order of calls `Resolution` follows.

## Modules

| module | models | uses |
|---|---|---|
| `ActiveGeneration` | what the manager promises: one register with Commit, Abort, Restore | - |
| `GenerationManager`, `GenerationManagerInv` | `manager.rs`: every file operation of `publish`, `recover`, `rollback_active_generation`; its inductive invariant | `ActiveGeneration` (as `Promise`) |
| `ManagedProject` | `leanbun-managed/src/lib.rs`: the commands, the record, the lease, the user's edits, over the manager's own steps | extends `GenerationManager` |
| `SourceAuthority` | what the store promises of keyed requests | - |
| `ImmutableStore` | `store.rs`: the task table, the lease, publication and verification by threads of several processes | `SourceAuthority` (as `Promise`) |
| `NormalizedTree` | `archive.rs`: archives and directories as trees | - |
| `PackageLock`, `LockText` | packages, candidates and locks; the text of a lock | - |
| `ReservoirBinding` | bindings, companion documents, the policy | extends `LockText` |
| `GenerationInputs` | provenance, path decisions, projections, the generation and its text | extends `ReservoirBinding` |
| `Resolution` | the resolver, and what is made of its graph up to an accepted generation | extends `GenerationInputs` |
| `LakePlan` | inventory, drift, plan, request, preflight | - |
| `CoordinatorWire` | the coordinator request and its bytes | - |
| `ApprovalLedger` | what an approval promises: one consumption, one launch, by the same attempt | - |
| `LakeApproval` | the life of an approved command in several attempts | extends `LakePlan`, `CoordinatorWire`; `ApprovalLedger` (as `Ledger`) |
| `ProjectDocuments` | what the documents of a project and a provider say and how they are compared | - |
| `ManagedIntake` | four programs that read them while an editor works | extends `ProjectDocuments` |
| `ManagedRegistry` | status classification, package keys, references | - |
| `ManagedBuild` | builds of several projects over one package store | extends `ManagedRegistry` |
| `SupervisedProcess` | timeout, TERM, KILL, reaping | - |
| `ManagedProjectInv` | the inductive invariants of `ManagedProject` | extends `ManagedProject` |
| `GenerationManager_proofs` | theorems about the manager, with and without overlapping recoveries | extends `GenerationManagerInv` |
| `ManagedProject_proofs` | theorems about the controller | `ManagedProjectInv`, and those of the manager by refinement |
| `ImmutableStore_proofs` | theorems about the store | extends `ImmutableStore` |
| `LakeApproval_proofs`, `ManagedBuild_proofs`, `ManagedIntake_proofs`, `Resolution_proofs`, `NormalizedTree_proofs` | theorems about the module before the underscore | that module |
| `MC*` | small instances; `MCStoreTrees` puts `NormalizedTree` beside the store | |

A definition under the comment "A mistake to be caught" is a version of the
next definition with a plausible bug; nothing uses it, and it shows that a
property of the runs would notice the bug.

### GenerationManager

State: one variable per kind of file, plus each process's control point
(`pc`), arguments (`call`) and what it has read (`work`). One action is one
file operation: a read, a create-new, the write of the bytes of a new file, an
atomic replacement, a rename, a removal. A call is a path through the control
points; `AfterRecord` says where it goes on after a record was written.
Correspondence: `AcquireLock`/`WriteLock` are `acquire_lock` over
`create_synced_new`; `CheckLock`/`RemoveLock` are `release_lock_if_owned`;
`CheckTransition`/`ReplaceRecord`/`ConfirmRecord` are `transition` over
`atomic_replace`; `CreateDirectory`/`FillDirectory` are
`materialize_generation`; `CreateTemp`/`RenameTemp`/`RereadActive` are
`publish_active`; the rest carries the name of its function.

Abstractions, and why they are sound for the properties stated:

- A generation is its transaction and an abstract content. Its identity in the
  code is a hash of both, so equality of identities is equality of these.
- What `materialize_generation` writes into a directory nobody else reads or
  writes before it is verified is one step, `FillDirectory`. A crash or error inside it is one at
  control point `fill`: the directory is `partial`.
- A record created new is first visible empty (`Torn`); a replaced record is
  never seen half written.
- Every file operation is synced before the next one begins, so a power
  failure leaves what a crash at that or an earlier step leaves.
- A generation has at least one package, so it has edges in `retained.record`.
- `verify_active_generation` followed by `verify_published_generation` is one
  step: both read files that no step of another call changes once they hold,
  except the active record, which is read first and again under the lock.

A call that ends with an error leaves the disk as a crash at the same point
does, except a rollback, whose closure first tries to release the lock
(`Refuse`, `GiveUp`, `DiscardLock`).

### ManagedProject

A command is `cmd[p]`: its operation, its control point, the copy of the
managed record it read, the transaction id it drew, what it has read of the
sources and the content it built from that. While it is at `calling`, the
manager's `Step(p)` runs; when the manager's call has ended, `CallReturned`
continues or quits. The lease is dropped by process exit. A command that is
refused at its start changes nothing and is not modelled as a step.

The sources are a configuration file (which `DeclaredBy` gives its
declaration), what pins the toolchain and the packages, and the packages
themselves. They are read in steps of their own, and `EditSource` comes between
any two: `Declare` parses the declaration (`lib.rs:829`), `HashConfig` hashes
the configuration for the lock (`:838`), `Compare` hashes it again with the
pins for the management input and compares that with the record (`:839`,
`:1595`), and the packages are read last, when the generation is built
(`Modelled`). An adoption has its declaration and its input from before its
reservation, when it may have read any sources. The three files of one
management input are read in one step: no other reading is compared with it, so
which of its files an edit falls between makes no difference to what is built.

### ImmutableStore

State: the four directories of the store as the path's state per tree or key
(`object`, `source`), the holder of each flock (`lease`) and the owners of the
directories in `slots/`; the task table of each opened store (`task`); and per
thread its control point, its request, its token, the result it is about to
report and the answer of its last call. An `Instance` is one opened
`LeanImmutableStoreV1` in a process of its own, `Host` says which one a thread
uses, and `Crash(i)` kills that process: leases and the table go, slots stay
(they become `Orphan`'s).

One action is a section under the table's mutex (`Lead`, `Join`, `RefuseTask`,
`Settle`), one system call others can see (`AcquireSourceLease`,
`RenameObject`, `RenameRecord`, ...), or one walk over an object
(`VerifyExistingObject`). `fetch_and_publish` is `Lead` followed by the path
lookup, slot, fetch, materialize, rename, seal, record, renameRecord, cleanup,
release, settle, or `Join` followed by `WaitForTerminal`;
`verify_object_for_request` is `VerifyOnly` followed by the same verification
steps. `Conclude` is every `return` and `?` inside `execute`: it goes through
`cleanup_slot` if there is a slot, drops the lease and reports to the table,
in the order in which Rust drops `_lease` before `fetch_and_publish` takes the
task's mutex.

Abstractions: what a slot holds is read and written by its runner only. An
object is absent, `open` (renamed, still writable), `sealed` or `drifted`;
a digest is the thing it is a digest of, so two objects of one tree agree and
`StoreObjectConflict` cannot occur. `fetch_and_plan` yields the tree the
request names or fails, as it compares the digest itself. A wait on the
condition variable is a wait for its condition, looked at again every 25 ms.
`stale` in a call is history for `DriftIsRefused`: its object or its record was
damaged before the call came to verify it, whether when it began or while it
waited for the lease, looked up, fetched or lost the rename.

### PackageLock, LockText, ReservoirBinding, GenerationInputs, Resolution

`Resolution` is one process: `Request` is `LeanResolutionRequestV1::new`,
`Shadow`, `Select` and `NextParent` are the loop of
`resolve_lean_dependencies_v1` (the *last* declared requirement is taken
first, since the code pops a vector, then packages breadth first), `Finish` is
`validate_cycles_and_depth` and `validate_mode_result`, `Fetch` is
`fetch_and_publish` for every package (packages with one source get the object
of whichever task ran), and `Assemble` is everything the controller's `model()`
and `generation()` check before a generation is accepted. The active lock, its
companion document and the candidates it was made from stay for the next
request. The operators under it are the pure parts: `LockError` is
`validate_graph`, `LockText`/`ReadLock` are the canonical lines and the parser,
`Evaluate` is the Reservoir policy, `DecisionSetMatches`, `ManifestEntries` and
`RuntimeEntries` are the bridge, `MetadataText`/`ReadMetadata` the generation's
own file. A text is a sequence of lines, a line a tuple of its fields; how a
field is escaped is left out, how lines are ordered, counted and compared is
not. A digest is the value it is a digest of.

### LakePlan, CoordinatorWire, LakeApproval, ApprovalLedger

One session is one attempt to get one command approved and reserved; its
`stage` says which token it holds. Tokens are moved from call to call in Rust,
so a refusal, an error or a crash loses them (`Stop`), and only the files of
the two registries survive: `consumed` and `reserved` are the sets of slots
with the session that made each. `Consume` and `SyncReservation` are the
create-new of a slot and what follows it. `Drift` lets executable, documents
and terminal change, also back; the clock goes forward in steps and is set
back at most `MaxDrift` times. `LakePlan` is what is planned from an inventory
and the documents, `CoordinatorWire` how a request is encoded, decoded and
rebuilt, with what a channel may do to the bytes.

### ProjectDocuments, ManagedIntake

`ManagedIntake` runs one of four programs (`Program`): intake with plan and
commit, the dry run, the provider-bound read and the registered closure. A
program is a sequence of reads, comparisons and decisions in the order of the
calls in the code; a stable read is a step in two halves (open; read and look
again), a tree hash a walk, a hash per entry and a second look. Between any two
of them `Edit` may give a document another text, also one it had before, in a file
that was not there before. That file has an identity of its own (`stamp`) and a
time of modification (`modified`): a new one, or, since a move or a copy may keep
it, an older one of `OldTimes`. A stable read and a walk of the tree compare
identities while they last; `StableTextFile`, and with it `IntakeSnapshot`, keeps
the time alone (`stable_file.rs:43`). An older time is only given to the documents
whose times are compared, in an intake. The links that
`resolve_path_packages` follows are one document, resolved in one step, where the
code goes from package to package (`project_input.rs:112`): this is exact for a
project with one path package, as the instance has, whose directory stays one.
`ProjectDocuments` says what the texts mean.

### ManagedRegistry, ManagedBuild, SupervisedProcess

`State(e)` is `inspect_registry_entry` for what is on disk of a project.
`ManagedBuild` lets builders of several projects go through
`prepare_managed_execution_v1`, the lease, the gate of
`build_expected_under_lease`, `restore_package_artifacts`,
`seed_registered_caches`, Lake, `publish_package_artifacts` (hash, copy,
lease, rename, seal, verify), `publish_generation_references_v1`, the program
and the second selection. What Lake leaves is any of `Makes`: compiled bytes
are *not* decided by a package's key, which is what makes publication hard. A
key leaves out the name of its package, as in the code, so that the object of a
source is shared by projects that name it differently. An
update of a project is two steps here; `ManagedProject` has its detail.
`SupervisedProcess` is `run_supervised_program_v1` and, with `Reasons =
{"Timeout"}`, `execute`, for one program that may leave a process in its group.

### NormalizedTree

One archive at a time: `ParseEntry` is one turn of the loop of `parse_tar` (its
entries come in any order, list directories or not, are links, headers of git's,
duplicates, files in the place of directories, reserved names), `ParseEnds` its
end or its early return, `WriteTree` is `materialize_tree` and
`make_tree_read_only`, `VerifyTree` is a later verification of the tree
(`plan_directory_excluding`), and `ToolsWork` is what Lake and git do in it
between verifications; `FetchAgain` is another call for an archive that was
refused. `WholeTree` and `IsAcceptable` say what an archive is
worth without speaking of an order. The run `store_sources` checks it beside the
store: the two do not touch each other's state, and in `MCStoreTrees` one moves
only while the other is as it began.

## What the runs check

| run | instance | shows |
|---|---|---|
| `manager_overlap` | 2 processes, 3 transactions, crashes and errors at every point, recoveries overlap other calls | lock exclusion, complete active record, final records, honest success, `KeepsPromise` |
| `project_commands` | 2 processes, 2 transactions, a configuration of two that is edited between any two readings; every command but rollback may crash anywhere | record, lease, input and manager agree; nothing built of edited sources becomes active; `ManagerDiscipline`: the controller uses the manager as `Spec` with `RecoverAlone` demands; retained edges are complete; a recovery settles |
| `project_recovery` | 2 processes, 3 transactions, fair | pending marks are cleared; a transaction whose record was begun gets a final record and leaves no lock; the previous generation stays restorable |
| `project_add_again` | one process that stops after it took the project lock | expected violation, see below |
| `store_sources` | two threads of one process and one of another, one source; every operation may fail, both processes may die at any point | types, one runner per task, no fetch over a record, `KeepsPromise` |
| (beside it) | every archive of up to 4 of 14 entries, a limit of 3 entries, the links of a registered provider | accepted or refused, and read as one tree, whatever the order; verified as that tree whatever tools leave |
| `store_shared` | a source and a path snapshot of one tree, a thread in each of two processes, one may die; object and record damaged at any time | one publication of a tree; every record has its object; drift fails closed |
| `store_live` | one source, three threads, no process dies, a fetch may never end | every call ends if fetches do; a cancelled wait ends |
| `resolution` | 3 packages, 15 candidates in 21 sets of metadata, 7 roots, locks made here and given, every mode | coherent acyclic graphs that do not depend on the order of declarations, replays, targeted updates, an object for each package although fetches share tasks, generations that describe one closure and read back |
| `approval` | 2 attempts at one command, 2 executables, 2 documents, 2 terminals, one change and a clock of 3 | what is reserved is what was shown, inside its windows, once; the wire is faithful |
| `evidence` | one package, two of each document, three edits anywhere, also with old times | what is accepted was on disk at one instant, but for documents put back or replaced by older files |
| `managed_build` | two projects that share a source under two names, one with a package above it, one crash, error, edit or update anywhere | references hold, builds keep projects healthy |
| `supervised_group` | one program, one more process of its group | expected violation, see below |

Every property of a passing run has a mutant in `PROJECT.json`: a definition
with a plausible bug under which the run finds the property violated.

Deadlock is checked where a system must always be able to go on. It is not in
`approval`, `evidence`, `managed_build` and `supervised_group`, where attempts,
a program, events or a process are used up and nothing is left to do.

**Bounds.** Two processes are enough for every race of two calls, and a lock
that excludes two callers is proved to exclude any number. Three transactions
allow an active, a previous and a pending one at once, and a fourth would be
another copy of one of the three; `project_commands` asks questions about one
transaction and one competitor. The user edits the configuration between two
texts with one declaration, which is what the two hashes and the record can
disagree about; other pins, declarations and packages, and edits in
`project_recovery`, are left to the proofs, which hold for any sources. Each transaction id is used once, which bounds every behaviour except
rollback, whose states repeat. Symmetry is used for processes, transactions,
sessions and contents, and in runs without liveness only. In the store, two
threads of one process meet at the table and a third in another process meets
them at the lease and the rename; more threads join as waiters or queue at the
lease like these. Questions about one source need one key, questions about a
shared object a second request for its tree that does not take the same lease.
`MaxRetainedTasks` is 1 or 2 instead of 10,000: it is reached in
`store_shared`, where two tasks compete for one place. In `resolution` three
packages are the least for a cycle, a diamond, a shadow and a path longer than
the limit, `MaxDepth` is 2 instead of 10,000 so that a graph can be too deep,
and the candidates are chosen to give each error and each policy verdict. In
`approval` the windows keep the order they have in the code (`RequestWindow` 3,
`ChallengeWindow` 2, `ObservationAge` 1) on a clock of 1..3, and `MaxDrift` is
one change: a change and a change back, and any number of attempts and clocks,
are left to the proofs. In `evidence` three edits (`MaxEdits`) are a change, a
change of another document that depends on it, and a change back; what an
editor can do with more is in the conditions of the two properties (`restored`,
`aged`), and the theorems about them have no bound on edits. `OldTimes` is the
time of the files that were there at the start. In
`managed_build` `MaxEvents` is one crash, error, edit or update beside all
interleavings of the two builds, and a Lake that is left behind writes once.

**Fairness.** `FairProjectSpec` assumes weak fairness of running commands and
of the manager's steps under them, as a running operating-system process has,
and that an operator repeats `recover` for a project with a pending mark as
long as it can be called, which is what the recovery instructions of the
milestones ask for. Crashes are never fair. A crash or error may hit an
adoption or an update there, not a recovery itself, and not the instants at
which a newly created file is still empty: such a file is refused for ever by
design (`parse_transaction`, `release_lock_if_owned`), so no liveness holds
then. In the store, `FairSpec` is weak fairness of each thread, except that a
fetch may never end; `EveryCallEnds` then asks for the end of calls only as
long as fetches end, which their timeouts and counted retries see to. Weak
fairness is enough for a lease that others take again and again, because an
open store runs each source once and no process dies in this run.

## What disagrees with the documents

Two runs are expected to violate the property they check.

1. `project_add_again` (`UnmanagedIsFree`): `adopt` stops after it took the
   project lock and before the transaction record exists. `recover` sees an
   initial reservation without a transaction record, removes it and reports
   that the project can be added again, but never calls the manager: the lock
   stays, and no later `add` succeeds.
2. `supervised_group` (`GroupIsReaped`): after TERM the supervisor waits for
   the leader only. If it ends within the grace period, KILL is never sent, and
   another process of the group outlives the call; the milestone says that the
   whole group is terminated and reaped.

Also seen while modelling, without a run of their own. The first three are
choices of constants with which a run that passes would fail:

- `rollback` sets no pending mark. A crash between the manager's commit and the
  replacement of the managed record leaves a record that `recover` refuses and
  that `build`, `update` and `rollback` reject. `project_commands` therefore
  leaves `rollback` out of `CrashOps`; with it `RecordFollowsActive` fails.
- `adopt` holds no lease, so a `recover` started meanwhile marks the live
  transaction `Failed`, and the publication then replaces that final state.
  The runs set `AdoptAlone`: the operator starts no recovery while an adoption
  runs, and the theorems about the controller have it as a hypothesis
  (`RecoveriesWait`). Without it `ManagerDiscipline` and `TerminalRecords` fail.
- The configuration is hashed twice for one model, for the lock (`lib.rs:838`)
  and for the management input (`:839`), and only the second hash is compared
  (`:1595`). If the user edits it before the first and takes that back before
  the second, an adoption activates a generation whose lock has another
  configuration than the record's input. `ActiveMatchesInput` exempts just this
  (`mixed`: an edit of the configuration came between the two). A later command
  verifies its own reading against what is active and refuses such a project,
  unless the same edits fall around its own hashes.
- An object is visible from its rename on. If sealing then fails, it is renamed
  back (`store.rs:223`), although a runner of another source with the same tree
  may have verified it and published its record; that record names nothing
  afterwards. `store_shared` leaves `seal` out of `FailPoints`; with it
  `RecordHasObject` fails.
- Recovery of an initial adoption that had committed (`lib.rs:429`) records the
  active transaction as its own previous one; `registry.rs:909` then offers a
  rollback, which is refused.
- A process that dies between the rename and the sealing of an object leaves it
  writable, in the source store (`store.rs:216`) and in the package store
  (`package_reuse.rs:313`). The source store accepts it by its contents; the
  package store refuses it for ever.
- Tasks are named by the source key (`store.rs:112`), so a request for another
  package of one source is answered with the first request's identity.
- The resolver counts depth on the first visit only (`model.rs:1134`), the lock
  on every path: a graph can pass the first and be refused by the second.
- `materialize_if_present` takes no lease (`package_reuse.rs:324`): an object
  that is renamed and not yet sealed is reported as drift, and the build fails.
- A candidate is hashed and then copied (`package_reuse.rs:269`, `:284`) without
  a comparison; a Lake left behind may write in between, and the object is then
  refused at its verification and stays.
- Building again after a package's cache was compiled further gives references
  that conflict with those of the generation (`references.rs:72`).
- The milestone M51C says that the lease is acquired before copying; the code
  stages first and acquires it before the rename (`package_reuse.rs:302`).
- A root's `.git` URL is compared raw by the bridge and canonical by the
  resolver, and `.git.git` loses one suffix only (`lock_v1.rs:128`).
- After KILL or exit, joining the readers may wait beyond the deadline, as long
  as a process of the group holds the pipes (`process.rs:100`).
- `prepare_active_build_caches` (`manager.rs:207`) and
  `seed_registered_derived_file` (`lib.rs:1324`) leave a writable mode behind if
  the process stops in them.
- A project input and a provider pair are compared by their texts between the
  two readings (`project_input.rs:55`, `provider_override.rs:153`), not by the
  identities of the files. An editor that changes documents and changes them
  back between the right reads, six edits in all, gets texts accepted that were
  never on disk together; `AcceptedInputIsASnapshot` therefore excludes
  documents that were taken back.
- The intake compares texts and times of modification with its plan
  (`intake.rs:167`, `stable_file.rs:43`), and no other part of a file's identity.
  The override lies outside the tree digest. If it is moved away after the plan
  and moved back with its time, while the configuration is changed and restored
  around the second walk, the intake commits a tree and an override that were
  never on disk together after the confirmation; it takes five edits.
  `CommittedIntakeExisted` therefore excludes from the one instant the documents
  that were replaced by a file with an older time (`aged`).
- A Reservoir version that is left and later taken again has no binding in
  between, so that it is bound anew without an authorization.

## What is proved

TLAPS checks 46 theorems and the lemmas they rest on. What they assume of the
constants is an ASSUME of the module, which TLC evaluates for the instances;
where a theorem needs more, it is a hypothesis of its own, named below, and
the run that checks the same property is an instance of it.

**`GenerationManager_proofs`**, for every set of processes, transactions and
contents and every choice of `Ops`, `CrashOps`, `CrashPoints`, `FailPoints` and
`RecoverAlone`: `Invariant` (`IInv`) and `TypeCorrect`, by induction, one lemma
per action; `ActiveComplete` and `LockIsExclusive`, consequences of `IInv`;
`TerminalRecordsStay` and `SuccessMeansActive`, action properties;
`ManagerKeepsPromise`, the refinement of `ActiveGeneration`. The only
assumption is `GenAssumption` (the special values are not generations, `Orphan`
is not a process, `RecoverAlone` is a Boolean).

The argument. `LockExcludes` alone is not inductive: the lock is compared in
one step and removed in a later one. It becomes so with `ApartInv` (the
transaction of a publication or recovery is in no other call) and with
`ProgressInv`, which says for each control point what the call knows of its
own record, directory and of the active record. The one fact that spans
processes is `ActiveInv`: *an active generation that is not yet marked
Published is still locked*. A recovery that found the active record naming
its transaction with a `Verified` record can therefore not lose it to a
publication in between (that would need the lock), and a recovery about to
write `Failed` knows that the active record cannot come to name its
transaction. `OtherProgress` and `OwnTransactionWritten` say once that a step
which touches only its own transaction leaves the knowledge of every other
call alone; each action's lemma then only shows its own call's next point.
For the refinement, `Writers` names the steps that can change what
`ActiveGeneration` sees, and `RecordStepRefines` and `RenameRefines` map them
to Abort, Commit and Restore.

The second part of the module adds the hypothesis `RecoverAlone` (no other call
overlaps a recovery): `RecoveriesSettle` (`RecoverySettles`) and
`EdgesAreRetained` (`RetainedIsComplete`). Overlap makes both false, as a
recovery reads a state that a publication then changes. `AInv` stands beside
`IInv`: what a recovery has read still holds when it acts (`Knows`, `Settling`),
and every published generation has its edges, except that of the one call
between its final record and `retained.record` (`EdgesInv`, `Retaining`).

**`ManagedProject_proofs`**, under `AsDeployed` (the three manager operations
are available, `RecoverAlone`) and for the behaviours in which the operator
starts no recovery while an adoption runs (`RecoveriesWait`, which nothing in
the code enforces): `CommandsKeepDiscipline` (`ManagerDiscipline`), the refinement that lets the
controller inherit every theorem about the manager, so `ProjectRecoveriesSettle`
and `ProjectEdgesAreRetained`; then `PreviousStaysRestorable`,
`BuildStaysStable`, `ActiveKeepsInput`, `AdoptedContentStays`,
`PendingMarkGuards` and, if also
`"rollback" \notin CrashOps`, `RecordIsFollowed`.

The argument. `DInv` is who is engaged: at most one command is, it holds the
lease or is the adoption whose reservation is the record, its copy of the
record is the record, and only it has the manager at work, for the call it
made. The manager's obligation that a transaction is in no other call
follows. `MInv` relates the record to the manager's files (`RecordInv`) and says
for each command what its call achieved (`Outcome`); it must be carried through
every one of the manager's steps, which the lemmas of `GenerationManager_proofs`
about who may write what make short. `ContentStays` is the argument about the
sources: an adoption has nothing active before its rename, an update verified
what is active against the content it publishes before it drew its
transaction, and a rollback did so under the lock. `SwitchInv` is the one fact that a crash
destroys: a rollback that stopped between its rename and its record leaves an
active generation the record does not name, which is why `RecordIsFollowed`
excludes it.

**`ImmutableStore_proofs`**, for every set of threads, processes, requests,
keys and trees and every choice of `FailPoints`, `MayCrash` and `MayDrift`:
`StoreInvariant` (`StoreInv`) and `StoreTypes`, by induction;
`StoreDeduplicates` (`OneRunnerPerTask`) and `StoreFetchesOnlyWhatIsMissing`,
two of its conjuncts; `StoreRetainsResults`. They assume `StoreAssumption`
only: types of the constant functions, `NoKey` is no key, `Orphan` no thread.

The argument. `FetchesOnlyWhatIsMissing` is not inductive, because another
thread may be about to rename a record: it needs `LeaseIsHeld`, and that in
turn `CallsAreKnown` (a plain verification passes the same control points
without a lease, and only a keyed request is ever at `lease`). A lease can be
handed to nobody while its holder is between `lookup` and `release`, so two
threads cannot be past the lookup of one key. `RunnerMoves` says once what a
step of one thread must leave alone (`DiskMoves`) and what it must establish
for itself (`AtPoint`) for the whole invariant to be kept; most actions have
only these two to show. The steps that enter or leave the task table, and the
crash, are proved on their own, since they change who runs what.

Its second half goes on from there: `RecordsHaveObjects`
(`RecordHasObject`), `DamageIsRefused` (`DriftIsRefused`) and
`TreesArePublishedOnce` (`PublishedOnce`), under the further assumption
`SealingSucceeds` (`"seal"` is not in `FailPoints`): then nothing ever takes a
renamed object away, which is the fact the three need, and without which they
are false (see above). What a thread is about to report is tied to the object
it has seen, from the rename or verification to the end of its call; and a
call that is damaged before its verification (`stale`) has neither a result
nor an answer yet, and comes by no step to either that is good.

`StoreKeepsPromise` is the refinement of `SourceAuthority`. Its hypotheses are
`NothingIsDamaged` (`MayDrift` is empty: damage withdraws a source) and
`RollbackIsPrivate`: sealing does not fail, or requests for one tree have one
key. `store_sources` is of the second kind: every operation may fail there, and
every process may die. The invariant `Backed` ties what is reported and what the
table has as a success to a record, and a record, or a thread about to rename
one, to an object. Taking an object back keeps it because the runner holds the
lease of the only key with that tree, under which there is no record yet; this
uses `LeaseIsHeld` and `FetchesOnlyWhatIsMissing`. Then each step is
an `Establish` (the rename of a record), an answer, an `Ask`, a `Withdraw`, or
shows nothing.

**`LakeApproval_proofs`**, for every number of attempts, executables,
documents, terminals and every size of the windows (`WindowAssumption`: they
are naturals; `ClockAssumption`): `ApprovalInvariant` and
`ApprovalTypes`; `AuthorityIsWhatWasApproved`, `ApprovalIsSingleUse`, the refinement of `ApprovalLedger`, and
`WireStaysFaithful` (`LifeAssumption`: the longest life of a request is a
natural): whatever a channel does to the bytes, a request that is decoded is the
one that was sent.

The argument. `ApprovalInv` is a conjunct for each stage of one attempt
(`OwnInv`: which earlier tokens it had and how they agree), and `Slots`: a slot
of either registry belongs to an attempt that is at or past the stage that made
it, and no two attempts have slots for one challenge. Because the clock may be
set back, no conjunct compares a stored time with `now`: what is needed of time
is that the windows stored in the tokens are nested, and that a check against
the clock and the step that depends on it are the same action. TLC checks the
properties but not `ApprovalInv` as written, since it quantifies over sets that
are not finite.

**`ManagedBuild_proofs`**, for any projects, packages and compiled bytes and
any number of events: `ReferencesStay` (`ReferencesHold`) and `BuildsKeepHealth`
(`BuildKeepsProjectHealthy`). `EntriesAssumption` says that projects start, and
updates leave them, unbuilt and with a closed lock. Builds meet in the store
only, and the store only grows (`Grows`), so the invariant `BInv` follows one
project at a time: what its call has in hand at each point, that what it lists
is in the store, and that nothing updates a project whose lease it holds.
That the listed bytes are also those of the cache holds as long as no Lake was
left behind (`orphan`), which is as far as the code can know.

**`Resolution_proofs`**, for any packages, metadata and locks:
`ResolutionIsOrderless` (`OrderDoesNotDecide`), `ResolvedGraphIsCoherent`
(`GraphIsCoherent`), `AcceptedGraphHasNoCycle` (`GraphIsAcyclic`),
`FrozenRequestsReplay` (`FrozenReplays`), `UpdatesAreTargeted`
(`UpdateIsTargeted`), `ObjectsAreOfTheirPackages` (`NoObjectOfAnother`) and
`AcceptedGenerationsAreWritten` (`GenerationDescribesItsClosure`). They assume
that declarations are finite sequences and metadata finite sets
(`RootAssumption`, `RegistryAssumption`), that the locks that are given are
records of valid packages, that a candidate has the fields that are written of
it and no others, with a revision exactly if it is not a path
(`TextAssumption`), and that absent values are no values (`NoLockAssumption`,
`BindingAssumption`). The theorem about texts has one more hypothesis,
`PlacesAreCanonical`: reading a resolved place leaves it as it is. The code
makes it so by `CanonicalSourceUrlV1::parse`, except for a URL that ends in
`.git.git` (see above); `LockText` is then not read back, and the instance of
`resolution` has no such place.

The argument. `Needed` is the least set of requirements that has the root's and
those of each candidate that matches a member: a set that knows of no order.
During the traversal what is left to take and what was taken is in `Needed`,
and what was taken is met by what is selected (`ResolutionInv`). When nothing is
left, the requirements that are met are closed, and therefore all of `Needed`;
the graph is the candidates that match it, whichever was first. No induction
over sequences is needed, since the traversal moves in steps of the
specification. The walk of `validate_cycles_and_depth` is a recursion. The
theorem about induction cannot be cited here, but a set of numbers has a least
one (`LeastNumber`), which does as well (`Inductive`): a function defined from
one number to the next exists (`Recursion`), the walk is what its recursive
definition says (`TurnsTaken`, `VisitsByLevel`), and by the levels left to it
every visit keeps what is done *grounded*, that is closed and such that each
set of it has a package with none of the set below it (`VisitIsSound`). Without
an error the whole graph is grounded, and a path of more packages than there
are would come back to one of them (`LongPathReturns`): the packages on the way
round are a set without such a package. For the replay, a lock is certified with the root and metadata
it was made from (`Certified`): candidates pinned to it leave what is needed,
and with it the result, as it was (`Replays`). `DocumentInv` is the same for the
companion: a version is replaced only with the authorization that names it.
For the objects, `FetchInv` keeps for which package each task ran. A task that
ran for another package ran for that package too, so that no object has the key
of the one that joined it, and the keys of the objects are not those of the
lock.

For the texts, packages are written in key order, which a set determines
(`InKeyOrder`), one block of lines after the other; a reader that starts where
the packages do, and goes on where each of them ends, visits those blocks and
no others. So the text of an accepted lock reads as that lock. A text with a
line less or with two lines swapped would have to be the text of some lock as
well, since `from_canonical_text` writes again what it read; its first three
lines and its digest make this the text of the same packages, which is another
text. The companion reads only with a lock of its own packages, as its rows are
compared with them, and the paths of Lake's files are those of the decisions
because the metadata are made from them.

**`ManagedIntake_proofs`**, for any texts, starts and number of edits
(`TextsAreGiven`, `StartsAreTexts`, `EditsAreBounded`, `TimesAreNumbers`, and for
the identity of an input `NothingIsNoValue`: the absent value is no revision and no kind of
source): `IntakeIsTracked` and `ReadIsTracked`, the invariants,
`CommittedWasThere` (`CommittedIntakeExisted`) and `AcceptedWasASnapshot`
(`AcceptedInputIsASnapshot`).

The argument. An intake reads each document several times and never at the same
time as another. The witness is the moment at which the walk after the
confirmation had collected the last file of the tree (`WitnessInv`). What the walk
then hashes is a file with the identity it was collected with (`CollectedInv`),
or the walk refuses; the file of every entry was there at that moment, because
identities are never used twice, so the digest is the tree of that moment. For the
toolchain, the manifest and the override the confirmation compares the times of
the plan. No time of the plan lies in the future of the plan (`SeenInv`,
`PlanInv`), so a document that is later found with the text and the time of the
plan (`IsPlanned`) has not been written since, and was there at the moment of the
walk as well, unless the editor gave it an older time (`aged`). An absent
override has no time, which is why the property says less of it, and the
configuration has none in the snapshot. The first part of the module says what
the step at each line of the programs is, from lemmas about their concatenation
(`Joined`, `SnapshotSteps`, `IntakePlaces`).

Where texts alone are compared there is no such time. There the witness is an
`Anchor`, the moment of one look: for an input when its links are resolved, for
a pair when the second document is read first, or the first again, according to
which of them was not put back. A document read before it is tied to that moment
(`Ties`): if it says at the anchor what was read, the moment says so too, and if
it comes to say it later, the editor has put it back and it is `restored`. The
second look, which found the same text, therefore speaks of the moment.
`AnchorKeeps` proves this once for any look of any program, from the place where
each document is read (`Reads`, `PairReads`, `InputReads`). That an accepted
input has an identity is a lemma about its documents alone
(`ClassifiedHasIdentity`): what `classify_input` admits, no later check of
`project_identity.rs` refuses.

**`NormalizedTree_proofs`**, for all limits and all archives, of any length and
with any paths: `ArchivesAreNormalized` (`ArchiveIsNormalized`). `TreeAssumption`
says that the limits are numbers (`Limits`), that archives are sequences of
entries (`Archive`) without the files that are excluded by name, and that what
tools leave is in reserved places or is an excluded file (`LiesBeside`).

The argument. The invariant of the loop is `Reads`: the entries so far are refused
exactly if they are not `Clean`, which does not speak of an order, and else the
tree and the counts are what they are worth. One entry more is refused exactly if
`Admits` fails, and `CleanGrows` shows that this is symmetric: a file in the place
of a directory is found whichever of the two comes first. An early return is
right because no later entry makes an archive clean again (`RefusedEarly`). For
the tree on disk the invariant is `Left`: all there is beside the tree lies in
other places; sealing changes only modes, and `ObjectIsRead` shows that nothing
beside the tree is planned. The sizes of a set of files are summed by a fold in
an order that `CHOOSE` picks, which is no recursion that the provers could
unroll: `FoldExists` shows that a fold over a finite set exists, since it does for
the subsets of every size, and `TableValues` that a sum does not depend on which
element is taken first; the rest needs only that an entry adds its size
(`EntrySumAdds`, `DiskSumAdds`).

**What the proofs found.** Attempts at these proofs corrected the model where it
was wrong: a build that fails keeps its lease only where the code does
(`Fail`, at `select`, `open` and `after` there is none); the outcomes of
`Finish` and of `Evaluate` overlapped, where the code takes the first that
applies; an intake keeps no modification time for an override that is absent
(`IntakeSnapshot.files`), where the model had one; and
`AcceptedInputIsASnapshot` was true for three edits only, and false for six (see
above).

**Only model-checked:** the liveness properties, as fairness is out of the
prover's reach. Every invariant and every action property of the passing runs is
stated by a theorem.

## Not modelled

- The TypeScript program in `src/src`: `README.adoc:357` calls it the early
  inspection, evidence models and regression tests; the Rust crates succeed it.
- The crates for identities, hashing, canonical JSON, state records that no
  program writes, and the ACL binding: values and an FFI boundary.
- Decoders without a caller (`execution_record`, `build_lock`,
  `image_attestation`, `project_binding`), the static audit tables of the
  coordinator and its deployment, `reuse.rs`, which only `acceptance.rs` calls,
  and the acceptance and regression drivers, which test the modelled code.
- HTTP, Git and Lake themselves: a fetch is one step with any of its outcomes,
  a Lake build leaves anything.
- Escaping of text, the JSON of projections, tar headers, limits on counts and
  sizes other than those named above, permissions and path checks except where
  a step depends on them.
- The creation of the lease file and of directories, the caches prepared by
  `prepare_active_build_caches`, and a panic that poisons a mutex.

What could come next: the lease file's creation in two steps; an abstract map
of packages that `ManagedBuild` refines; observation of the executable in
`run_expected` (`lib.rs:613`).
