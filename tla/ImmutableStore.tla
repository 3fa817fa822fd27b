--------------------------- MODULE ImmutableStore ---------------------------
(***************************************************************************)
(* The immutable package source store                                      *)
(* (src/rust/crates/leanbun-store/src/store.rs).                           *)
(*                                                                         *)
(* Threads of several processes ask for package sources.  Inside one       *)
(* opened store (an "instance") a table of tasks lets the first caller of  *)
(* a source run and the others wait for its result, which is kept for as   *)
(* long as the store is open.  Between instances the callers meet on disk: *)
(* an advisory lease per source key, one directory per source tree, one    *)
(* record per source key.  A runner fetches into a private slot, renames   *)
(* the finished object to the path named by its tree, seals it read-only,  *)
(* and only then renames the record of its key into place; if sealing      *)
(* fails it renames the object back.                                       *)
(*                                                                         *)
(* One action is one step no other thread can divide: a section under the  *)
(* table's mutex, one system call that others can see, or one walk over an *)
(* object.  What a slot holds is private to its runner and not modelled.   *)
(***************************************************************************)
EXTENDS Naturals, FiniteSets

CONSTANTS
    Caller,             \* threads
    Instance,           \* opened stores, each in a process of its own
    Host,               \* the instance each caller uses
    Request,            \* fetch requests
    Key,                \* package source keys
    NoKey,              \* a request for a path snapshot has no key
    Tree,               \* normalized source trees
    KeyOf,              \* the key of a request
    TreeOf,             \* the tree a request must yield
    Orphan,             \* owner of the slots of processes that have died
    MaxRetainedTasks,   \* MAX_RETAINED_TASKS
    FailPoints,         \* control points at which an operation may fail
    MayCrash,           \* instances whose process may die and start again
    MayDrift            \* trees and keys whose files something else may damage

ASSUME StoreAssumption ==
    /\ Host \in [Caller -> Instance]
    /\ KeyOf \in [Request -> Key \cup {NoKey}]
    /\ TreeOf \in [Request -> Tree]
    /\ NoKey \notin Key
    /\ Orphan \notin Caller
    /\ MaxRetainedTasks \in Nat \ {0}

\* The digest of a source key covers the digest of its tree.
ASSUME KeyNamesTree ==
    \A r, s \in Request : KeyOf[r] = KeyOf[s] /\ KeyOf[r] # NoKey => TreeOf[r] = TreeOf[s]

\* Tasks are named by the source key, or by the whole request without one; the
\* two are digests of different things, and no name is of both kinds.
ASSUME TaskNamesDiffer == Key \cap Request = {}

Task == Key \cup Request
TaskOf(r) == IF KeyOf[r] # NoKey THEN KeyOf[r] ELSE r

Success == {"Published", "Reused", "Deduplicated"}
Failure == {"Cancelled", "TreeDrift", "SourceRecordDrift", "RenameFailed",
            "IndeterminatePublication", "LimitExceeded", "Failed"}

\* A terminal result, with the request whose package it describes.
Terminal == [outcome : Success \cup Failure, of : Request]

VARIABLES
    \* The store's directory.
    object,      \* objects/<tree>
    source,      \* sources/<key>.meta
    lease,       \* who holds the flock on leases/<key>.lock
    slots,       \* owners of the directories in slots/
    \* The memory of the processes.
    task,        \* the task table of each instance
    pc,          \* where each call stands
    call,        \* what each caller asks for, or what it asked for last
    cancelled,   \* the cancellation token of each call
    work,        \* the result a runner is about to report
    answer       \* what the last call of each caller returned

disk == <<object, source, lease, slots>>
vars == <<object, source, lease, slots, task, pc, call, cancelled, work, answer>>

NoTask == [outcome |-> "Absent"]
Running == [outcome |-> "Running"]
NoCall == [op |-> "none"]
NoAnswer == [outcome |-> "none"]

SlotPoints == {"fetch", "materialize", "rename", "exists", "verifyWinner", "seal",
               "rollback", "record", "renameRecord", "cleanup"}
LeasedPoints == {"lookup", "verify", "verifyRecord", "slot"} \cup SlotPoints \cup {"release"}
RunnerPoints == LeasedPoints \cup {"lease", "settle"}
Point == RunnerPoints \cup {"idle", "wait"}

Req(c) == call[c].req
TheKey(c) == KeyOf[Req(c)]
TheTree(c) == TreeOf[Req(c)]
TheTask(c) == task[Host[c]][TaskOf(Req(c))]
HasKey(c) == TheKey(c) # NoKey
IsRunner(c) == pc[c] \in RunnerPoints /\ call[c].op = "fetch"

Goto(c, point) == pc' = [pc EXCEPT ![c] = point]

-----------------------------------------------------------------------------
(* How a call ends.                                                        *)

\* The call returns; nobody looks at its token any more.
Return(c, result) ==
    /\ Goto(c, "idle")
    /\ answer' = [answer EXCEPT ![c] = result]
    /\ cancelled' = [cancelled EXCEPT ![c] = FALSE]

\* The result of the work is known.  A runner still has to remove its slot,
\* drop its lease and report to the task table; a plain verification returns.
Conclude(c, outcome) ==
    /\ IF call[c].op = "verify"
       THEN /\ Return(c, [outcome |-> outcome, of |-> Req(c)])
            /\ UNCHANGED work
       ELSE /\ Goto(c, IF c \in slots THEN "cleanup" ELSE "release")
            /\ work' = [work EXCEPT ![c] = outcome]
            /\ UNCHANGED <<answer, cancelled>>
    /\ UNCHANGED <<task, call>>

Proceed(c, point) == Goto(c, point) /\ UNCHANGED <<task, call, cancelled, work, answer>>

-----------------------------------------------------------------------------
(* Entering a call: the task table.                                        *)

\* Something else has damaged the object or the record of this request.
Damaged(r) ==
    object[TreeOf[r]] = "drifted" \/ (KeyOf[r] # NoKey /\ source[KeyOf[r]] = "drifted")

\* "stale" is history, which nothing reads but DriftIsRefused: the object or the
\* record of a call was damaged before the call verified it.
Enter(c, op, r) ==
    /\ pc[c] = "idle"
    /\ call' = [call EXCEPT ![c] = [op |-> op, req |-> r, stale |-> Damaged(r)]]

\* A mistake to be caught: the table is looked at before its mutex is taken.
LeadUnlocked(c, r) ==
    /\ Cardinality({t \in Task : task[Host[c]][t] # NoTask}) < MaxRetainedTasks
    /\ Enter(c, "fetch", r)
    /\ task' = [task EXCEPT ![Host[c]][TaskOf(r)] = Running]
    /\ Goto(c, IF KeyOf[r] # NoKey THEN "lease" ELSE "lookup")
    /\ answer' = [answer EXCEPT ![c] = NoAnswer]
    /\ UNCHANGED <<disk, cancelled, work>>

\* The first caller of a source in this instance runs it.
Lead(c, r) ==
    /\ task[Host[c]][TaskOf(r)] = NoTask
    /\ Cardinality({t \in Task : task[Host[c]][t] # NoTask}) < MaxRetainedTasks
    /\ Enter(c, "fetch", r)
    /\ task' = [task EXCEPT ![Host[c]][TaskOf(r)] = Running]
    /\ Goto(c, IF KeyOf[r] # NoKey THEN "lease" ELSE "lookup")
    /\ answer' = [answer EXCEPT ![c] = NoAnswer]
    /\ UNCHANGED <<disk, cancelled, work>>

\* The others wait for its result, which is never removed from the table.
Join(c, r) ==
    /\ task[Host[c]][TaskOf(r)] # NoTask
    /\ Enter(c, "fetch", r)
    /\ Goto(c, "wait")
    /\ answer' = [answer EXCEPT ![c] = NoAnswer]
    /\ UNCHANGED <<disk, task, cancelled, work>>

RefuseTask(c, r) ==
    /\ task[Host[c]][TaskOf(r)] = NoTask
    /\ Cardinality({t \in Task : task[Host[c]][t] # NoTask}) >= MaxRetainedTasks
    /\ Enter(c, "fetch", r)
    /\ Return(c, [outcome |-> "LimitExceeded", of |-> r])
    /\ UNCHANGED <<disk, task, work>>

\* verify_object_for_request takes no lease and asks no table.
VerifyOnly(c, r) ==
    /\ Enter(c, "verify", r)
    /\ Goto(c, "verify")
    /\ answer' = [answer EXCEPT ![c] = NoAnswer]
    /\ UNCHANGED <<disk, task, cancelled, work>>

\* A mistake to be caught: a waiter does not look at its token.
WaitDeaf(c) ==
    /\ pc[c] = "wait"
    /\ TheTask(c) # Running
    /\ Return(c, IF TheTask(c).outcome \in Success
                 THEN [TheTask(c) EXCEPT !.outcome = "Deduplicated"]
                 ELSE TheTask(c))
    /\ UNCHANGED <<disk, task, call, work>>

\* A waiter looks at the result before it looks at its token.
WaitForTerminal(c) ==
    /\ pc[c] = "wait"
    /\ \/ /\ TheTask(c) # Running
          /\ Return(c, IF TheTask(c).outcome \in Success
                       THEN [TheTask(c) EXCEPT !.outcome = "Deduplicated"]
                       ELSE TheTask(c))
       \/ /\ TheTask(c) = Running
          /\ cancelled[c]
          /\ Return(c, [outcome |-> "Cancelled", of |-> Req(c)])
    /\ UNCHANGED <<disk, task, call, work>>

-----------------------------------------------------------------------------
(* The runner: lease, what is there already, slot, fetch.                  *)

\* A mistake to be caught: the lease is shared, not exclusive.
AcquireSharedLease(c) ==
    /\ pc[c] = "lease"
    /\ lease' = [lease EXCEPT ![TheKey(c)] = c]
    /\ Proceed(c, "lookup")
    /\ UNCHANGED <<object, source, slots>>

AcquireSourceLease(c) ==
    /\ pc[c] = "lease"
    /\ lease[TheKey(c)] = Orphan
    /\ lease' = [lease EXCEPT ![TheKey(c)] = c]
    /\ Proceed(c, "lookup")
    /\ UNCHANGED <<object, source, slots>>

\* A mistake to be caught: a cancelled runner reports before it has a result.
CancelWithoutResult(c) ==
    /\ pc[c] = "lease"
    /\ lease[TheKey(c)] # Orphan
    /\ cancelled[c]
    /\ Proceed(c, "settle")
    /\ UNCHANGED disk

\* The token is looked at only when the lease was found taken.
CancelLeaseWait(c) ==
    /\ pc[c] = "lease"
    /\ lease[TheKey(c)] # Orphan
    /\ cancelled[c]
    /\ Conclude(c, "Cancelled")
    /\ UNCHANGED disk

\* The record decides for a keyed request, the object for a path snapshot.
LookUp(c) ==
    /\ pc[c] = "lookup"
    /\ LET present == IF HasKey(c) THEN source[TheKey(c)] # "absent"
                      ELSE object[TheTree(c)] # "absent"
       IN  Proceed(c, IF present THEN "verify" ELSE "slot")
    /\ UNCHANGED disk

Intact(t) == object[t] \in {"open", "sealed"}

\* verify_existing_object: tree and metadata are read and hashed again;
\* permissions are not looked at.
VerifyExistingObject(c) ==
    /\ pc[c] = "verify"
    /\ IF Intact(TheTree(c))
       THEN IF HasKey(c) THEN Proceed(c, "verifyRecord") ELSE Conclude(c, "Reused")
       ELSE Conclude(c, "TreeDrift")
    /\ UNCHANGED disk

\* A mistake to be caught: a missing record is inferred from the object.
VerifyAbsentRecord(c) ==
    /\ pc[c] = "verifyRecord"
    /\ Conclude(c, IF source[TheKey(c)] # "drifted" THEN "Reused" ELSE "SourceRecordDrift")
    /\ UNCHANGED disk

VerifySourceRecord(c) ==
    /\ pc[c] = "verifyRecord"
    /\ Conclude(c, IF source[TheKey(c)] = "written" THEN "Reused" ELSE "SourceRecordDrift")
    /\ UNCHANGED disk

CreateSlot(c) ==
    /\ pc[c] = "slot"
    /\ slots' = slots \cup {c}
    /\ Proceed(c, "fetch")
    /\ UNCHANGED <<object, source, lease>>

\* Fetching ends within its timeouts and retries; the tree it yields has the
\* digest the request names, or the fetch fails.
FetchAndPlan(c) ==
    /\ pc[c] = "fetch"
    /\ \/ Proceed(c, "materialize")
       \/ cancelled[c] /\ Conclude(c, "Cancelled")
    /\ UNCHANGED disk

\* A mistake to be caught: the record is written before the object is renamed.
RecordBeforeObject(c) ==
    /\ pc[c] = "materialize"
    /\ source' = [source EXCEPT ![TheKey(c)] = "written"]
    /\ Proceed(c, "rename")
    /\ UNCHANGED <<object, lease, slots>>

MaterializeTree(c) ==
    /\ pc[c] = "materialize"
    /\ Proceed(c, "rename")
    /\ UNCHANGED disk

-----------------------------------------------------------------------------
(* Publication.                                                            *)

\* A mistake to be caught: publication replaces what is there.
RenameOver(c) ==
    /\ pc[c] = "rename"
    /\ object' = [object EXCEPT ![TheTree(c)] = "open"]
    /\ Proceed(c, "seal")
    /\ UNCHANGED <<source, lease, slots>>

\* An existing directory is not empty, and renaming onto it fails.
RenameObject(c) ==
    /\ pc[c] = "rename"
    /\ IF object[TheTree(c)] = "absent"
       THEN /\ object' = [object EXCEPT ![TheTree(c)] = "open"]
            /\ Proceed(c, "seal")
       ELSE /\ Proceed(c, "exists")
            /\ UNCHANGED object
    /\ UNCHANGED <<source, lease, slots>>

\* The rename failed: because of a winner, if it is still there.
FindWinner(c) ==
    /\ pc[c] = "exists"
    /\ IF object[TheTree(c)] # "absent"
       THEN Proceed(c, "verifyWinner")
       ELSE Conclude(c, "RenameFailed")
    /\ UNCHANGED disk

\* A mistake to be caught: a winner is taken to be intact, since it was published.
TrustWinner(c) ==
    /\ pc[c] = "verifyWinner"
    /\ Goto(c, "record")
    /\ work' = [work EXCEPT ![c] = "Reused"]
    /\ UNCHANGED <<disk, task, call, cancelled, answer>>

\* Equal trees have equal metadata, so a winner that verifies agrees.
VerifyWinner(c) ==
    /\ pc[c] = "verifyWinner"
    /\ IF ~Intact(TheTree(c)) THEN Conclude(c, "TreeDrift")
       ELSE /\ Goto(c, "record")
            /\ work' = [work EXCEPT ![c] = "Reused"]
            /\ UNCHANGED <<task, call, cancelled, answer>>
    /\ UNCHANGED disk

Sealed(t) == IF object[t] = "open" THEN "sealed" ELSE object[t]

SealObject(c) ==
    /\ pc[c] = "seal"
    /\ object' = [object EXCEPT ![TheTree(c)] = Sealed(TheTree(c))]
    /\ Goto(c, "record")
    /\ work' = [work EXCEPT ![c] = "Published"]
    /\ UNCHANGED <<source, lease, slots, task, call, cancelled, answer>>

\* Sealing is a sequence of permission changes and syncs: it may stop before
\* or after the object itself has become read-only.
SealFails(c) ==
    /\ pc[c] = "seal"
    /\ "seal" \in FailPoints
    /\ \E reached \in {object[TheTree(c)], Sealed(TheTree(c))} :
           object' = [object EXCEPT ![TheTree(c)] = reached]
    /\ Proceed(c, "rollback")
    /\ UNCHANGED <<source, lease, slots>>

\* The object goes back into the slot, unless that rename fails too.
RollBackObject(c) ==
    /\ pc[c] = "rollback"
    /\ \/ /\ object' = [object EXCEPT ![TheTree(c)] = "absent"]
          /\ Conclude(c, "Failed")
       \/ /\ "rollback" \in FailPoints
          /\ Conclude(c, "IndeterminatePublication")
          /\ UNCHANGED object
    /\ UNCHANGED <<source, lease, slots>>

\* A path snapshot has no record to publish.
PublishSourceRecord(c) ==
    /\ pc[c] = "record"
    /\ IF ~HasKey(c) THEN Conclude(c, work[c])
       ELSE IF source[TheKey(c)] = "absent" THEN Proceed(c, "renameRecord")
       ELSE Conclude(c, IF source[TheKey(c)] = "written" THEN work[c] ELSE "SourceRecordDrift")
    /\ UNCHANGED disk

\* If only the sync after the rename fails, the record stays.
RenameRecord(c) ==
    /\ pc[c] = "renameRecord"
    /\ source' = [source EXCEPT ![TheKey(c)] = "written"]
    /\ \/ Conclude(c, work[c])
       \/ "syncRecord" \in FailPoints /\ Conclude(c, "Failed")
    /\ UNCHANGED <<object, lease, slots>>

-----------------------------------------------------------------------------
(* Failures, and the end of a runner's work.                               *)

\* Any of these steps may report an error instead; all but the creation of
\* a slot leave nothing behind, and that one may leave the directory.
StepFails(c) ==
    /\ pc[c] \in FailPoints \cap {"lease", "slot", "fetch", "materialize", "rename",
                                 "record", "renameRecord"}
    /\ pc[c] = "rename" => object[TheTree(c)] = "absent"
    /\ pc[c] = "record" => HasKey(c)
    /\ Conclude(c, IF pc[c] = "rename" THEN "RenameFailed" ELSE "Failed")
    /\ \/ UNCHANGED slots
       \/ pc[c] = "slot" /\ slots' = slots \cup {Orphan}
    /\ UNCHANGED <<object, source, lease>>

\* Errors of the removal are ignored.
CleanupSlot(c) ==
    /\ pc[c] = "cleanup"
    /\ \/ slots' = slots \ {c}
       \/ "cleanup" \in FailPoints /\ slots' = (slots \ {c}) \cup {Orphan}
    /\ Proceed(c, "release")
    /\ UNCHANGED <<object, source, lease>>

\* The lease is dropped before the result is published to the waiters.
ReleaseLease(c) ==
    /\ pc[c] = "release"
    /\ lease' = [k \in Key |-> IF lease[k] = c THEN Orphan ELSE lease[k]]
    /\ Proceed(c, "settle")
    /\ UNCHANGED <<object, source, slots>>

\* A mistake to be caught: an error is returned before it is reported to the table.
SettleSuccess(c) ==
    /\ pc[c] = "settle"
    /\ LET result == [outcome |-> work[c], of |-> Req(c)]
       IN  /\ task' = IF result.outcome \in Success
                      THEN [task EXCEPT ![Host[c]][TaskOf(Req(c))] = result] ELSE task
           /\ Return(c, result)
    /\ work' = [work EXCEPT ![c] = "none"]
    /\ UNCHANGED <<disk, call>>

Settle(c) ==
    /\ pc[c] = "settle"
    /\ LET result == [outcome |-> work[c], of |-> Req(c)]
       IN  /\ task' = [task EXCEPT ![Host[c]][TaskOf(Req(c))] = result]
           /\ Return(c, result)
    /\ work' = [work EXCEPT ![c] = "none"]
    /\ UNCHANGED <<disk, call>>

-----------------------------------------------------------------------------
(* The environment.                                                        *)

Cancel(c) ==
    /\ pc[c] # "idle"
    /\ call[c].op = "fetch"
    /\ cancelled' = [cancelled EXCEPT ![c] = TRUE]
    /\ UNCHANGED <<disk, task, pc, call, work, answer>>

\* The process of an instance dies: its calls and its task table are gone,
\* the kernel drops its leases, its slots stay.  The store is opened again.
Crash(i) ==
    LET dead == {c \in Caller : Host[c] = i}
        Reset(f, value) == [c \in Caller |-> IF c \in dead THEN value ELSE f[c]]
    IN  /\ i \in MayCrash
        /\ lease' = [k \in Key |-> IF lease[k] \in dead THEN Orphan ELSE lease[k]]
        /\ slots' = {IF c \in dead THEN Orphan ELSE c : c \in slots}
        /\ task' = [task EXCEPT ![i] = [t \in Task |-> NoTask]]
        /\ pc' = Reset(pc, "idle")
        /\ call' = Reset(call, NoCall)
        /\ cancelled' = Reset(cancelled, FALSE)
        /\ work' = Reset(work, "none")
        /\ answer' = Reset(answer, NoAnswer)
        /\ UNCHANGED <<object, source>>

\* The points from which a call still comes to verify its object, its record.
ObjectUnverified == {"lease", "lookup", "verify", "slot", "fetch", "materialize", "rename",
                     "exists", "verifyWinner"}
RecordUnverified == {"lease", "lookup", "verify", "verifyRecord"}

MarkStale(hit) ==
    call' = [c \in Caller |-> IF c \in hit THEN [call[c] EXCEPT !.stale = TRUE] ELSE call[c]]

DamageObject(t) ==
    /\ t \in MayDrift
    /\ Intact(t)
    /\ object' = [object EXCEPT ![t] = "drifted"]
    /\ MarkStale({c \in Caller : pc[c] \in ObjectUnverified /\ TheTree(c) = t})
    /\ UNCHANGED <<source, lease, slots, task, pc, cancelled, work, answer>>

DamageRecord(k) ==
    /\ k \in MayDrift
    /\ source[k] = "written"
    /\ source' = [source EXCEPT ![k] = "drifted"]
    /\ MarkStale({c \in Caller : pc[c] \in RecordUnverified /\ TheKey(c) = k})
    /\ UNCHANGED <<object, lease, slots, task, pc, cancelled, work, answer>>

-----------------------------------------------------------------------------

\* What a thread does by itself once it is inside a call.
Step(c) ==
    \/ WaitForTerminal(c) \/ AcquireSourceLease(c) \/ CancelLeaseWait(c) \/ LookUp(c)
    \/ VerifyExistingObject(c) \/ VerifySourceRecord(c) \/ CreateSlot(c)
    \/ FetchAndPlan(c) \/ MaterializeTree(c) \/ RenameObject(c) \/ FindWinner(c)
    \/ VerifyWinner(c) \/ SealObject(c) \/ SealFails(c) \/ RollBackObject(c)
    \/ PublishSourceRecord(c) \/ RenameRecord(c) \/ StepFails(c) \/ CleanupSlot(c)
    \/ ReleaseLease(c) \/ Settle(c)

Start(c, r) == Lead(c, r) \/ Join(c, r) \/ RefuseTask(c, r) \/ VerifyOnly(c, r)

Init ==
    /\ object = [t \in Tree |-> "absent"]
    /\ source = [k \in Key |-> "absent"]
    /\ lease = [k \in Key |-> Orphan]
    /\ slots = {}
    /\ task = [i \in Instance |-> [t \in Task |-> NoTask]]
    /\ pc = [c \in Caller |-> "idle"]
    /\ call = [c \in Caller |-> NoCall]
    /\ cancelled = [c \in Caller |-> FALSE]
    /\ work = [c \in Caller |-> "none"]
    /\ answer = [c \in Caller |-> NoAnswer]

Next ==
    \/ \E c \in Caller : Step(c) \/ Cancel(c) \/ \E r \in Request : Start(c, r)
    \/ \E i \in Instance : Crash(i)
    \/ \E t \in Tree : DamageObject(t)
    \/ \E k \in Key : DamageRecord(k)

Spec == Init /\ [][Next]_vars

\* Every caller keeps running, except that a fetch may never end.
FairSpec == Spec /\ \A c \in Caller : WF_vars(pc[c] # "fetch" /\ Step(c))

-----------------------------------------------------------------------------
(* Properties.                                                             *)

\* Every variable has its type.
TypeOK ==
    /\ object \in [Tree -> {"absent", "open", "sealed", "drifted"}]
    /\ source \in [Key -> {"absent", "written", "drifted"}]
    /\ lease \in [Key -> Caller \cup {Orphan}]
    /\ slots \subseteq Caller \cup {Orphan}
    /\ task \in [Instance -> [Task -> Terminal \cup {NoTask, Running}]]
    /\ pc \in [Caller -> Point]
    /\ call \in [Caller -> {NoCall} \cup
                          [op : {"fetch", "verify"}, req : Request, stale : BOOLEAN]]
    /\ cancelled \in [Caller -> BOOLEAN]
    /\ work \in [Caller -> Success \cup Failure \cup {"none"}]
    /\ answer \in [Caller -> Terminal \cup {NoAnswer}]

\* A task that is marked as running has exactly one thread that runs it, and
\* the task of a runner or a waiter is in the table: no waiter waits for a
\* result that nobody will report, and no source is fetched twice at once.
SameTask(c, d) == Host[c] = Host[d] /\ TaskOf(Req(c)) = TaskOf(Req(d))

OneRunnerPerTask ==
    /\ \A c \in Caller : IsRunner(c) => TheTask(c) = Running
    /\ \A c, d \in Caller : IsRunner(c) /\ IsRunner(d) /\ SameTask(c, d) => c = d
    /\ \A i \in Instance, t \in Task :
           task[i][t] = Running =>
               \E c \in Caller : IsRunner(c) /\ Host[c] = i /\ TaskOf(Req(c)) = t
    /\ \A c \in Caller : pc[c] = "wait" => TheTask(c) # NoTask

\* While a runner fetches or publishes a source, no record of that source
\* appears, whatever other processes do: the lease makes the check before
\* the fetch hold until the record is renamed, and nothing is ever
\* downloaded or renamed over a record that is already there.
FetchesOnlyWhatIsMissing ==
    \A c \in Caller :
        pc[c] \in (SlotPoints \cup {"slot"}) \ {"cleanup"} /\ HasKey(c)
            => source[TheKey(c)] = "absent"

\* What holds between the pieces of a call's state at each control point.
CallsAreKnown == \A c \in Caller :
    /\ pc[c] # "idle" => call[c] # NoCall
    /\ pc[c] \notin {"idle", "verify", "verifyRecord"} => call[c].op = "fetch"
    /\ pc[c] \in {"lease", "verifyRecord", "renameRecord"} => HasKey(c)

WorkIsKnown == \A c \in Caller :
    /\ pc[c] \in {"record", "renameRecord"} => work[c] \in Success
    /\ pc[c] \in {"cleanup", "release", "settle"} => work[c] # "none"

SlotsAreOwned == \A c \in Caller : c \in slots <=> pc[c] \in SlotPoints

LeaseIsHeld == \A c \in Caller :
    IsRunner(c) /\ HasKey(c) /\ pc[c] \in LeasedPoints \ {"release"} => lease[TheKey(c)] = c

\* The inductive invariant: a runner between the lookup and the renamed
\* record holds the lease of its source, a call that concludes has a result,
\* and a slot exists exactly while its runner is between creation and cleanup.
StoreInv ==
    /\ TypeOK
    /\ CallsAreKnown
    /\ WorkIsKnown
    /\ SlotsAreOwned
    /\ LeaseIsHeld
    /\ OneRunnerPerTask
    /\ FetchesOnlyWhatIsMissing

\* However many processes race for a tree, at most one call is told that it
\* published it, and what it published is sealed and stays.
PublishedOnce ==
    \A x, y \in Instance \X Task :
        LET tx == task[x[1]][x[2]]
            ty == task[y[1]][y[2]]
        IN  /\ tx.outcome = "Published" => object[TreeOf[tx.of]] \in {"sealed", "drifted"}
            /\ tx.outcome = "Published" /\ ty.outcome = "Published"
               /\ TreeOf[tx.of] = TreeOf[ty.of] => x = y

\* A record in sources/ names an object that is there.
RecordHasObject == \A k \in Key :
    source[k] # "absent" =>
        \A r \in Request : KeyOf[r] = k => object[TreeOf[r]] # "absent"

\* A call whose object or record is damaged before the call has verified it is
\* not told that the source was published or reused: drift fails closed whether
\* it was there when the call began or came while the call waited for the lease,
\* looked up what is there, fetched, or lost the rename to a winner that is
\* damaged before it is verified.  (A waiter takes over its runner's result and
\* a later call the retained one, without a look of their own.)
DriftIsRefused ==
    \A c \in Caller :
        call[c].op # "none" /\ call[c].stale
            => answer[c].outcome \notin {"Published", "Reused"}

\* A terminal result stays what it is for as long as the store is open.
ResultsAreRetained ==
    [][\A i \in Instance, t \in Task :
          task[i][t] \notin {NoTask, Running} =>
              task'[i][t] = task[i][t] \/ \A u \in Task : task'[i][u] = NoTask]_vars

\* As long as fetches end, every call ends: no thread waits for a result, a
\* lease or a winner for ever, even if the lease goes to others again and again.
FetchesEnd == \A c \in Caller : []<>(pc[c] # "fetch")
EveryCallEnds == FetchesEnd => \A c \in Caller : pc[c] # "idle" ~> pc[c] = "idle"

\* A call that waits for somebody else stops waiting once it is cancelled,
\* whether or not the fetch it waits for ever ends.
CancelledWaitEnds ==
    \A c \in Caller :
        pc[c] \in {"wait", "lease"} /\ cancelled[c] ~> pc[c] \notin {"wait", "lease"}

\* What is promised for keyed requests (SourceAuthority): a source is
\* established when its record stands and its object is there.
Keyed(c) == call[c].op # "none" /\ HasKey(c)

Promise == INSTANCE SourceAuthority WITH
    authority <- {k \in Key : /\ source[k] = "written"
                              /\ \A r \in Request :
                                     KeyOf[r] = k => Intact(TreeOf[r])},
    asked <- [c \in Caller |-> IF Keyed(c) /\ pc[c] # "idle" THEN TheKey(c) ELSE NoKey],
    answer <- [c \in Caller |->
                  IF ~Keyed(c) \/ answer[c] = NoAnswer THEN "none"
                  ELSE IF answer[c].outcome \in Success THEN "success" ELSE "failure"]

\* The store keeps that promise: no interleaving of runners, waiters,
\* failures and crashes withdraws a source, establishes one that nobody
\* asked for, or reports a success without it.
KeepsPromise == Promise!Spec
=============================================================================
