------------------------- MODULE GenerationManager -------------------------
(***************************************************************************)
(* The active-generation manager of one project                            *)
(* (src/rust/crates/leanbun-generation/src/manager.rs).                    *)
(*                                                                         *)
(* The manager keeps everything it knows in files of the project's state   *)
(* directory: an exclusive project lock, one record per transaction, one   *)
(* directory per generation, the active record, unfinished temporary       *)
(* active records and the retained record.  A call (publish, recover,      *)
(* rollback) is a sequence of small file operations, each synced before    *)
(* the next one starts; any other process may take steps between two of    *)
(* them, and a call may stop after any of them, by a crash or an I/O       *)
(* error.  One action below is one such file operation.                    *)
(*                                                                         *)
(* A record written by create-new is visible, empty, before its bytes are  *)
(* written (the value "Torn"); a record written by atomic replacement is   *)
(* never seen half written.                                                *)
(***************************************************************************)
EXTENDS Naturals, FiniteSets

CONSTANTS
    Proc,              \* processes that call the manager
    Txn,               \* transaction ids
    Content,           \* what a generation is built from, beyond its transaction
    NoGen,             \* no generation: an absent lock, an absent active record
    TornGen,           \* a lock file that exists but whose bytes were not written
    Orphan,            \* owner of the temporary files of a call that has ended
    Ops,               \* the operations the callers use
    CrashOps,          \* the operations whose calls may stop half way
    CrashPoints,       \* control points at which a process may crash
    FailPoints,        \* control points at which a file operation may fail
    RecoverAlone       \* TRUE: callers let no other call overlap a recovery

\* The identity of a generation is the hash of its transaction and of
\* everything it was built from, so two generations are equal exactly when
\* these are.
Generation == [txn : Txn, content : Content]

ASSUME GenAssumption ==
    /\ NoGen \notin Generation
    /\ TornGen \notin Generation
    /\ NoGen # TornGen
    /\ Orphan \notin Proc
    /\ RecoverAlone \in BOOLEAN

RecordState == {"Preparing", "Materialized", "Verified", "Published", "Failed"}

VARIABLES
    \* The project's state directory.
    lock,       \* project.lock: the generation whose bytes it holds
    record,     \* transactions/<txn>.record
    dir,        \* generations/<txn>
    active,     \* active.record
    temps,      \* .active-*.tmp: <<creating process or Orphan, generation>>
    retained,   \* retained.record: the generations with edges in it
    \* The callers' memory.
    pc,         \* where each call stands
    call,       \* the arguments of the call
    work        \* what the call has read or is about to write

disk == <<lock, record, dir, active, temps, retained>>
local == <<pc, call, work>>
vars == <<lock, record, dir, active, temps, retained, pc, call, work>>

-----------------------------------------------------------------------------
(* Control points.                                                         *)

Quiet == {"idle", "done", "error"}

\* Between these two points of a call the project lock carries its bytes.
LockedPoints ==
    {"mkdir", "fill", "verify", "temp", "rename", "reread", "confirmActive",
     "recheck"}

\* Points that a publication reaches with the lock and a recovery without.
SharedPoints ==
    {"create", "writeRecord", "transition", "replace", "confirmRecord", "readRetained",
     "writeRetained", "confirmRetained"}

EndPoints == {"unlock", "unlink", "giveUp", "discard"}

RecoverPoints == {"readTxn", "readActive", "verifyActive", "cleanTemps"}

Point ==
    Quiet \cup LockedPoints \cup SharedPoints \cup EndPoints \cup RecoverPoints
        \cup {"checkBoth", "acquire", "writeLock"}

Op == {"none", "publish", "recover", "rollback"}

NoCall == [op |-> "none", own |-> NoGen, target |-> NoGen]
NoWork == [goal |-> "none", found |-> "none", seen |-> {}]

Work == [goal : RecordState \cup {"none"}, found : RecordState \cup {"none", "Absent"},
         seen : SUBSET Generation]

\* The transactions a running call deals with.
Uses(p) ==
    IF pc[p] \in Quiet THEN {}
    ELSE {call[p].own.txn, call[p].target.txn}

Running(op) == \E p \in Proc : pc[p] \notin Quiet /\ call[p].op = op

Own(p) == call[p].own
OwnTxn(p) == call[p].own.txn

-----------------------------------------------------------------------------
(* Steps of a call, and how it ends.                                       *)

Goto(p, point) == pc' = [pc EXCEPT ![p] = point]

\* A call that ends forgets its arguments, and nobody renames its temporary
\* files any more.  Nothing else on disk changes: an error inside publish
\* or recover returns at once and leaves the lock, the record and the
\* directory as they are.
End(p, how) ==
    /\ Goto(p, how)
    /\ call' = [call EXCEPT ![p] = NoCall]
    /\ work' = [work EXCEPT ![p] = NoWork]
    /\ temps' = {<<IF t[1] = p THEN Orphan ELSE t[1], t[2]>> : t \in temps}

Fail(p) == End(p, "error") /\ UNCHANGED <<lock, record, dir, active, retained>>

\* The closure of a rollback reports an error only after it has tried to
\* release the lock.
Refuse(p) ==
    IF call[p].op = "rollback"
    THEN Goto(p, "giveUp") /\ UNCHANGED <<disk, call, work>>
    ELSE Fail(p)

-----------------------------------------------------------------------------
(* Reading and comparing.                                                  *)

\* verify_generation: the directory holds every file of the generation.
VerifyGeneration(g) == dir[g.txn] = [phase |-> "sealed", gen |-> g]

HasRecord(g, states) ==
    record[g.txn].state \in states /\ record[g.txn].gen = g

VerifyActiveGeneration(g) ==
    active = g /\ HasRecord(g, {"Published"}) /\ VerifyGeneration(g)

VerifyPublishedGeneration(g) ==
    HasRecord(g, {"Published"}) /\ VerifyGeneration(g)

ValidTransition(current, next) ==
    \/ current = "Preparing" /\ next \in {"Materialized", "Failed"}
    \/ current = "Materialized" /\ next \in {"Verified", "Failed"}
    \/ current = "Verified" /\ next \in {"Published", "Failed"}

\* A mistake to be caught: a verified publication never renames its record.
AfterRecordNoCommit(state) ==
    CASE state = "Preparing" -> "mkdir"
      [] state = "Materialized" -> "verify"
      [] state \in {"Verified", "Published"} -> "readRetained"
      [] state = "Failed" -> "cleanTemps"

\* Where a call goes on once its record has the state it wanted.
AfterRecord(state) ==
    CASE state = "Preparing" -> "mkdir"
      [] state = "Materialized" -> "verify"
      [] state = "Verified" -> "temp"
      [] state = "Published" -> "readRetained"
      [] state = "Failed" -> "cleanTemps"

GotoTransition(p, state) ==
    /\ Goto(p, "transition")
    /\ work' = [work EXCEPT ![p].goal = state]
    /\ UNCHANGED <<disk, call>>

-----------------------------------------------------------------------------
(* The project lock.                                                       *)

\* A mistake to be caught: opening the lock file without create-new.
AcquireLockAnyway(p) ==
    /\ pc[p] = "acquire"
    /\ lock' = TornGen
    /\ Goto(p, "writeLock")
    /\ UNCHANGED <<record, dir, active, temps, retained, call, work>>

\* create_new fails when the file exists: LockBusy.
AcquireLock(p) ==
    /\ pc[p] = "acquire"
    /\ \/ /\ lock # NoGen
          /\ Fail(p)
       \/ /\ lock = NoGen
          /\ lock' = TornGen
          /\ Goto(p, "writeLock")
          /\ UNCHANGED <<record, dir, active, temps, retained, call, work>>

WriteLock(p) ==
    /\ pc[p] = "writeLock"
    /\ lock' = Own(p)
    /\ IF call[p].op = "rollback"
       THEN Goto(p, "recheck") /\ UNCHANGED work
       ELSE /\ Goto(p, "create")
            /\ work' = [work EXCEPT ![p].goal = "Preparing"]
    /\ UNCHANGED <<record, dir, active, temps, retained, call>>

\* A mistake to be caught: a recovery returns without releasing the lock.
CheckLockKeeps(p) ==
    /\ pc[p] = "unlock"
    /\ IF lock = Own(p) /\ call[p].op # "recover"
       THEN Goto(p, "unlink") /\ UNCHANGED <<disk, call, work>>
       ELSE /\ End(p, IF call[p].op = "recover" THEN "done" ELSE "error")
            /\ UNCHANGED <<lock, record, dir, active, retained>>

\* release_lock_if_owned reads and compares, then removes.  A recovery is
\* content with a lock that is absent; a publication and a rollback are not.
CheckLock(p) ==
    /\ pc[p] = "unlock"
    /\ IF lock = Own(p)
       THEN Goto(p, "unlink") /\ UNCHANGED <<disk, call, work>>
       ELSE /\ End(p, IF lock = NoGen /\ call[p].op = "recover"
                      THEN "done" ELSE "error")
            /\ UNCHANGED <<lock, record, dir, active, retained>>

RemoveLock(p) ==
    /\ pc[p] = "unlink"
    /\ lock' = NoGen
    /\ End(p, IF lock = NoGen THEN "error" ELSE "done")
    /\ UNCHANGED <<record, dir, active, retained>>

\* The error path of a rollback: release the lock if it is owned, whatever
\* that gives, and report the error.
GiveUp(p) ==
    /\ pc[p] = "giveUp"
    /\ IF lock = Own(p)
       THEN Goto(p, "discard") /\ UNCHANGED <<disk, call, work>>
       ELSE Fail(p)

DiscardLock(p) ==
    /\ pc[p] = "discard"
    /\ lock' = NoGen
    /\ End(p, "error")
    /\ UNCHANGED <<record, dir, active, retained>>

-----------------------------------------------------------------------------
(* Transaction records.                                                    *)

\* create_transaction_record: create-new, then the bytes.
CreateRecord(p) ==
    /\ pc[p] = "create"
    /\ \/ /\ record[OwnTxn(p)].state # "Absent"
          /\ Fail(p)
       \/ /\ record[OwnTxn(p)].state = "Absent"
          /\ record' = [record EXCEPT ![OwnTxn(p)].state = "Torn"]
          /\ Goto(p, "writeRecord")
          /\ UNCHANGED <<lock, dir, active, temps, retained, call, work>>

WriteRecord(p) ==
    /\ pc[p] = "writeRecord"
    /\ record' = [record EXCEPT ![OwnTxn(p)] =
                     [state |-> work[p].goal, gen |-> Own(p)]]
    /\ Goto(p, AfterRecord(work[p].goal))
    /\ UNCHANGED <<lock, dir, active, temps, retained, call, work>>

\* transition reads and checks the record, replaces it, and reads it back.
CheckTransition(p) ==
    /\ pc[p] = "transition"
    /\ LET current == record[OwnTxn(p)]
       IN  IF current.gen = Own(p) /\ ValidTransition(current.state, work[p].goal)
           THEN Goto(p, "replace") /\ UNCHANGED <<disk, call, work>>
           ELSE Fail(p)

ReplaceRecord(p) ==
    /\ pc[p] = "replace"
    /\ record' = [record EXCEPT ![OwnTxn(p)] =
                     [state |-> work[p].goal, gen |-> Own(p)]]
    /\ Goto(p, "confirmRecord")
    /\ UNCHANGED <<lock, dir, active, temps, retained, call, work>>

ConfirmRecord(p) ==
    /\ pc[p] = "confirmRecord"
    /\ IF HasRecord(Own(p), {work[p].goal})
       THEN Goto(p, AfterRecord(work[p].goal)) /\ UNCHANGED <<disk, call, work>>
       ELSE Fail(p)

-----------------------------------------------------------------------------
(* The generation directory.                                               *)

\* The transaction-named directory must not exist yet.
CreateDirectory(p) ==
    /\ pc[p] = "mkdir"
    /\ \/ /\ dir[OwnTxn(p)].phase # "absent"
          /\ Fail(p)
       \/ /\ dir[OwnTxn(p)].phase = "absent"
          /\ dir' = [dir EXCEPT ![OwnTxn(p)] =
                        [phase |-> "partial", gen |-> Own(p)]]
          /\ Goto(p, "fill")
          /\ UNCHANGED <<lock, record, active, temps, retained, call, work>>

\* The five entries, the syncs and the read-only seal.
FillDirectory(p) ==
    /\ pc[p] = "fill"
    /\ dir' = [dir EXCEPT ![OwnTxn(p)].phase = "sealed"]
    /\ Goto(p, "transition")
    /\ work' = [work EXCEPT ![p].goal = "Materialized"]
    /\ UNCHANGED <<lock, record, active, temps, retained, call>>

VerifyMaterialized(p) ==
    /\ pc[p] = "verify"
    /\ IF VerifyGeneration(Own(p)) THEN GotoTransition(p, "Verified") ELSE Fail(p)

-----------------------------------------------------------------------------
(* publish_active: the rename of the temporary record is the commit point. *)

CreateTemp(p) ==
    /\ pc[p] = "temp"
    /\ temps' = temps \cup {<<p, call[p].target>>}
    /\ Goto(p, "rename")
    /\ UNCHANGED <<lock, record, dir, active, retained, call, work>>

RenameTemp(p) ==
    /\ pc[p] = "rename"
    /\ LET temp == <<p, call[p].target>>
       IN  IF temp \in temps
           THEN /\ active' = call[p].target
                /\ temps' = temps \ {temp}
                /\ Goto(p, "reread")
                /\ UNCHANGED <<lock, record, dir, retained, call, work>>
           ELSE Refuse(p)

RereadActive(p) ==
    /\ pc[p] = "reread"
    /\ IF active # call[p].target THEN Refuse(p)
       ELSE IF call[p].op = "publish" THEN GotoTransition(p, "Published")
       ELSE Goto(p, "confirmActive") /\ UNCHANGED <<disk, call, work>>

-----------------------------------------------------------------------------
(* update_retained: a read, an insertion and an atomic replacement.        *)

ReadRetained(p) ==
    /\ pc[p] = "readRetained"
    /\ work' = [work EXCEPT ![p].seen = retained]
    /\ Goto(p, "writeRetained")
    /\ UNCHANGED <<disk, call>>

\* A mistake to be caught: the edges of the other generations are dropped.
WriteRetainedAlone(p) ==
    /\ pc[p] = "writeRetained"
    /\ retained' = {Own(p)}
    /\ Goto(p, "confirmRetained")
    /\ UNCHANGED <<lock, record, dir, active, temps, call, work>>

WriteRetained(p) ==
    /\ pc[p] = "writeRetained"
    /\ retained' = work[p].seen \cup {Own(p)}
    /\ Goto(p, "confirmRetained")
    /\ UNCHANGED <<lock, record, dir, active, temps, call, work>>

ConfirmRetained(p) ==
    /\ pc[p] = "confirmRetained"
    /\ IF retained = work[p].seen \cup {Own(p)}
       THEN Goto(p, "unlock") /\ UNCHANGED <<disk, call, work>>
       ELSE Fail(p)

-----------------------------------------------------------------------------
(* recover.                                                                *)

\* A mistake to be caught: an empty record is accepted.
ReadTransactionTorn(p) ==
    /\ pc[p] = "readTxn"
    /\ work' = [work EXCEPT ![p].found = record[OwnTxn(p)].state]
    /\ Goto(p, "readActive")
    /\ UNCHANGED <<disk, call>>

\* A record whose bytes were never written does not parse.
ReadTransaction(p) ==
    /\ pc[p] = "readTxn"
    /\ LET found == record[OwnTxn(p)].state
       IN  IF found = "Torn" THEN Fail(p)
           ELSE /\ work' = [work EXCEPT ![p].found = found]
                /\ Goto(p, "readActive")
                /\ UNCHANGED <<disk, call>>

\* A mistake to be caught: the active record is not looked at.
ReadActiveBlind(p) ==
    /\ pc[p] = "readActive"
    /\ IF work[p].found \in {"Preparing", "Materialized", "Verified"}
       THEN GotoTransition(p, "Failed")
       ELSE Fail(p)

\* A mistake to be caught: Failed is written without the transition's check.
ReadActiveOverwrites(p) ==
    /\ pc[p] = "readActive"
    /\ IF active = Own(p)
       THEN Goto(p, "verifyActive") /\ UNCHANGED <<disk, call, work>>
       ELSE /\ Goto(p, "replace")
            /\ work' = [work EXCEPT ![p].goal = "Failed"]
            /\ UNCHANGED <<disk, call>>

\* A mistake to be caught: a transaction that was only prepared is refused.
ReadActiveStrict(p) ==
    /\ pc[p] = "readActive"
    /\ CASE active = Own(p) ->
                Goto(p, "verifyActive") /\ UNCHANGED <<disk, call, work>>
         [] active # Own(p) /\ work[p].found \in {"Materialized", "Verified"} ->
                GotoTransition(p, "Failed")
         [] OTHER -> Fail(p)

ReadActive(p) ==
    /\ pc[p] = "readActive"
    /\ LET found == work[p].found
       IN  CASE active = Own(p) ->
                    Goto(p, "verifyActive") /\ UNCHANGED <<disk, call, work>>
             [] active # Own(p) /\ active # NoGen /\ active.txn = OwnTxn(p) ->
                    Fail(p)
             [] OTHER ->
                    CASE found = "Published" -> Fail(p)
                      [] found = "Failed" ->
                            Goto(p, "cleanTemps") /\ UNCHANGED <<disk, call, work>>
                      [] found = "Absent" ->
                            /\ Goto(p, "create")
                            /\ work' = [work EXCEPT ![p].goal = "Failed"]
                            /\ UNCHANGED <<disk, call>>
                      [] OTHER -> GotoTransition(p, "Failed")

CompleteActive(p) ==
    /\ pc[p] = "verifyActive"
    /\ CASE ~VerifyGeneration(Own(p)) -> Fail(p)
         [] VerifyGeneration(Own(p)) /\ work[p].found = "Published" ->
                Goto(p, "readRetained") /\ UNCHANGED <<disk, call, work>>
         [] VerifyGeneration(Own(p)) /\ work[p].found = "Verified" ->
                GotoTransition(p, "Published")
         [] OTHER -> Fail(p)

\* A mistake to be caught: abandoned temporary records are left behind.
CleanTempsSkipped(p) ==
    /\ pc[p] = "cleanTemps"
    /\ Goto(p, "unlock")
    /\ UNCHANGED <<disk, call, work>>

\* remove_abandoned_active_temp compares bytes, whoever created the file.
CleanTemps(p) ==
    /\ pc[p] = "cleanTemps"
    /\ temps' = {t \in temps : t[2] # Own(p)}
    /\ Goto(p, "unlock")
    /\ UNCHANGED <<lock, record, dir, active, retained, call, work>>

-----------------------------------------------------------------------------
(* rollback_active_generation.                                             *)

\* A mistake to be caught: the generation to restore is not verified.
RollbackHoldsHalf(p) == VerifyActiveGeneration(Own(p))

RollbackHolds(p) ==
    /\ VerifyActiveGeneration(Own(p))
    /\ VerifyPublishedGeneration(call[p].target)

CheckBoth(p) ==
    /\ pc[p] = "checkBoth"
    /\ IF OwnTxn(p) # call[p].target.txn /\ RollbackHolds(p)
       THEN Goto(p, "acquire") /\ UNCHANGED <<disk, call, work>>
       ELSE Fail(p)

RecheckBoth(p) ==
    /\ pc[p] = "recheck"
    /\ IF RollbackHolds(p)
       THEN Goto(p, "temp") /\ UNCHANGED <<disk, call, work>>
       ELSE Refuse(p)

ConfirmRollback(p) ==
    /\ pc[p] = "confirmActive"
    /\ IF VerifyActiveGeneration(call[p].target)
       THEN Goto(p, "unlock") /\ UNCHANGED <<disk, call, work>>
       ELSE Refuse(p)

-----------------------------------------------------------------------------
(* Calls, crashes and errors.                                              *)

Begin(p, op, own, target, point) ==
    /\ pc[p] \in Quiet
    /\ Goto(p, point)
    /\ call' = [call EXCEPT ![p] = [op |-> op, own |-> own, target |-> target]]
    /\ UNCHANGED <<disk, work>>

Publish(p, g) == Begin(p, "publish", g, g, "acquire")
Recover(p, g) == Begin(p, "recover", g, g, "readTxn")
RollbackActiveGeneration(p, current, other) ==
    Begin(p, "rollback", current, other, "checkBoth")

\* The process ends between two file operations; nothing on disk changes.
Crash(p) ==
    /\ pc[p] \in CrashPoints \ Quiet
    /\ call[p].op \in CrashOps
    /\ End(p, "idle")
    /\ UNCHANGED <<lock, record, dir, active, retained>>

\* A file operation returns an error instead of taking effect.
StepFails(p) ==
    /\ pc[p] \in FailPoints \ Quiet
    /\ call[p].op \in CrashOps
    /\ IF pc[p] \in {"recheck", "temp", "rename", "reread", "confirmActive"}
       THEN Refuse(p)
       ELSE Fail(p)

Step(p) ==
    \/ AcquireLock(p) \/ WriteLock(p)
    \/ CheckLock(p) \/ RemoveLock(p) \/ GiveUp(p) \/ DiscardLock(p)
    \/ CreateRecord(p) \/ WriteRecord(p)
    \/ CheckTransition(p) \/ ReplaceRecord(p) \/ ConfirmRecord(p)
    \/ CreateDirectory(p) \/ FillDirectory(p) \/ VerifyMaterialized(p)
    \/ CreateTemp(p) \/ RenameTemp(p) \/ RereadActive(p)
    \/ ReadRetained(p) \/ WriteRetained(p) \/ ConfirmRetained(p)
    \/ ReadTransaction(p) \/ ReadActive(p) \/ CompleteActive(p) \/ CleanTemps(p)
    \/ CheckBoth(p) \/ RecheckBoth(p) \/ ConfirmRollback(p)

-----------------------------------------------------------------------------
(* The manager used as its callers are meant to use it: a transaction id   *)
(* is published once, and a recovery is for a transaction whose own call   *)
(* has ended.  Publications and rollbacks may overlap one another, and,    *)
(* unless RecoverAlone, recoveries of other transactions.                  *)

Idle(txns, ops) ==
    \A q \in Proc : call[q].op \in ops => txns \cap Uses(q) = {}

CallPublish(p) ==
    \E g \in Generation :
        /\ "publish" \in Ops
        /\ record[g.txn].state = "Absent"
        /\ Idle({g.txn}, Op)
        /\ RecoverAlone => ~Running("recover")
        /\ Publish(p, g)

CallRecover(p, g) ==
    /\ "recover" \in Ops
    /\ Idle({g.txn}, Op)
    /\ RecoverAlone => \A q \in Proc : pc[q] \in Quiet
    /\ Recover(p, g)

CallRollback(p) ==
    \E current, other \in Generation :
        /\ "rollback" \in Ops
        /\ Idle({current.txn, other.txn}, {"publish", "recover"})
        /\ RecoverAlone => ~Running("recover")
        /\ RollbackActiveGeneration(p, current, other)

Init ==
    /\ lock = NoGen
    /\ record = [t \in Txn |-> [state |-> "Absent", gen |-> NoGen]]
    /\ dir = [t \in Txn |-> [phase |-> "absent", gen |-> NoGen]]
    /\ active = NoGen
    /\ temps = {}
    /\ retained = {}
    /\ pc = [p \in Proc |-> "idle"]
    /\ call = [p \in Proc |-> NoCall]
    /\ work = [p \in Proc |-> NoWork]

Next ==
    \E p \in Proc :
        \/ CallPublish(p) \/ CallRollback(p) \/ \E g \in Generation : CallRecover(p, g)
        \/ Step(p) \/ Crash(p) \/ StepFails(p)

Spec == Init /\ [][Next]_vars

-----------------------------------------------------------------------------
(* Invariants.                                                             *)

\* Every variable and every control point has its type.
TypeOK ==
    /\ lock \in Generation \cup {NoGen, TornGen}
    /\ record \in [Txn -> [state : RecordState \cup {"Absent", "Torn"},
                           gen : Generation \cup {NoGen}]]
    /\ dir \in [Txn -> [phase : {"absent", "partial", "sealed"},
                        gen : Generation \cup {NoGen}]]
    /\ active \in Generation \cup {NoGen}
    /\ temps \in SUBSET ((Proc \cup {Orphan}) \X Generation)
    /\ retained \in SUBSET Generation
    /\ pc \in [Proc -> Point]
    /\ call \in [Proc -> [op : Op, own : Generation \cup {NoGen},
                          target : Generation \cup {NoGen}]]
    /\ work \in [Proc -> Work]

\* The one active record names a generation whose directory is complete and
\* whose transaction was verified or published, with the same identity,
\* whatever calls overlap and wherever they stop ("a mixed projection cannot
\* become or remain a verified active generation").
ActiveIsComplete ==
    active # NoGen =>
        /\ VerifyGeneration(active)
        /\ HasRecord(active, {"Verified", "Published"})

\* The calls between taking the project lock and dropping it.
Holds(p) ==
    \/ pc[p] \in LockedPoints \cup {"writeLock", "unlink", "giveUp", "discard"}
    \/ pc[p] \in SharedPoints \cup {"unlock"} /\ call[p].op # "recover"

\* At most one call is past the project lock, and the lock says which.
LockExcludes ==
    \A p \in Proc : Holds(p) =>
        /\ lock = IF pc[p] = "writeLock" THEN TornGen ELSE Own(p)
        /\ \A q \in Proc : Holds(q) => q = p

\* Published and Failed are terminal: no later step of any call changes such
\* a record, although a transition reads the record in one step and replaces
\* it in another.
TerminalRecords ==
    [][\A t \in Txn :
        record[t].state \in {"Published", "Failed"} => record'[t] = record[t]]_vars

\* A publication or rollback that reports success ends with its target
\* active and published and with the lock gone, although recoveries and
\* competing calls ran between its commit and its last step.
SuccessIsActive ==
    [][\A p \in Proc :
        (call[p].op \in {"publish", "rollback"} /\ pc'[p] = "done") =>
            /\ active' = call[p].target
            /\ HasRecord(call[p].target, {"Published"})
            /\ lock' = NoGen]_vars

\* Once every call has ended and no lock is left behind, each published
\* transaction has its edges in retained.record.
RetainedIsComplete ==
    (lock = NoGen /\ \A p \in Proc : pc[p] \in Quiet) =>
        \A t \in Txn :
            record[t].state = "Published" => record[t].gen \in retained

\* A recovery that succeeds leaves the transaction settled: it is published
\* and active, or failed without a temporary record that could be renamed,
\* and its lock is gone.
RecoverySettles ==
    [][\A p \in Proc :
        (call[p].op = "recover" /\ pc'[p] = "done" /\ pc[p] # "done") =>
            LET g == Own(p)
            IN  /\ lock' # g
                /\ \/ record'[g.txn].state = "Published" /\ active' = g
                   \/ record'[g.txn].state = "Failed" /\ \A t \in temps' : t[2] # g]_vars

-----------------------------------------------------------------------------
(* What the manager promises, without its files: ActiveGeneration.  A      *)
(* transaction is committed once it is published or named by the active    *)
(* record, and aborted once its record says Failed.                        *)

Committed == {g \in Generation : active = g \/ HasRecord(g, {"Published"})}
Aborted == {t \in Txn : record[t].state = "Failed"}

Promise == INSTANCE ActiveGeneration WITH
    current <- active, committed <- Committed, aborted <- Aborted

\* Every file operation of every call is a step of ActiveGeneration or
\* changes nothing it can see: the rename of the temporary record is the
\* only commit point.
KeepsPromise == Promise!Spec
=============================================================================
