--------------------------- MODULE ManagedProject ---------------------------
(***************************************************************************)
(* The managed-project controller                                          *)
(* (src/rust/crates/leanbun-managed/src/lib.rs) over the active-generation *)
(* manager of the same project.                                            *)
(*                                                                         *)
(* Each command is run by a short-lived process.  Besides the manager's    *)
(* files a project has one durable managed record, one operation lease (an *)
(* advisory lock the kernel drops when its process ends) and its own       *)
(* sources, which the user may edit at any time.  A command reads the      *)
(* record, models the sources, calls the manager and replaces the record;  *)
(* the manager's file operations are the steps of GenerationManager.       *)
(*                                                                         *)
(* The sources are not read at once: the configuration file is parsed for  *)
(* its declaration, hashed for the lock and hashed once more for the       *)
(* management input, and the dependencies are read last.  A generation may *)
(* therefore be built from texts that were never there together.           *)
(*                                                                         *)
(* A command that finds the lease taken, the record absent, or a pending   *)
(* transaction it does not expect returns an error and changes nothing:    *)
(* these returns are the guards of the Start actions.                      *)
(***************************************************************************)
EXTENDS GenerationManager

CONSTANTS
    NoTxn,         \* "-" in the managed record
    NoRecord,      \* there is no managed record
    TornManaged,   \* the managed record exists but is still empty
    NoProc,        \* nobody holds the operation lease
    Source,        \* what the project directory may hold
    DeclaredBy,    \* the declaration in a configuration file
    Unread,        \* of the sources: not read yet
    AdoptAlone     \* TRUE: the operator runs no recovery while an adoption runs

\* A configuration file; what pins the toolchain and the packages
\* (lean-toolchain, lake-manifest.json); the packages themselves, which for a
\* path dependency are its tree.
Config == {s.config : s \in Source}
Pins == {s.pins : s \in Source}
Packages == {s.packages : s \in Source}
Declaration == {DeclaredBy[c] : c \in Config}

\* What management_input_sha256 hashes: not the packages.
Input == [declared : Declaration, config : Config, pins : Pins]

ManagedRecord ==
    [baseline : Txn, active : Txn, previous : Txn \cup {NoTxn},
     pending : Txn \cup {NoTxn}, input : Input]

\* A generation is built from a declaration, the hash of a configuration file
\* in its lock, and packages.
ASSUME ProjectAssumption ==
    /\ Source \subseteq [config : Config, pins : Pins, packages : Packages]
    /\ Content = [declared : Declaration, config : Config, packages : Packages]
    /\ NoTxn \notin Txn
    /\ NoProc \notin Proc
    /\ NoGen \notin Content
    /\ NoRecord # TornManaged
    /\ {NoRecord, TornManaged} \cap ManagedRecord = {}
    /\ AdoptAlone \in BOOLEAN

VARIABLES
    managed,    \* registry/<project>.record
    lease,      \* the holder of project-control/<project>/operation.lock
    source,     \* what the project directory holds
    cmd,        \* the command each process runs
    \* History: an edit of the configuration came between the two hashes that
    \* the adoption of this project took of it.  No action depends on it.
    mixed

projectVars == <<managed, lease, source, cmd, mixed>>
allVars == <<vars, projectVars>>

\* What a command has read of the sources: the declaration, and the hash of the
\* configuration for the lock.
NothingRead == [declared |-> Unread, config |-> Unread]

NoCmd == [op |-> "none", at |-> "none", rec |-> NoRecord, txn |-> NoTxn,
          read |-> NothingRead, model |-> NoGen, next |-> "none"]

Free(p) == cmd[p].op = "none"
At(p, op, point) == cmd[p].op = op /\ cmd[p].at = point

IsManaged == managed \notin {NoRecord, TornManaged}

\* The generation a transaction denotes with the sources the command read.
Gen(p, t) == [txn |-> t, content |-> cmd[p].model]

\* A new transaction id is a hash of the clock and the process id.
Fresh(t) ==
    /\ record[t].state = "Absent"
    /\ dir[t].phase = "absent"
    /\ lock \notin {NoGen, TornGen} => lock.txn # t
    /\ \A q \in Proc :
        /\ cmd[q].txn # t
        /\ cmd[q].rec # NoRecord => cmd[q].rec.pending # t
    /\ IsManaged => t \notin {managed.baseline, managed.active,
                              managed.previous, managed.pending}

-----------------------------------------------------------------------------
(* How a command advances.                                                 *)

Move(p, point) == cmd' = [cmd EXCEPT ![p].at = point]

\* Process exit drops the lease.
Exit(p) ==
    /\ cmd' = [cmd EXCEPT ![p] = NoCmd]
    /\ lease' = IF lease = p THEN NoProc ELSE lease

Quit(p) == Exit(p) /\ UNCHANGED <<vars, managed, source, mixed>>

\* replace_record renames a complete new record over whatever is there.
FinishWith(p, rec) ==
    /\ managed' = rec
    /\ Exit(p)
    /\ UNCHANGED <<vars, source, mixed>>

Start(p, op, point) ==
    /\ Free(p)
    /\ cmd' = [cmd EXCEPT ![p] = [NoCmd EXCEPT !.op = op, !.at = point, !.rec = managed]]
    /\ UNCHANGED <<vars, managed, source, mixed>>

\* acquire_operation_lease does not wait.
StartLeased(p, op, point) ==
    /\ lease = NoProc
    /\ lease' = p
    /\ Start(p, op, point)

\* A mistake to be caught: the manager's error is ignored.
CallReturnedAnyway(p) ==
    /\ cmd[p].at = "calling"
    /\ pc[p] \in {"done", "error"}
    /\ Move(p, cmd[p].next)
    /\ UNCHANGED <<vars, managed, lease, source, mixed>>

\* A command waits for its call of the manager and stops if that fails.
CallReturned(p) ==
    /\ cmd[p].at = "calling"
    /\ pc[p] \in {"done", "error"}
    /\ IF pc[p] = "error" THEN Quit(p)
       ELSE Move(p, cmd[p].next) /\ UNCHANGED <<vars, managed, lease, source, mixed>>

-----------------------------------------------------------------------------
(* model, model_with_declaration and require_model_identity: one reading   *)
(* after another, with the user's edits in between.  An adoption keeps the *)
(* declaration it parsed before it made its reservation.                   *)

Declare(p) ==
    /\ cmd[p].at = "declare"
    /\ cmd' = [cmd EXCEPT ![p].at = "config", ![p].read.declared = DeclaredBy[source.config]]
    /\ UNCHANGED <<vars, managed, lease, source, mixed>>

\* config_sha256, for the lock of the generation.
HashConfig(p) ==
    /\ cmd[p].at = "config"
    /\ cmd' = [cmd EXCEPT ![p].at = "compare", ![p].read.config = source.config]
    /\ UNCHANGED <<vars, managed, lease, source, mixed>>

InputOf(declared, s) == [declared |-> declared, config |-> s.config, pins |-> s.pins]

\* A mistake to be caught: sources are modelled and not compared.
ModelMatchesAnything(p) == TRUE

\* The management input hashes the configuration again, and the toolchain and
\* the manifest; only this second reading is compared with the record.
ModelMatches(p) == InputOf(cmd[p].read.declared, source) = cmd[p].rec.input

Compare(p) ==
    /\ cmd[p].at = "compare"
    /\ IF ModelMatches(p) THEN Move(p, "packages") /\ UNCHANGED <<vars, managed, lease, source, mixed>>
       ELSE Quit(p)

\* The packages are read last, and the generation is built from what was read.
Modelled(p) ==
    [declared |-> cmd[p].read.declared, config |-> cmd[p].read.config,
     packages |-> source.packages]

-----------------------------------------------------------------------------
(* adopt: no lease; the reservation is the managed record itself.          *)

StartAdopt(p) ==
    \E t \in Txn :
        /\ Fresh(t)
        /\ managed = NoRecord
        /\ Free(p)
        /\ cmd' = [cmd EXCEPT ![p] =
                [NoCmd EXCEPT !.op = "adopt", !.at = "reserve", !.txn = t]]
        /\ UNCHANGED <<vars, managed, lease, source, mixed>>

\* The declaration was parsed and the input hashed before the record is created,
\* one after the other: the user may have edited since, and in between, so they
\* are those of any sources.
Reserve(p) ==
    /\ At(p, "adopt", "reserve")
    /\ IF managed # NoRecord THEN Quit(p)
       ELSE \E declared \in Declaration, seen \in Source :
            LET t == cmd[p].txn
                reservation == [baseline |-> t, active |-> t, previous |-> NoTxn, pending |-> t,
                                input |-> InputOf(declared, seen)]
            IN  /\ managed' = TornManaged
                /\ mixed' = FALSE
                /\ cmd' = [cmd EXCEPT ![p].at = "writeReservation", ![p].rec = reservation,
                                      ![p].read.declared = declared]
                /\ UNCHANGED <<vars, lease, source>>

WriteReservation(p) ==
    /\ At(p, "adopt", "writeReservation")
    /\ managed' = cmd[p].rec
    /\ Move(p, "rehash")
    /\ UNCHANGED <<vars, lease, source, mixed>>

\* The tree must be the one that was hashed first of all: that of any sources.
Rehash(p) ==
    /\ At(p, "adopt", "rehash")
    /\ \E tree \in Source :
        IF source # tree THEN Quit(p)
        ELSE Move(p, "config") /\ UNCHANGED <<vars, managed, lease, source, mixed>>

\* They have been read once more to build the generation that is published.
AdoptPublish(p) ==
    /\ At(p, "adopt", "packages")
    /\ Publish(p, [txn |-> cmd[p].txn, content |-> Modelled(p)])
    /\ cmd' = [cmd EXCEPT ![p].at = "calling", ![p].model = Modelled(p),
                          ![p].next = "finish"]
    /\ UNCHANGED <<managed, lease, source, mixed>>

AdoptFinish(p) ==
    /\ At(p, "adopt", "finish")
    /\ FinishWith(p, [cmd[p].rec EXCEPT !.pending = NoTxn])

-----------------------------------------------------------------------------
(* update.                                                                 *)

StartUpdate(p) ==
    /\ IsManaged
    /\ managed.pending = NoTxn
    /\ StartLeased(p, "update", "declare")

\* A mistake to be caught: the active generation is not verified.
UpdateInspectUnverified(p) ==
    /\ At(p, "update", "packages")
    /\ \E t \in Txn :
        /\ Fresh(t)
        /\ cmd' = [cmd EXCEPT ![p].at = "mark", ![p].txn = t, ![p].model = Modelled(p)]
        /\ UNCHANGED <<vars, managed, lease, source, mixed>>

\* The active generation must verify against the sources as they were read;
\* then a transaction id is drawn.
UpdateInspect(p) ==
    /\ At(p, "update", "packages")
    /\ IF ~VerifyActiveGeneration([txn |-> cmd[p].rec.active, content |-> Modelled(p)])
       THEN Quit(p)
       ELSE \E t \in Txn :
            /\ Fresh(t)
            /\ cmd' = [cmd EXCEPT ![p].at = "mark", ![p].txn = t, ![p].model = Modelled(p)]
            /\ UNCHANGED <<vars, managed, lease, source, mixed>>

\* A mistake to be caught: the pending mark is not written.
UpdateMarkUnwritten(p) ==
    /\ At(p, "update", "mark")
    /\ cmd' = [cmd EXCEPT ![p].rec.pending = cmd[p].txn, ![p].at = "calling",
                          ![p].next = "finish"]
    /\ Publish(p, Gen(p, cmd[p].txn))
    /\ UNCHANGED <<managed, lease, source, mixed>>

\* The pending transaction is durable before the manager is called.
UpdateMark(p) ==
    /\ At(p, "update", "mark")
    /\ LET marked == [cmd[p].rec EXCEPT !.pending = cmd[p].txn]
       IN  /\ managed' = marked
           /\ cmd' = [cmd EXCEPT ![p].rec = marked, ![p].at = "calling",
                                 ![p].next = "finish"]
    /\ Publish(p, Gen(p, cmd[p].txn))
    /\ UNCHANGED <<lease, source, mixed>>

\* The record of a project whose pending transaction became active.
Advanced(rec) ==
    [rec EXCEPT !.previous = rec.active, !.active = rec.pending, !.pending = NoTxn]

UpdateFinish(p) ==
    /\ At(p, "update", "finish")
    /\ FinishWith(p, Advanced(cmd[p].rec))

-----------------------------------------------------------------------------
(* recover.                                                                *)

\* A mistake to be caught: recover without the lease.
StartRecoverUnleased(p) ==
    /\ IsManaged
    /\ managed.pending # NoTxn
    /\ AdoptAlone => \A q \in Proc : cmd[q].op # "adopt"
    /\ Start(p, "recover", "inspect")
    /\ UNCHANGED lease

StartRecover(p) ==
    /\ IsManaged
    /\ managed.pending # NoTxn
    /\ AdoptAlone => \A q \in Proc : cmd[q].op # "adopt"
    /\ StartLeased(p, "recover", "inspect")

Initial(rec) ==
    /\ rec.pending = rec.baseline
    /\ rec.pending = rec.active
    /\ rec.previous = NoTxn

\* A reservation without a transaction record is removed without a look at
\* the manager's state.
RecoverInspect(p) ==
    /\ At(p, "recover", "inspect")
    /\ LET rec == cmd[p].rec
       IN  IF Initial(rec) /\ record[rec.pending].state = "Absent"
           THEN Move(p, "remove")
           ELSE Move(p, "declare")
    /\ UNCHANGED <<vars, managed, lease, source, mixed>>

RecoverModel(p) ==
    /\ At(p, "recover", "packages")
    /\ cmd' = [cmd EXCEPT ![p].at = "resolve", ![p].model = Modelled(p)]
    /\ UNCHANGED <<vars, managed, lease, source, mixed>>

\* A mistake to be caught: a committed transaction does not advance the record.
RecoverResolveForgets(p) ==
    /\ At(p, "recover", "resolve")
    /\ Recover(p, Gen(p, cmd[p].rec.pending))
    /\ cmd' = [cmd EXCEPT ![p].at = "calling",
                ![p].next = IF active = NoGen /\ Initial(cmd[p].rec)
                            THEN "remove" ELSE "clear"]
    /\ UNCHANGED <<managed, lease, source, mixed>>

\* A mistake to be caught: the record advances whatever is active.
RecoverResolveAdvances(p) ==
    /\ At(p, "recover", "resolve")
    /\ Recover(p, Gen(p, cmd[p].rec.pending))
    /\ cmd' = [cmd EXCEPT ![p].at = "calling", ![p].next = "advance"]
    /\ UNCHANGED <<managed, lease, source, mixed>>

\* The active reference is read before the manager is called and decides what
\* becomes of the record afterwards.
RecoverResolve(p) ==
    /\ At(p, "recover", "resolve")
    /\ LET rec == cmd[p].rec
           pending == Gen(p, rec.pending)
           after == IF active = NoGen /\ Initial(rec) THEN "remove"
                    ELSE IF active = pending THEN "advance" ELSE "clear"
       IN  /\ Recover(p, pending)
           /\ cmd' = [cmd EXCEPT ![p].at = "calling", ![p].next = after]
    /\ UNCHANGED <<managed, lease, source, mixed>>

\* A mistake to be caught: the pending mark of a failed update stays.
RecoverFinishKeepsMark(p) ==
    /\ cmd[p].op = "recover"
    /\ \/ cmd[p].at = "remove" /\ FinishWith(p, NoRecord)
       \/ cmd[p].at = "advance" /\ FinishWith(p, Advanced(cmd[p].rec))
       \/ cmd[p].at = "clear" /\ FinishWith(p, cmd[p].rec)

RecoverFinish(p) ==
    /\ cmd[p].op = "recover"
    /\ \/ cmd[p].at = "remove" /\ FinishWith(p, NoRecord)
       \/ cmd[p].at = "advance" /\ FinishWith(p, Advanced(cmd[p].rec))
       \/ /\ cmd[p].at = "clear"
          /\ FinishWith(p, [cmd[p].rec EXCEPT !.pending = NoTxn])

-----------------------------------------------------------------------------
(* rollback: the record is not marked before the manager is called.        *)

StartRollback(p) ==
    /\ IsManaged
    /\ managed.pending = NoTxn
    /\ managed.previous # NoTxn
    /\ StartLeased(p, "rollback", "declare")

RollbackSwitch(p) ==
    /\ At(p, "rollback", "packages")
    /\ LET rec == cmd[p].rec
       IN  /\ RollbackActiveGeneration(p,
                  [txn |-> rec.active, content |-> Modelled(p)],
                  [txn |-> rec.previous, content |-> Modelled(p)])
           /\ cmd' = [cmd EXCEPT ![p].at = "calling", ![p].model = Modelled(p),
                                 ![p].next = "finish"]
           /\ UNCHANGED <<managed, lease, source, mixed>>

RollbackFinish(p) ==
    /\ At(p, "rollback", "finish")
    /\ LET rec == cmd[p].rec
       IN  FinishWith(p, [rec EXCEPT !.previous = rec.active, !.active = rec.previous])

-----------------------------------------------------------------------------
(* build: verified before and after Lake runs, all under the lease.        *)

\* A mistake to be caught: build without the lease.
StartBuildUnleased(p) ==
    /\ IsManaged
    /\ managed.pending = NoTxn
    /\ Start(p, "build", "declare")
    /\ UNCHANGED lease

StartBuild(p) ==
    /\ IsManaged
    /\ managed.pending = NoTxn
    /\ StartLeased(p, "build", "declare")

BuildGate(p) ==
    /\ At(p, "build", "packages")
    /\ IF VerifyActiveGeneration([txn |-> cmd[p].rec.active, content |-> Modelled(p)])
       THEN /\ cmd' = [cmd EXCEPT ![p].at = "building", ![p].model = Modelled(p)]
            /\ UNCHANGED <<vars, managed, lease, source, mixed>>
       ELSE Quit(p)

BuildEnd(p) == At(p, "build", "building") /\ Quit(p)

-----------------------------------------------------------------------------
(* The manager's steps, the user, crashes.                                 *)

ManagerStep(p) ==
    /\ cmd[p].at = "calling"
    /\ Step(p) \/ StepFails(p)
    /\ UNCHANGED projectVars

EditSource ==
    /\ source' \in Source
    /\ mixed' = (mixed \/ /\ source'.config # source.config
                          /\ \E p \in Proc : At(p, "adopt", "compare"))
    /\ UNCHANGED <<vars, managed, lease, cmd>>

CrashCommand(p) ==
    /\ cmd[p].op \in CrashOps
    /\ IF pc[p] \in Quiet
       THEN cmd[p].at \in CrashPoints /\ UNCHANGED vars
       ELSE Crash(p)
    /\ Exit(p)
    /\ UNCHANGED <<managed, source, mixed>>

ProjectInit ==
    /\ Init
    /\ managed = NoRecord
    /\ lease = NoProc
    /\ source \in Source
    /\ cmd = [p \in Proc |-> NoCmd]
    /\ mixed = FALSE

CommandStep(p) ==
    \/ Declare(p) \/ HashConfig(p) \/ Compare(p)
    \/ Reserve(p) \/ WriteReservation(p) \/ Rehash(p)
    \/ AdoptPublish(p) \/ AdoptFinish(p)
    \/ UpdateInspect(p) \/ UpdateMark(p) \/ UpdateFinish(p)
    \/ RecoverInspect(p) \/ RecoverModel(p) \/ RecoverResolve(p) \/ RecoverFinish(p)
    \/ RollbackSwitch(p) \/ RollbackFinish(p)
    \/ BuildGate(p) \/ BuildEnd(p)
    \/ CallReturned(p)

ProjectNext ==
    \/ \E p \in Proc :
        \/ "adopt" \in Ops /\ StartAdopt(p)
        \/ "update" \in Ops /\ StartUpdate(p)
        \/ "recover" \in Ops /\ StartRecover(p)
        \/ "rollback" \in Ops /\ StartRollback(p)
        \/ "build" \in Ops /\ StartBuild(p)
        \/ CommandStep(p) \/ ManagerStep(p) \/ CrashCommand(p)
    \/ EditSource

ProjectSpec == ProjectInit /\ [][ProjectNext]_allVars

\* Commands that run go on, and the operator recovers a pending project.
FairProjectSpec ==
    /\ ProjectSpec
    /\ \A p \in Proc :
        /\ WF_allVars(CommandStep(p))
        /\ WF_allVars(cmd[p].at = "calling" /\ Step(p) /\ UNCHANGED projectVars)
    /\ WF_allVars(\E p \in Proc : StartRecover(p))

-----------------------------------------------------------------------------
CommandPoint ==
    {"none", "inspect", "reserve", "writeReservation", "rehash", "declare", "config",
     "compare", "packages", "mark", "calling", "finish", "resolve", "remove", "advance",
     "clear", "building"}

AllFree == \A p \in Proc : Free(p)

\* Between commands, a record without a pending transaction names the
\* generation that is active; when a command stopped between the commit and
\* the record, the record is pending, so that recover accepts it and completes
\* it ("recover re-verifies the generation and completes the record").
RecordFollowsActive ==
    (AllFree /\ IsManaged /\ managed.pending = NoTxn) =>
        active # NoGen /\ active.txn = managed.active

\* Write-ahead: a transaction only becomes active for the first time while the
\* durable record names it as pending, and that mark is dropped only when the
\* transaction can do nothing more: it is published and active, it has failed,
\* or it never wrote a record and its reservation goes with it.
PendingGuardsCommit ==
    [][/\ (active' # active /\ ~HasRecord(active', {"Published"})) =>
            IsManaged /\ managed.pending = active'.txn
       /\ \A t \in Txn :
            (IsManaged /\ managed.pending = t /\ managed' # managed) =>
                \/ active = record[t].gen /\ record[t].state = "Published"
                \/ record[t].state = "Failed"
                \/ record[t].state = "Absent" /\ managed' = NoRecord]_allVars

\* The previous generation named by the record can be restored: it is
\* published and complete.
PreviousIsRestorable ==
    (IsManaged /\ managed.previous # NoTxn) =>
        LET r == record[managed.previous]
        IN  r.state = "Published" /\ VerifyGeneration(r.gen)

\* While Lake runs, the generation it was given stays active and complete.
BuildIsStable ==
    \A p \in Proc :
        At(p, "build", "building") =>
            VerifyActiveGeneration([txn |-> cmd[p].rec.active, content |-> cmd[p].model])

\* The active generation has the declaration the project was adopted with, and
\* the configuration too unless an edit came between the two hashes its adoption
\* took of it: only the second is compared (lib.rs:838, 839).  Edits anywhere
\* else, in the adoption or later, are caught.
ActiveMatchesInput ==
    (IsManaged /\ active # NoGen) =>
        /\ active.content.declared = managed.input.declared
        /\ mixed \/ active.content.config = managed.input.config

\* What a project has active is built from what was adopted for good: an update,
\* a rollback or a recovery that reads edited sources, or some before and some
\* after an edit, activates nothing that was built from them, although the
\* packages are not part of the input they compare.
ContentIsAdopted ==
    [][active # NoGen =>
            active' # NoGen /\ active'.content = active.content]_allVars

\* The lease and the pending record keep the discipline the manager relies on:
\* transaction ids are published once, and a recovery overlaps no other call
\* (GenerationManager's Spec with RecoverAlone).
ManagerDiscipline == Spec

\* A project without a managed record, with no command running, is free to be
\* added again: no project lock is left in its state directory.
UnmanagedIsFree ==
    (AllFree /\ managed = NoRecord) => lock = NoGen

\* A pending mark does not stay: the command that set it, or a recovery,
\* clears it.
PendingSettles ==
    \A t \in Txn :
        (IsManaged /\ managed.pending = t) ~> ~(IsManaged /\ managed.pending = t)

\* A transaction whose record was begun is settled: the record becomes final and
\* the project lock is released, though only the pending mark brings the operator
\* to recover it.
Settled(t) ==
    /\ record[t].state \in {"Published", "Failed"}
    /\ ~(lock \notin {NoGen, TornGen} /\ lock.txn = t)

BegunIsSettled == \A t \in Txn : record[t].state # "Absent" /\ ~Settled(t) ~> Settled(t)
=============================================================================
