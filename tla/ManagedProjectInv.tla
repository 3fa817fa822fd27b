-------------------------- MODULE ManagedProjectInv --------------------------
(***************************************************************************)
(* The inductive invariant of ManagedProject: what the managed record, the *)
(* lease and the memory of each command say of the manager's files.  Like  *)
(* that of the manager, it is checked by TLC on small instances and proved *)
(* inductive in ManagedProject_proofs.                                     *)
(***************************************************************************)
EXTENDS ManagedProject, GenerationManagerInv

LeasedOp == {"update", "recover", "rollback", "build"}

\* A command that may change the record or the manager's files: it has the
\* lease, or its reservation is the record.
Engaged(p) ==
    \/ cmd[p].op \in LeasedOp
    \/ cmd[p].op = "adopt" /\ cmd[p].at # "reserve"

Calling(p) == cmd[p].at = "calling"

-----------------------------------------------------------------------------
(* The discipline.                                                         *)

Reading == [declared : Declaration \cup {Unread}, config : Config \cup {Unread}]

ProjectTypes ==
    /\ managed \in ManagedRecord \cup {NoRecord, TornManaged}
    /\ source \in Source /\ mixed \in BOOLEAN
    /\ lease \in Proc \cup {NoProc}
    /\ cmd \in [Proc -> [op : LeasedOp \cup {"adopt", "none"}, at : CommandPoint,
                         rec : ManagedRecord \cup {NoRecord}, txn : Txn \cup {NoTxn},
                         read : Reading,
                         model : Content \cup {NoGen},
                         next : {"none", "finish", "remove", "advance", "clear"}]]

\* Reserved is what an adoption writes of itself.
Reserved(rec, t) ==
    rec.baseline = t /\ rec.active = t /\ rec.previous = NoTxn /\ rec.pending = t

AdoptPoints == {"reserve", "writeReservation", "rehash", "config", "compare", "packages",
                "calling", "finish"}
ModelPoints == {"declare", "config", "compare", "packages"}

\* What a command has at each of its points.
Command(p) ==
    LET c == cmd[p]
    IN  /\ c.op = "none" => c = NoCmd
        /\ c.op = "none" \/ c.at = "reserve" \/ c.rec \in ManagedRecord
        /\ c.op = "adopt" =>
              /\ c.at \in AdoptPoints
              /\ c.txn \in Txn
              /\ c.at = "reserve" => c.rec = NoRecord /\ c.model = NoGen
              /\ c.at # "reserve" =>
                    Reserved(c.rec, c.txn) /\ c.read.declared = c.rec.input.declared
              /\ c.at \in {"calling", "finish"} =>
                    c.model \in Content /\ c.model.config = c.read.config
        /\ c.op = "update" =>
              /\ c.at \in ModelPoints \cup {"mark", "calling", "finish"}
              /\ c.at \in ModelPoints => c.txn = NoTxn
              /\ c.at \notin ModelPoints => c.txn \in Txn /\ c.model \in Content
              /\ c.rec.pending = IF c.at \in ModelPoints \cup {"mark"} THEN NoTxn ELSE c.txn
        /\ c.op = "recover" =>
              /\ c.at \in ModelPoints
                    \cup {"inspect", "resolve", "calling", "remove", "advance", "clear"}
              /\ c.txn = NoTxn /\ c.rec.pending \in Txn
              /\ c.at \in {"resolve", "calling", "advance", "clear"} => c.model \in Content
        /\ c.op = "rollback" =>
              /\ c.at \in ModelPoints \cup {"calling", "finish"}
              /\ c.txn = NoTxn /\ c.rec.pending = NoTxn /\ c.rec.previous \in Txn
              /\ c.at \notin ModelPoints => c.model \in Content
        /\ c.op = "build" =>
              /\ c.at \in ModelPoints \cup {"building"}
              /\ c.txn = NoTxn /\ c.rec.pending = NoTxn
              /\ c.at = "building" => c.model \in Content
        /\ c.at = "calling" =>
              IF c.op = "recover" THEN c.next \in {"remove", "advance", "clear"}
              ELSE c.next = "finish"
        /\ c.at \in {"config", "compare", "packages"} => c.read.declared \in Declaration
        /\ c.at \in {"compare", "packages"} => c.read.config \in Config
        /\ c.at = "packages" => c.read.declared = c.rec.input.declared
        /\ c.model \in Content => c.model.declared = c.rec.input.declared

\* One command is engaged, and its copy of the record is the record.
EngagedInv ==
    \A p \in Proc :
        /\ cmd[p].op \in LeasedOp => lease = p
        /\ Engaged(p) =>
              /\ managed = IF cmd[p].at = "writeReservation" THEN TornManaged ELSE cmd[p].rec
              /\ \A q \in Proc : Engaged(q) => q = p
        /\ cmd[p].op = "recover" => \A q \in Proc : cmd[q].op # "adopt"

\* The call a command waits for.
CallOf(p) ==
    LET c == cmd[p]
    IN  CASE c.op \in {"adopt", "update"} ->
                [op |-> "publish", own |-> Gen(p, c.txn), target |-> Gen(p, c.txn)]
          [] c.op = "recover" ->
                [op |-> "recover", own |-> Gen(p, c.rec.pending), target |-> Gen(p, c.rec.pending)]
          [] c.op = "rollback" ->
                [op |-> "rollback", own |-> Gen(p, c.rec.active), target |-> Gen(p, c.rec.previous)]
          [] OTHER -> NoCall

\* Only a command at "calling" has the manager at work, for the call it made.
CallingInv ==
    \A p \in Proc :
        /\ Busy(p) => Calling(p) /\ call[p] = CallOf(p)
        /\ Calling(p) => pc[p] # "idle"

\* A transaction id that was drawn is not used by anyone else before its call.
DrawnInv ==
    \A p, q \in Proc :
        p # q =>
            /\ cmd[p].txn = cmd[q].txn => cmd[p].txn = NoTxn
            /\ (cmd[p].op = "adopt" /\ cmd[q].rec # NoRecord) =>
                    cmd[q].rec.pending # cmd[p].txn

BeforeCall(p) ==
    \/ cmd[p].op = "adopt" /\ cmd[p].at \notin {"calling", "finish"}
    \/ cmd[p].op = "update" /\ cmd[p].at = "mark"

UnwrittenInv ==
    \A p \in Proc : BeforeCall(p) => record[cmd[p].txn].state = "Absent"

DInv ==
    /\ ProjectTypes
    /\ \A p \in Proc : Command(p)
    /\ EngagedInv
    /\ CallingInv
    /\ DrawnInv
    /\ UnwrittenInv

-----------------------------------------------------------------------------
(* The record and the active generation.                                   *)

IsPublished(t) == record[t].state = "Published"

\* A rollback whose target was renamed into place, and that has not failed.
Switched(p) ==
    /\ cmd[p].op = "rollback"
    /\ \/ cmd[p].at = "finish"
       \/ Calling(p) /\ pc[p] \in {"reread", "confirmActive", "unlock", "unlink", "done"}

\* What the durable record says of the active generation.
RecordInv ==
    /\ ~IsManaged => active = NoGen
    /\ ActiveMatchesInput
    /\ IsManaged =>
          /\ managed.previous # NoTxn => IsPublished(managed.previous)
          /\ managed.pending = NoTxn =>
                IsPublished(managed.active) /\ active # NoGen
          /\ (managed.pending # NoTxn /\ managed.pending = managed.active) =>
                /\ Initial(managed)
                /\ active # NoGen => active.txn = managed.pending
          /\ (managed.pending # NoTxn /\ managed.pending # managed.active) =>
                /\ IsPublished(managed.active) /\ active # NoGen
                /\ active.txn \in {managed.active, managed.pending}

\* What a recovery reads of the active record before it calls the manager.
After(p) ==
    LET rec == cmd[p].rec
    IN  IF active = NoGen /\ Initial(rec) THEN "remove"
        ELSE IF active = Gen(p, rec.pending) THEN "advance" ELSE "clear"

\* The call of a command has reported success, or nothing is left of it to do.
Succeeded(p) == Calling(p) /\ pc[p] = "done"

Outcome(p) ==
    LET c == cmd[p]
        pending == c.rec.pending
    IN  /\ (c.op \in {"adopt", "update"} /\ (c.at = "finish" \/ Succeeded(p))) =>
              active = Gen(p, c.txn) /\ HasRecord(Gen(p, c.txn), {"Published"})
        /\ (c.op = "recover" /\ Calling(p)) => c.next = After(p)
        /\ (c.op = "recover" /\ Succeeded(p)) =>
              \/ active = Gen(p, pending) /\ HasRecord(Gen(p, pending), {"Published"})
              \/ record[pending].state = "Failed"
        /\ c.op = "recover" =>
              /\ c.at = "remove" =>
                    active = NoGen /\ Initial(c.rec) /\ record[pending].state \in {"Absent", "Failed"}
              /\ c.at = "advance" =>
                    active = Gen(p, pending) /\ HasRecord(Gen(p, pending), {"Published"})
              /\ c.at = "clear" =>
                    record[pending].state = "Failed" /\ ~(active = NoGen /\ Initial(c.rec))
        /\ (c.op = "rollback" /\ Calling(p) /\ pc[p] \in {"temp", "rename"}) =>
              active = Gen(p, c.rec.active)
        /\ Switched(p) => active = Gen(p, c.rec.previous)
        /\ (c.op = "build" /\ c.at = "building") => VerifyActiveGeneration(Gen(p, c.rec.active))
        /\ (c.op = "update" /\ c.at = "mark") => active = Gen(p, c.rec.active)
        \* What an update publishes is built like what is active.
        /\ (c.op = "update" /\ Calling(p)) => active # NoGen /\ active.content = c.model
        \* Without an edit between them the two hashes of an adoption agree.
        /\ (c.op = "adopt" /\ c.at = "compare" /\ ~mixed) => c.read.config = source.config
        /\ (c.op = "adopt" /\ c.at \in {"packages", "calling", "finish"} /\ ~mixed) =>
              c.read.config = c.rec.input.config

MInv == RecordInv /\ \A p \in Proc : Outcome(p)

\* A record without a pending transaction names another generation than the
\* active one only while a rollback is between its rename and the record: this
\* is lost when a rollback stops there.
SwitchInv ==
    (IsManaged /\ managed.pending = NoTxn /\ active.txn # managed.active) =>
        \E p \in Proc : Switched(p)

-----------------------------------------------------------------------------
(* The hypotheses of the theorems.                                         *)

\* About the constants: the commands have the manager's operations at their
\* disposal, and the callers of the manager are held to run a recovery alone,
\* which is what ManagerDiscipline asks.
AsDeployed ==
    /\ {"publish", "recover", "rollback"} \subseteq Ops
    /\ RecoverAlone

\* About the operator, whom nothing in the code holds to it: no recovery is
\* started while an adoption runs.
Starts(p, op) == cmd[p].op # op /\ cmd'[p].op = op
AdoptionsLeftAlone ==
    \A p \in Proc : Starts(p, "recover") => \A q \in Proc : cmd[q].op # "adopt"
RecoveriesWait == [][AdoptionsLeftAlone]_allVars
=============================================================================
