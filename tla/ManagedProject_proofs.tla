------------------------- MODULE ManagedProject_proofs -------------------------
(***************************************************************************)
(* The commands of a managed project keep the discipline the manager       *)
(* relies on, and the durable record follows the active generation.        *)
(***************************************************************************)
EXTENDS ManagedProjectInv, GenerationManager_proofs

USE GenAssumption, ProjectAssumption

\* The invariants hold before any command.
LEMMA ProjectInitInv == ProjectInit => Init /\ DInv /\ MInv /\ SwitchInv
<1> SUFFICES ASSUME ProjectInit PROVE DInv /\ MInv /\ SwitchInv
  BY DEF ProjectInit
<1> USE DEF ProjectInit, Init, NoCmd
<1>1. ProjectTypes
  BY DEF ProjectTypes, CommandPoint, LeasedOp, Reading, NothingRead
<1>2. \A p \in Proc : Command(p)
  BY DEF Command, NoCmd
<1>3. EngagedInv /\ CallingInv /\ DrawnInv /\ UnwrittenInv
  BY DEF EngagedInv, Engaged, LeasedOp, CallingInv, Calling, Busy, Quiet, DrawnInv,
     UnwrittenInv, BeforeCall
<1>4. MInv /\ SwitchInv
  BY DEF MInv, RecordInv, ActiveMatchesInput, SwitchInv, IsManaged, Outcome, Succeeded, Calling, Switched
<1>5. QED
  BY <1>1, <1>2, <1>3, <1>4 DEF DInv

-----------------------------------------------------------------------------
(* What a step of a call changes.                                          *)

\* A step of a call changes the memory of that call only, and goes on or ends.
LEMMA StepIsOwn ==
    ASSUME IInv, NEW p \in Proc, Step(p) \/ StepFails(p)
    PROVE  Busy(p) /\ OnlyOf(p) /\ pc'[p] # "idle"
<1>0. /\ pc \in [Proc -> Point] /\ call \in [Proc -> [op : Op,
             own : Generation \cup {NoGen}, target : Generation \cup {NoGen}]]
      /\ work \in [Proc -> Work]
  BY DEF IInv, TypeOK
<1> DEFINE Ended == \E how \in {"done", "error"} : End(p, how)
           Went == \E point \in Point \ Quiet :
                      /\ Goto(p, point) /\ call' = call
                      /\ work' = work \/ \E w : work' = [work EXCEPT ![p] = w]
<1>1. Fail(p) => Ended
  BY DEF Fail
<1>2. Refuse(p) => Ended \/ Went
  BY <1>1 DEF Refuse, Point, Quiet, EndPoints
<1>3. Busy(p)
  BY DEF Step, StepFails, Busy, Quiet, AcquireLock, WriteLock, CheckLock, RemoveLock,
     GiveUp, DiscardLock, CreateRecord, WriteRecord, CheckTransition, ReplaceRecord,
     ConfirmRecord, CreateDirectory, FillDirectory, VerifyMaterialized, CreateTemp,
     RenameTemp, RereadActive, ReadRetained, WriteRetained, ConfirmRetained,
     ReadTransaction, ReadActive, CompleteActive, CleanTemps, CheckBoth, RecheckBoth,
     ConfirmRollback
<1>4. ASSUME AcquireLock(p) \/ WriteLock(p) \/ CheckLock(p) \/ RemoveLock(p) \/ GiveUp(p)
             \/ DiscardLock(p)
      PROVE  Ended \/ Went
  BY <1>1, <1>4 DEF AcquireLock, WriteLock, CheckLock, RemoveLock, GiveUp, DiscardLock,
     Point, Quiet, EndPoints, LockedPoints, SharedPoints
<1>5. \A goal : AfterRecord(goal) \in Point \ Quiet \/ goal \notin RecordState
  BY DEF AfterRecord, Point, Quiet, LockedPoints, SharedPoints, RecoverPoints, RecordState
<1>6. ASSUME CreateRecord(p) \/ CheckTransition(p) \/ ReplaceRecord(p)
      PROVE  Ended \/ Went
  BY <1>1, <1>6 DEF CreateRecord, CheckTransition, ReplaceRecord, Point, Quiet, SharedPoints
<1>7. ASSUME WriteRecord(p) \/ ConfirmRecord(p)
      PROVE  Ended \/ Went
  <2>1. work[p].goal \in RecordState
    BY <1>3, <1>7, AtPoint DEF WriteRecord, ConfirmRecord, Progress, PublishInv, RecoverInv,
       AtItsPoint, RollbackPoints, EndPoints, RecordState
  <2>2. QED
    BY <1>1, <1>5, <1>7, <2>1 DEF WriteRecord, ConfirmRecord
<1>8. ASSUME CreateDirectory(p) \/ FillDirectory(p) \/ VerifyMaterialized(p)
             \/ CreateTemp(p) \/ RenameTemp(p) \/ RereadActive(p)
      PROVE  Ended \/ Went
  BY <1>1, <1>2, <1>8 DEF CreateDirectory, FillDirectory, VerifyMaterialized, CreateTemp,
     RenameTemp, RereadActive, GotoTransition, Point, Quiet, LockedPoints, SharedPoints
<1>9. ASSUME ReadRetained(p) \/ WriteRetained(p) \/ ConfirmRetained(p)
             \/ ReadTransaction(p) \/ ReadActive(p) \/ CompleteActive(p) \/ CleanTemps(p)
      PROVE  Ended \/ Went
  BY <1>1, <1>9 DEF ReadRetained, WriteRetained, ConfirmRetained, ReadTransaction,
     ReadActive, CompleteActive, CleanTemps, GotoTransition, Point, Quiet, SharedPoints,
     RecoverPoints, EndPoints
<1>10. ASSUME CheckBoth(p) \/ RecheckBoth(p) \/ ConfirmRollback(p) \/ StepFails(p)
       PROVE  Ended \/ Went
  BY <1>1, <1>2, <1>10 DEF CheckBoth, RecheckBoth, ConfirmRollback, StepFails, Point,
     Quiet, EndPoints, LockedPoints
<1>11. Ended \/ Went
  BY <1>4, <1>6, <1>7, <1>8, <1>9, <1>10 DEF Step
<1>12. CASE Ended
  BY <1>0, <1>3, <1>12, EndIsOwn DEF End, Goto, Quiet
<1>13. CASE Went
  BY <1>0, <1>3, <1>13, GotoIsOwn DEF Quiet
<1>14. QED
  BY <1>11, <1>12, <1>13

\* Of the records, a call writes that of its own transaction only, and no final
\* one; it makes its own target active, by the rename.
LEMMA StepWrites ==
    ASSUME IInv, NEW p \in Proc, Step(p) \/ StepFails(p) \/ Crash(p)
    PROVE  /\ \A t \in Txn : record'[t] # record[t] =>
                  /\ t = OwnTxn(p) /\ call[p].op \in {"publish", "recover"}
                  /\ record[t].state \notin {"Published", "Failed"}
           /\ active' # active =>
                  /\ active' = call[p].target /\ call[p].op \in {"publish", "rollback"}
                  /\ pc[p] = "rename" /\ pc'[p] = "reread" /\ record' = record
<1>1. CASE record' = record /\ active' = active
  BY <1>1
<1>2. CASE RenameTemp(p) /\ ~Refuse(p) /\ record' = record
  <2>1. /\ pc[p] = "rename" /\ active' = call[p].target /\ Goto(p, "reread")
    BY <1>2 DEF RenameTemp
  <2>2. Busy(p) /\ pc'[p] = "reread"
    BY <2>1 DEF Goto, IInv, TypeOK, Busy, Quiet
  <2>3. call[p].op \in {"publish", "rollback"}
    BY <2>1, <2>2, AtPoint DEF AtItsPoint, RecoverCallPoints, RecoverPoints, SharedPoints
  <2>4. QED
    BY <1>2, <2>1, <2>2, <2>3
<1>3. CASE /\ (CreateRecord(p) /\ ~Fail(p)) \/ WriteRecord(p) \/ ReplaceRecord(p)
           /\ active' = active
  <2>1. /\ Busy(p) /\ record' = [record EXCEPT ![OwnTxn(p)] = record'[OwnTxn(p)]]
        /\ record[OwnTxn(p)].state \notin {"Published", "Failed"}
    BY <1>3, RecordWriters
  <2>2. pc[p] \in {"create", "writeRecord", "replace"}
    BY <1>3 DEF CreateRecord, WriteRecord, ReplaceRecord
  <2>3. call[p].op \in {"publish", "recover"}
    BY <2>1, <2>2, AtPoint DEF AtItsPoint, RollbackPoints, EndPoints
  <2>4. \A t \in Txn : t # OwnTxn(p) => record'[t] = record[t]
    BY <2>1 DEF IInv, TypeOK
  <2>5. QED
    BY <1>3, <2>1, <2>3, <2>4
<1>4. QED
  BY <1>1, <1>2, <1>3, OwnWriters

-----------------------------------------------------------------------------
(* The discipline: how a command may advance.                              *)

\* The calls of the other processes stay as they are.
OthersCall(p) == \A q \in Proc \ {p} : pc'[q] = pc[q] /\ call'[q] = call[q]

\* Only a command that waits for its call has the manager at work; beside
\* another engaged command nobody has.
LEMMA OthersQuiet ==
    ASSUME DInv, NEW p \in Proc, Engaged(p), ~Calling(p) \/ pc[p] \in Quiet
    PROVE  \A q \in Proc : ~Busy(q) /\ (Engaged(q) => q = p)
<1>1. \A q \in Proc : Engaged(q) => q = p
  BY DEF DInv, EngagedInv
<1>2. \A q \in Proc : Calling(q) => Engaged(q)
  BY DEF DInv, ProjectTypes, Command, Calling, Engaged, NoCmd
<1>3. QED
  BY <1>1, <1>2 DEF DInv, CallingInv, Busy

\* A command that is at work for a call is engaged.
LEMMA BusyEngaged ==
    ASSUME DInv, NEW p \in Proc, Busy(p)
    PROVE  Engaged(p) /\ Calling(p) /\ call[p] = CallOf(p)
BY DEF DInv, ProjectTypes, Command, CallingInv, Calling, Engaged, NoCmd

\* An engaged command goes on with its lease, its copy of the record and its
\* transaction, and may call the manager.
LEMMA Advances ==
    ASSUME DInv, NEW p \in Proc, Engaged(p), cmd[p].at # "writeReservation",
           NEW c, cmd' = [cmd EXCEPT ![p] = c],
           c \in [op : {cmd[p].op}, at : CommandPoint \ {"reserve", "writeReservation"},
                  rec : {cmd[p].rec}, txn : {cmd[p].txn}, read : Reading, model : Content \cup {NoGen},
                  next : {"none", "finish", "remove", "advance", "clear"}],
           UNCHANGED <<managed, lease, source, mixed, record>>,
           OthersCall(p),
           Command(p)',
           BeforeCall(p)' => BeforeCall(p),
           Busy(p)' => Calling(p)' /\ call'[p] = CallOf(p)',
           Calling(p)' => pc'[p] # "idle"
    PROVE  DInv'
<1> USE DEF DInv
<1>1. cmd'[p] = c /\ \A q \in Proc \ {p} : cmd'[q] = cmd[q]
  BY DEF ProjectTypes
<1>2. c.op = cmd[p].op /\ c.rec = cmd[p].rec /\ c.txn = cmd[p].txn
  OBVIOUS
<1>3. ProjectTypes'
  BY <1>1 DEF ProjectTypes
<1>4. \A q \in Proc : Command(q)'
  BY <1>1 DEF Command
<1>5. EngagedInv'
  BY <1>1, <1>2 DEF EngagedInv, Engaged
<1>6. CallingInv'
  BY <1>1 DEF CallingInv, Calling, Busy, CallOf, Gen, OthersCall
<1>7. DrawnInv'
  BY <1>1, <1>2 DEF DrawnInv
<1>8. UnwrittenInv'
  <2>1. \A q \in Proc : BeforeCall(q)' => BeforeCall(q) /\ cmd'[q].txn = cmd[q].txn
    BY <1>1, <1>2 DEF BeforeCall
  <2>2. QED
    BY <2>1 DEF UnwrittenInv
<1>9. QED
  BY <1>3, <1>4, <1>5, <1>6, <1>7, <1>8

\* The same for a step of the command alone, beside its manager at rest.
LEMMA Moves ==
    ASSUME DInv, NEW p \in Proc, Engaged(p), ~Busy(p),
           cmd[p].at \notin {"reserve", "writeReservation"},
           NEW c, cmd' = [cmd EXCEPT ![p] = c],
           c \in [op : {cmd[p].op}, at : CommandPoint \ {"reserve", "writeReservation", "calling"},
                  rec : {cmd[p].rec}, txn : {cmd[p].txn}, read : Reading, model : Content \cup {NoGen},
                  next : {"none", "finish", "remove", "advance", "clear"}],
           UNCHANGED <<vars, managed, lease, source, mixed>>,
           Command(p)',
           BeforeCall(p)' => BeforeCall(p)
    PROVE  DInv'
<1>1. /\ UNCHANGED <<managed, lease, source, mixed, record>> /\ OthersCall(p)
      /\ pc' = pc /\ ~Busy(p)'
  BY DEF vars, OthersCall, Busy
<1>2. cmd'[p] = c
  BY DEF DInv, ProjectTypes
<1>3. ~Calling(p)'
  BY <1>2 DEF Calling
<1>4. c \in [op : {cmd[p].op}, at : CommandPoint \ {"reserve", "writeReservation"},
             rec : {cmd[p].rec}, txn : {cmd[p].txn}, read : Reading, model : Content \cup {NoGen},
             next : {"none", "finish", "remove", "advance", "clear"}]
  OBVIOUS
<1>5. QED
  BY <1>1, <1>3, <1>4, Advances

\* A command ends, and may replace the record it is engaged with.
LEMMA Exits ==
    ASSUME DInv, NEW p \in Proc, Exit(p), ~Busy(p)', OthersCall(p),
           UNCHANGED <<source, mixed, record>>,
           \/ managed' = managed
           \/ managed' \in ManagedRecord \cup {NoRecord} /\ Engaged(p)
    PROVE  DInv'
<1> USE DEF DInv
<1>1. cmd'[p] = NoCmd /\ \A q \in Proc \ {p} : cmd'[q] = cmd[q]
  BY DEF ProjectTypes, Exit
<1>2. ProjectTypes'
  BY DEF ProjectTypes, Exit, NoCmd, NothingRead, Reading, CommandPoint
<1>3. \A q \in Proc : Command(q)'
  BY <1>1 DEF Command, NoCmd
<1>4. EngagedInv'
  BY <1>1 DEF EngagedInv, Engaged, Exit, NoCmd, LeasedOp
<1>5. CallingInv'
  BY <1>1 DEF CallingInv, Calling, Busy, CallOf, Gen, OthersCall, NoCmd
<1>6. DrawnInv'
  BY <1>1 DEF DrawnInv, NoCmd
<1>7. UnwrittenInv'
  <2>1. \A q \in Proc : BeforeCall(q)' => BeforeCall(q) /\ cmd'[q].txn = cmd[q].txn
    BY <1>1 DEF BeforeCall, NoCmd
  <2>2. QED
    BY <2>1 DEF UnwrittenInv
<1>8. QED
  BY <1>2, <1>3, <1>4, <1>5, <1>6, <1>7

\* A command that returns an error outside its call.
LEMMA Quits ==
    ASSUME DInv, NEW p \in Proc, Quit(p), ~Busy(p)
    PROVE  UNCHANGED vars /\ DInv'
BY Exits DEF Quit, vars, Busy, OthersCall

\* A command that replaces the record at its end.
LEMMA Replaces ==
    ASSUME DInv, NEW p \in Proc, Engaged(p), ~Calling(p), NEW rec,
           FinishWith(p, rec), rec \in ManagedRecord \cup {NoRecord}
    PROVE  UNCHANGED vars /\ DInv'
<1>1. ~Busy(p) /\ UNCHANGED vars
  BY DEF DInv, CallingInv, FinishWith
<1>2. QED
  BY <1>1, Exits DEF FinishWith, vars, Busy, OthersCall

\* A command that takes the lease.
LEMMA Leases ==
    ASSUME DInv, NEW p \in Proc, NEW op \in LeasedOp, NEW point \in {"inspect", "declare"},
           StartLeased(p, op, point), IsManaged, point = "inspect" <=> op = "recover",
           op = "recover" => managed.pending # NoTxn /\ \A q \in Proc : cmd[q].op # "adopt",
           op # "recover" => managed.pending = NoTxn,
           op = "rollback" => managed.previous # NoTxn
    PROVE  UNCHANGED vars /\ DInv'
<1> USE DEF DInv
<1> DEFINE c == [NoCmd EXCEPT !.op = op, !.at = point, !.rec = managed]
<1>0. /\ c \in [op : {op}, at : {point}, rec : {managed}, txn : {NoTxn}, read : Reading,
                model : {NoGen}, next : {"none"}]
      /\ c.op = op /\ c.at = point /\ c.rec = managed /\ c.txn = NoTxn
      /\ c.model = NoGen
  BY DEF NoCmd, NothingRead, Reading
<1>1. /\ UNCHANGED <<vars, managed, source, mixed>> /\ cmd[p].op = "none" /\ lease = NoProc
      /\ lease' = p /\ cmd'[p] = c /\ \A q \in Proc \ {p} : cmd'[q] = cmd[q]
      /\ cmd' = [cmd EXCEPT ![p] = c] /\ managed \in ManagedRecord
  BY DEF StartLeased, Start, Free, ProjectTypes, IsManaged
<1> HIDE DEF c
<1>2. ProjectTypes'
  BY <1>0, <1>1 DEF ProjectTypes, CommandPoint
<1>3. \A q \in Proc : Command(q)'
  BY <1>0, <1>1 DEF Command, ModelPoints, LeasedOp, ManagedRecord, NoCmd
<1>4. \A q \in Proc : ~Engaged(q)
  <2>1. \A q \in Proc : cmd[q].op \notin LeasedOp
    BY <1>0, <1>1 DEF EngagedInv
  <2>2. QED
    BY <2>1, <1>1 DEF EngagedInv, Engaged, Command, Reserved, IsManaged, LeasedOp
<1>5. EngagedInv'
  BY <1>0, <1>1, <1>4 DEF EngagedInv, Engaged, LeasedOp
<1>6. CallingInv'
  <2>1. ~Busy(p) /\ ~Calling(p)'
    BY <1>0, <1>1 DEF CallingInv, Calling, NoCmd, Command
  <2>2. QED
    BY <1>1, <2>1 DEF CallingInv, Calling, Busy, CallOf, Gen, vars
<1>7. DrawnInv'
  BY <1>0, <1>1 DEF DrawnInv, Command, LeasedOp
<1>8. UnwrittenInv'
  BY <1>0, <1>1 DEF UnwrittenInv, BeforeCall, LeasedOp, vars
<1>9. QED
  BY <1>1, <1>2, <1>3, <1>5, <1>6, <1>7, <1>8

-----------------------------------------------------------------------------
(* The discipline: adoption.                                               *)

\* An adoption draws a transaction id that nobody has.
LEMMA StartAdoptDisciplined ==
    ASSUME IInv, DInv, NEW p \in Proc, StartAdopt(p)
    PROVE  UNCHANGED vars /\ DInv'
<1> USE DEF DInv
<1>1. PICK t \in Txn :
        /\ Fresh(t) /\ managed = NoRecord /\ Free(p)
        /\ cmd' = [cmd EXCEPT ![p] =
                [NoCmd EXCEPT !.op = "adopt", !.at = "reserve", !.txn = t]]
        /\ UNCHANGED <<vars, managed, lease, source, mixed>>
  BY DEF StartAdopt
<1> DEFINE c == [NoCmd EXCEPT !.op = "adopt", !.at = "reserve", !.txn = t]
<1>2. cmd'[p] = c /\ \A q \in Proc \ {p} : cmd'[q] = cmd[q]
  BY <1>1 DEF ProjectTypes
<1>4. c \in [op : {"adopt"}, at : {"reserve"}, rec : {NoRecord}, txn : {t}, read : Reading,
             model : {NoGen}, next : {"none"}]
  BY DEF NoCmd, NothingRead, Reading
<1> HIDE DEF c
<1>6. ProjectTypes'
  BY <1>1, <1>2, <1>4 DEF ProjectTypes, CommandPoint
<1>7. \A q \in Proc : Command(q)'
  BY <1>2, <1>4 DEF Command, AdoptPoints, ModelPoints
<1>8. EngagedInv'
  <2>1. ~Engaged(p)' /\ \A q \in Proc : cmd[q].op # "recover"
    BY <1>1, <1>2, <1>4 DEF Engaged, EngagedInv, LeasedOp, Command, ModelPoints
  <2>2. QED
    BY <1>1, <1>2, <1>4, <2>1 DEF EngagedInv, Engaged, LeasedOp
<1>9. CallingInv'
  <2>1. ~Busy(p) /\ ~Calling(p)'
    BY <1>1, <1>2, <1>4 DEF CallingInv, Calling, NoCmd, Command, Free
  <2>2. QED
    BY <1>1, <1>2, <2>1 DEF CallingInv, Calling, Busy, CallOf, Gen, vars
<1>10. DrawnInv'
  <2>1. \A q \in Proc : cmd[q].txn # t /\ (cmd[q].rec # NoRecord => cmd[q].rec.pending # t)
    BY <1>1 DEF Fresh
  <2>2. QED
    BY <1>2, <1>4, <2>1 DEF DrawnInv
<1>11. UnwrittenInv'
  <2>1. record[t].state = "Absent" /\ record' = record
    BY <1>1 DEF Fresh, vars
  <2>2. QED
    BY <1>2, <1>4, <2>1 DEF UnwrittenInv, BeforeCall
<1>12. QED
  BY <1>1, <1>6, <1>7, <1>8, <1>9, <1>10, <1>11

\* Its reservation is the record, created and then written.
LEMMA ReserveDisciplined ==
    ASSUME DInv, NEW p \in Proc, Reserve(p) \/ WriteReservation(p)
    PROVE  UNCHANGED vars /\ DInv'
<1> USE DEF DInv
<1>1. cmd[p].op = "adopt" /\ cmd[p].at \in {"reserve", "writeReservation"} /\ ~Busy(p)
  BY DEF Reserve, WriteReservation, At, CallingInv, Calling
<1>2. CASE Quit(p)
  BY <1>1, <1>2, Quits
<1>3. CASE ~Quit(p)
  <2>1. PICK c \in [op : {"adopt"}, at : {"writeReservation", "rehash"}, rec : ManagedRecord,
                    txn : {cmd[p].txn}, read : Reading, model : Content \cup {NoGen},
                    next : {"none", "finish", "remove", "advance", "clear"}] :
            /\ c.model \in Content => c.model.declared = c.rec.input.declared
            /\ cmd' = [cmd EXCEPT ![p] = c] /\ UNCHANGED <<vars, lease, source>>
            /\ Reserved(c.rec, c.txn) /\ c.read.declared = c.rec.input.declared
            /\ mixed' \in BOOLEAN
            /\ IF c.at = "rehash"
               THEN cmd[p].at = "writeReservation" /\ managed' = c.rec /\ c.rec = cmd[p].rec
               ELSE managed = NoRecord /\ managed' = TornManaged
    <3>1. CASE Reserve(p)
      <4>1. PICK declared \in Declaration, seen \in Source :
                LET t == cmd[p].txn
                    reservation == [baseline |-> t, active |-> t, previous |-> NoTxn,
                                    pending |-> t, input |-> InputOf(declared, seen)]
                IN  /\ managed' = TornManaged /\ mixed' = FALSE
                    /\ cmd' = [cmd EXCEPT ![p].at = "writeReservation", ![p].rec = reservation,
                                          ![p].read.declared = declared]
                    /\ UNCHANGED <<vars, lease, source>>
        BY <1>3, <3>1 DEF Reserve
      <4> DEFINE t == cmd[p].txn
                 rec == [baseline |-> t, active |-> t, previous |-> NoTxn, pending |-> t,
                         input |-> InputOf(declared, seen)]
                 c == [cmd[p] EXCEPT !.at = "writeReservation", !.rec = rec,
                                     !.read = [cmd[p].read EXCEPT !.declared = declared]]
      <4>2. managed = NoRecord /\ cmd[p].at = "reserve"
        BY <1>3, <3>1 DEF Reserve, At
      <4>8. cmd' = [cmd EXCEPT ![p] = c]
        BY <4>1
      <4>3. InputOf(declared, seen) \in Input /\ InputOf(declared, seen).declared = declared
        BY DEF InputOf, Input, Config, Pins
      <4>4. t \in Txn /\ cmd[p].model = NoGen /\ cmd[p] \in [op : LeasedOp \cup {"adopt", "none"}, at : CommandPoint,
                         rec : ManagedRecord \cup {NoRecord}, txn : Txn \cup {NoTxn},
                         read : Reading, model : Content \cup {NoGen},
                         next : {"none", "finish", "remove", "advance", "clear"}]
        BY <1>1, <4>2 DEF ProjectTypes, Command
      <4>5. rec \in ManagedRecord /\ Reserved(rec, t) /\ rec.input.declared = declared
        BY <4>3, <4>4 DEF ManagedRecord, Reserved
      <4> HIDE DEF rec
      <4>6. /\ c \in [op : {"adopt"}, at : {"writeReservation", "rehash"}, rec : ManagedRecord,
                       txn : {cmd[p].txn}, read : Reading, model : Content \cup {NoGen},
                       next : {"none", "finish", "remove", "advance", "clear"}]
            /\ c.rec = rec /\ c.txn = t /\ c.read.declared = declared /\ c.at = "writeReservation"
            /\ c.model = NoGen
        BY <1>1, <4>4, <4>5 DEF Reading
      <4>7. managed' = TornManaged /\ mixed' = FALSE /\ UNCHANGED <<vars, lease, source>>
        BY <4>1
      <4> HIDE DEF c
      <4>9. QED
        BY <4>2, <4>5, <4>6, <4>7, <4>8
    <3>2. CASE WriteReservation(p)
      <4> DEFINE c == [cmd[p] EXCEPT !.at = "rehash"]
      <4>1. /\ cmd' = [cmd EXCEPT ![p] = c] /\ UNCHANGED <<vars, lease, source, mixed>>
            /\ managed' = cmd[p].rec /\ cmd[p].at = "writeReservation"
        BY <3>2 DEF WriteReservation, Move, At
      <4>2. /\ cmd[p].rec \in ManagedRecord /\ Reserved(cmd[p].rec, cmd[p].txn)
            /\ cmd[p].read.declared = cmd[p].rec.input.declared
            /\ cmd[p].model \in Content => cmd[p].model.declared = cmd[p].rec.input.declared
        BY <1>1, <4>1 DEF Command
      <4>3. /\ c \in [op : {"adopt"}, at : {"writeReservation", "rehash"}, rec : ManagedRecord,
                       txn : {cmd[p].txn}, read : Reading, model : Content \cup {NoGen},
                       next : {"none", "finish", "remove", "advance", "clear"}]
            /\ c.rec = cmd[p].rec /\ c.txn = cmd[p].txn /\ c.read = cmd[p].read /\ c.at = "rehash"
            /\ c.model = cmd[p].model
        BY <1>1, <4>2 DEF ProjectTypes
      <4>4. QED
        BY <4>1, <4>2, <4>3 DEF ProjectTypes
    <3>3. QED
      BY <3>1, <3>2
  <2>2. cmd'[p] = c /\ \A q \in Proc \ {p} : cmd'[q] = cmd[q]
    BY <2>1 DEF ProjectTypes
  <2>3. c.op = "adopt" /\ c.at \in {"writeReservation", "rehash"} /\ c.txn = cmd[p].txn
        /\ c.rec \in ManagedRecord /\ c.txn \in Txn /\ c.rec.pending = c.txn
    BY <1>1, <2>1 DEF Command, Reserved
  <2>4. \A q \in Proc : q # p => c.txn # cmd[q].txn
                /\ (cmd[q].rec # NoRecord => cmd[q].rec.pending # c.txn)
    BY <1>1, <2>3 DEF DrawnInv
  <2>5. ProjectTypes'
    BY <2>1, <2>2 DEF ProjectTypes, CommandPoint, LeasedOp
  <2>6. \A q \in Proc : Command(q)'
    <3>1. Command(p)'
      BY <2>1, <2>2, <2>3 DEF Command, AdoptPoints
    <3>2. \A q \in Proc \ {p} : Command(q)'
      BY <2>2 DEF Command
    <3>3. QED
      BY <3>1, <3>2
  <2>7. \A q \in Proc \ {p} : ~Engaged(q)
    BY <1>1, <2>1 DEF EngagedInv, Engaged, Command, ModelPoints, LeasedOp
  <2>8. EngagedInv'
    BY <1>1, <2>1, <2>2, <2>3, <2>7 DEF EngagedInv, Engaged, LeasedOp
  <2>9. CallingInv'
    BY <1>1, <2>1, <2>2, <2>3 DEF CallingInv, Calling, Busy, CallOf, Gen, vars
  <2>10. DrawnInv'
    BY <1>1, <2>2, <2>3, <2>4 DEF DrawnInv
  <2>11. UnwrittenInv'
    BY <1>1, <2>1, <2>2, <2>3 DEF UnwrittenInv, BeforeCall, vars
  <2>12. QED
    BY <2>1, <2>5, <2>6, <2>8, <2>9, <2>10, <2>11
<1>4. QED
  BY <1>2, <1>3

-----------------------------------------------------------------------------
(* The discipline: the readings of the sources.                            *)

CmdType ==
    [op : LeasedOp \cup {"adopt", "none"}, at : CommandPoint, rec : ManagedRecord \cup {NoRecord},
     txn : Txn \cup {NoTxn}, read : Reading, model : Content \cup {NoGen},
     next : {"none", "finish", "remove", "advance", "clear"}]

\* A command at one of these points is engaged, and its manager at rest.
LEMMA ReadsEngaged ==
    ASSUME DInv, NEW p \in Proc, cmd[p].at \in ModelPoints \cup {"rehash", "inspect"}
    PROVE  /\ Engaged(p) /\ ~Busy(p) /\ ~Calling(p) /\ cmd[p] \in CmdType
           /\ cmd[p].rec \in ManagedRecord /\ cmd[p].op # "none"
<1>1. cmd[p] \in CmdType /\ Command(p) /\ CallingInv
  BY DEF DInv, ProjectTypes, CmdType
<1>2. cmd[p].op # "none" /\ cmd[p].at \notin {"reserve", "calling"}
  BY <1>1 DEF Command, NoCmd, ModelPoints
<1>3. QED
  BY <1>1, <1>2 DEF CmdType, Command, CallingInv, Calling, Engaged

\* What a command models is a content, with the declaration it was compared by.
LEMMA ModelledIs ==
    ASSUME DInv, NEW p \in Proc, cmd[p].at = "packages"
    PROVE  /\ Modelled(p) \in Content
           /\ Modelled(p).declared = cmd[p].rec.input.declared
           /\ Modelled(p).config = cmd[p].read.config
<1>1. cmd[p].read.declared \in Declaration /\ cmd[p].read.config \in Config
      /\ cmd[p].read.declared = cmd[p].rec.input.declared
  BY DEF DInv, Command
<1>2. source.packages \in Packages
  BY DEF DInv, ProjectTypes, Packages
<1>3. QED
  BY <1>1, <1>2 DEF Modelled

\* A reading changes the memory of its command only.
LEMMA ReadDisciplined ==
    ASSUME DInv, NEW p \in Proc, Declare(p) \/ HashConfig(p) \/ Compare(p) \/ Rehash(p)
    PROVE  UNCHANGED vars /\ DInv'
<1>1. cmd[p].at \in {"declare", "config", "compare", "rehash"}
  BY DEF Declare, HashConfig, Compare, Rehash, At
<1>2. /\ Engaged(p) /\ ~Busy(p) /\ ~Calling(p) /\ cmd[p] \in CmdType
      /\ cmd[p].rec \in ManagedRecord /\ cmd[p].op # "none" /\ Command(p)
  BY <1>1, ReadsEngaged DEF ModelPoints, DInv
<1>3. CASE Quit(p)
  BY <1>2, <1>3, Quits
<1>4. CASE ~Quit(p)
  <2> DEFINE Next1(c) == /\ c.op = cmd[p].op /\ c.rec = cmd[p].rec /\ c.txn = cmd[p].txn
                         /\ c.model = cmd[p].model /\ c.next = cmd[p].next
  <2>1. PICK c \in CmdType :
            /\ cmd' = [cmd EXCEPT ![p] = c]
            /\ UNCHANGED <<vars, managed, lease, source, mixed>>
            /\ Next1(c)
            /\ \/ /\ cmd[p].at = "declare" /\ c.at = "config"
                  /\ c.read.declared \in Declaration
               \/ /\ cmd[p].at = "rehash" /\ c.at = "config" /\ cmd[p].op = "adopt"
                  /\ c.read = cmd[p].read
               \/ /\ cmd[p].at = "config" /\ c.at = "compare"
                  /\ c.read.declared = cmd[p].read.declared /\ c.read.config \in Config
               \/ /\ cmd[p].at = "compare" /\ c.at = "packages" /\ c.read = cmd[p].read
                  /\ c.read.declared = c.rec.input.declared
    <3>1. CASE Declare(p)
      <4> DEFINE c == [cmd[p] EXCEPT !.at = "config",
                            !.read = [cmd[p].read EXCEPT !.declared = DeclaredBy[source.config]]]
      <4>1. DeclaredBy[source.config] \in Declaration
        BY DEF DInv, ProjectTypes, Declaration, Config
      <4>2. /\ cmd' = [cmd EXCEPT ![p] = c] /\ cmd[p].at = "declare"
            /\ UNCHANGED <<vars, managed, lease, source, mixed>>
        BY <3>1 DEF Declare
      <4>3. c \in CmdType /\ Next1(c) /\ c.at = "config" /\ c.read.declared \in Declaration
        BY <1>2, <4>1 DEF CmdType, Reading, CommandPoint
      <4> HIDE DEF c, Next1
      <4>4. QED
        BY <4>2, <4>3
    <3>2. CASE HashConfig(p)
      <4> DEFINE c == [cmd[p] EXCEPT !.at = "compare",
                            !.read = [cmd[p].read EXCEPT !.config = source.config]]
      <4>1. source.config \in Config
        BY DEF DInv, ProjectTypes, Config
      <4>2. /\ cmd' = [cmd EXCEPT ![p] = c] /\ cmd[p].at = "config"
            /\ UNCHANGED <<vars, managed, lease, source, mixed>>
        BY <3>2 DEF HashConfig
      <4>3. /\ c \in CmdType /\ Next1(c) /\ c.at = "compare" /\ c.read.config \in Config
            /\ c.read.declared = cmd[p].read.declared
        BY <1>2, <4>1 DEF CmdType, Reading, CommandPoint
      <4> HIDE DEF c, Next1
      <4>4. QED
        BY <4>2, <4>3
    <3>3. CASE Compare(p)
      <4> DEFINE c == [cmd[p] EXCEPT !.at = "packages"]
      <4>1. /\ cmd' = [cmd EXCEPT ![p] = c] /\ cmd[p].at = "compare" /\ ModelMatches(p)
            /\ UNCHANGED <<vars, managed, lease, source, mixed>>
        BY <1>4, <3>3 DEF Compare, Move
      <4>2. cmd[p].read.declared = cmd[p].rec.input.declared
        BY <4>1 DEF ModelMatches, InputOf
      <4>3. c \in CmdType /\ Next1(c) /\ c.at = "packages" /\ c.read = cmd[p].read
        BY <1>2 DEF CmdType, CommandPoint
      <4>4. c.read.declared = c.rec.input.declared
        BY <4>2, <4>3
      <4> HIDE DEF c
      <4>5. QED
        BY <4>1, <4>3, <4>4
    <3>4. CASE Rehash(p)
      <4> DEFINE c == [cmd[p] EXCEPT !.at = "config"]
      <4>1. /\ cmd' = [cmd EXCEPT ![p] = c] /\ cmd[p].at = "rehash" /\ cmd[p].op = "adopt"
            /\ UNCHANGED <<vars, managed, lease, source, mixed>>
        BY <1>4, <3>4 DEF Rehash, Move, At
      <4>2. c \in CmdType /\ Next1(c) /\ c.at = "config" /\ c.read = cmd[p].read
        BY <1>2 DEF CmdType, CommandPoint
      <4> HIDE DEF c
      <4>3. QED
        BY <4>1, <4>2
    <3>5. QED
      BY <3>1, <3>2, <3>3, <3>4
  <2>2. cmd'[p] = c /\ c.at \in {"config", "compare", "packages"}
    BY <2>1 DEF DInv, ProjectTypes
  <2>3. Command(p)'
    <3>1. c.op = "adopt" => c.read.declared = c.rec.input.declared
      BY <1>1, <1>2, <2>1 DEF Command, AdoptPoints
    <3>2. c.read.declared \in Declaration /\ (c.at # "config" => c.read.config \in Config)
          /\ (c.at = "packages" => c.read.declared = c.rec.input.declared)
      <4>1. CASE cmd[p].at = "rehash"
        <5>1. c.rec.input.declared \in Declaration /\ c.at = "config"
          BY <1>2, <2>1, <4>1 DEF ManagedRecord, Input
        <5>2. QED
          BY <2>1, <3>1, <4>1, <5>1
      <4>2. CASE cmd[p].at # "rehash"
        BY <1>1, <1>2, <2>1, <4>2 DEF Command
      <4>3. QED
        BY <4>1, <4>2
    <3>3. QED
      BY <1>1, <1>2, <2>1, <2>2, <3>1, <3>2 DEF Command, AdoptPoints, ModelPoints
  <2>4. c \in [op : {cmd[p].op}, at : CommandPoint \ {"reserve", "writeReservation", "calling"},
               rec : {cmd[p].rec}, txn : {cmd[p].txn}, read : Reading,
               model : Content \cup {NoGen}, next : {"none", "finish", "remove", "advance", "clear"}]
    BY <2>1, <2>2 DEF CmdType, CommandPoint
  <2>5. BeforeCall(p)' => BeforeCall(p)
    BY <1>1, <2>1, <2>2 DEF BeforeCall
  <2>6. QED
    BY <1>1, <1>2, <2>1, <2>3, <2>4, <2>5, Moves
<1>5. QED
  BY <1>3, <1>4

\* An adoption publishes a transaction that has no record, beside no other call.
LEMMA AdoptDisciplined ==
    ASSUME AsDeployed, IInv, DInv, NEW p \in Proc, AdoptPublish(p) \/ AdoptFinish(p)
    PROVE  [Next]_vars /\ DInv'
<1> USE DEF DInv
<1>1. /\ cmd[p].op = "adopt" /\ cmd[p].at \in {"packages", "finish"}
      /\ Engaged(p) /\ ~Calling(p) /\ ~Busy(p)
      /\ cmd[p].rec \in ManagedRecord /\ cmd[p].txn \in Txn
      /\ Reserved(cmd[p].rec, cmd[p].txn) /\ cmd[p].read.declared = cmd[p].rec.input.declared
  BY DEF AdoptPublish, AdoptFinish, At, CallingInv, Calling, Engaged, Command
<1>4. CASE AdoptPublish(p)
  <2> DEFINE m == Modelled(p)
             g == [txn |-> cmd[p].txn, content |-> m]
             c == [cmd[p] EXCEPT !.at = "calling", !.model = m, !.next = "finish"]
  <2>1. /\ cmd' = [cmd EXCEPT ![p] = c] /\ cmd[p].at = "packages" /\ Publish(p, g)
        /\ UNCHANGED <<managed, lease, source, mixed>>
    BY <1>4 DEF AdoptPublish, At
  <2>2. cmd'[p] = c
    BY <2>1 DEF ProjectTypes
  <2>12. /\ m \in Content /\ m.declared = cmd[p].rec.input.declared
         /\ m.config = cmd[p].read.config
    BY <2>1, ModelledIs
  <2> HIDE DEF m
  <2>3. /\ c \in [op : {"adopt"}, at : {"calling"}, rec : {cmd[p].rec}, txn : {cmd[p].txn},
                  read : {cmd[p].read}, model : {m}, next : {"finish"}]
        /\ cmd[p].read \in Reading
    BY <1>1 DEF ProjectTypes
  <2>4. Command(p)'
    BY <1>1, <2>2, <2>3, <2>12 DEF Command, AdoptPoints
  <2>5. /\ \A q \in Proc \ {p} : pc'[q] = pc[q] /\ call'[q] = call[q]
        /\ pc'[p] = "acquire" /\ call'[p] = [op |-> "publish", own |-> g, target |-> g]
        /\ record' = record
    BY <2>1 DEF Publish, Begin, Goto, IInv, TypeOK, disk
  <2>6. call'[p] = CallOf(p)'
    BY <2>2, <2>3, <2>5 DEF CallOf, Gen
  <2>7. DInv'
    <3>1. c \in [op : {cmd[p].op}, at : CommandPoint \ {"reserve", "writeReservation"},
                 rec : {cmd[p].rec}, txn : {cmd[p].txn}, read : Reading,
                 model : Content \cup {NoGen},
                 next : {"none", "finish", "remove", "advance", "clear"}]
      BY <1>1, <2>3, <2>12 DEF CommandPoint
    <3>2. OthersCall(p) /\ UNCHANGED <<managed, lease, source, mixed, record>> /\ pc'[p] # "idle"
      BY <2>1, <2>5 DEF OthersCall
    <3>3. BeforeCall(p)' => BeforeCall(p)
      BY <1>1, <2>1, <2>2, <2>3 DEF BeforeCall
    <3>4. Calling(p)' /\ cmd[p].at # "writeReservation"
      BY <1>1, <2>2, <2>3 DEF Calling
    <3> HIDE DEF DInv, c
    <3>6. DInv
      BY DEF DInv
    <3>5. QED
      BY <1>1, <2>1, <2>4, <2>6, <3>1, <3>2, <3>3, <3>4, <3>6, Advances
  <2>8. \A q \in Proc : pc[q] \in Quiet
    BY <1>1, OthersQuiet DEF Busy
  <2>9. record[cmd[p].txn].state = "Absent"
    BY <1>1, <2>1 DEF UnwrittenInv, BeforeCall
  <2>10. CallPublish(p)
    <3>1. g \in Generation /\ g.txn = cmd[p].txn
      BY <1>1, <2>12 DEF Generation
    <3>2. QED
      BY <2>1, <2>8, <2>9, <3>1 DEF CallPublish, AsDeployed, Idle, Uses, Running
  <2>11. QED
    BY <2>7, <2>10 DEF Next
<1>5. CASE AdoptFinish(p)
  <2>1. [cmd[p].rec EXCEPT !.pending = NoTxn] \in ManagedRecord
    BY <1>1 DEF ManagedRecord
  <2>2. QED
    BY <1>1, <1>5, <2>1, Replaces DEF AdoptFinish
<1>6. QED
  BY <1>4, <1>5

-----------------------------------------------------------------------------
(* The discipline: the leased commands.                                    *)

\* A command that takes the lease, whichever it is.
LEMMA StartDisciplined ==
    ASSUME AdoptionsLeftAlone, DInv, NEW p \in Proc,
           StartUpdate(p) \/ StartRecover(p) \/ StartRollback(p) \/ StartBuild(p)
    PROVE  UNCHANGED vars /\ DInv'
<1>1. CASE StartRecover(p)
  <2> DEFINE c == [NoCmd EXCEPT !.op = "recover", !.at = "inspect", !.rec = managed]
  <2>1. cmd' = [cmd EXCEPT ![p] = c] /\ cmd[p].op = "none" /\ c.op = "recover"
    BY <1>1 DEF StartRecover, StartLeased, Start, Free, NoCmd
  <2> HIDE DEF c
  <2>2. Starts(p, "recover")
    BY <2>1 DEF Starts, DInv, ProjectTypes
  <2>3. \A q \in Proc : cmd[q].op # "adopt"
    BY <2>2 DEF AdoptionsLeftAlone
  <2>4. QED
    BY <1>1, <2>3, Leases DEF StartRecover, LeasedOp
<1>2. CASE StartUpdate(p) \/ StartRollback(p) \/ StartBuild(p)
  BY <1>2, Leases DEF StartUpdate, StartRollback, StartBuild, LeasedOp
<1>3. QED
  BY <1>1, <1>2

\* An update draws a transaction id that nobody has.
LEMMA UpdateInspectDisciplined ==
    ASSUME DInv, NEW p \in Proc, UpdateInspect(p)
    PROVE  UNCHANGED vars /\ DInv'
<1> USE DEF DInv
<1> DEFINE m == Modelled(p)
<1>1. /\ cmd[p].op = "update" /\ cmd[p].at = "packages" /\ Engaged(p) /\ ~Busy(p)
      /\ cmd[p].rec \in ManagedRecord /\ cmd[p].rec.pending = NoTxn
      /\ m \in Content /\ m.declared = cmd[p].rec.input.declared
  BY ModelledIs
     DEF UpdateInspect, At, CallingInv, Calling, Engaged, LeasedOp, Command, ModelPoints
<1>2. CASE Quit(p)
  BY <1>1, <1>2, Quits
<1>3. CASE ~Quit(p)
  <2>1. PICK t \in Txn :
            /\ Fresh(t)
            /\ cmd' = [cmd EXCEPT ![p].at = "mark", ![p].txn = t, ![p].model = m]
            /\ UNCHANGED <<vars, managed, lease, source, mixed>>
    BY <1>3 DEF UpdateInspect
  <2> HIDE DEF m
  <2> DEFINE c == [cmd[p] EXCEPT !.at = "mark", !.txn = t, !.model = m]
  <2>2. cmd'[p] = c /\ \A q \in Proc \ {p} : cmd'[q] = cmd[q]
    BY <2>1 DEF ProjectTypes
  <2>3. c \in [op : {"update"}, at : {"mark"}, rec : {cmd[p].rec}, txn : {t}, read : Reading,
               model : {m}, next : {cmd[p].next}]
    <3>1. PICK d : d = cmd[p]
      OBVIOUS
    <3>2. /\ d = [op |-> d.op, at |-> d.at, rec |-> d.rec, txn |-> d.txn, read |-> d.read,
                  model |-> d.model, next |-> d.next]
          /\ d.read \in Reading
      BY <3>1 DEF ProjectTypes
    <3>3. QED
      BY <1>1, <3>1, <3>2
  <2> HIDE DEF c
  <2>4. ProjectTypes'
    BY <1>1, <2>1, <2>2, <2>3 DEF ProjectTypes, CommandPoint
  <2>5. \A q \in Proc : Command(q)'
    <3>1. Command(p)'
      BY <1>1, <2>1, <2>2, <2>3 DEF Command, ModelPoints
    <3>2. \A q \in Proc \ {p} : Command(q)'
      BY <2>2 DEF Command
    <3>3. QED
      BY <3>1, <3>2
  <2>6. EngagedInv'
    <3>1. \A q \in Proc : /\ cmd'[q].op = cmd[q].op /\ cmd'[q].rec = cmd[q].rec
                          /\ cmd'[q].at = "reserve" <=> cmd[q].at = "reserve"
                          /\ cmd'[q].at = "writeReservation" <=> cmd[q].at = "writeReservation"
      BY <1>1, <2>2, <2>3
    <3>2. \A q \in Proc : Engaged(q)' <=> Engaged(q)
      BY <3>1 DEF Engaged
    <3>3. EngagedInv
      OBVIOUS
    <3>4. UNCHANGED <<managed, lease>>
      BY <2>1
    <3> HIDE DEF DInv
    <3>5. QED
      BY <3>1, <3>3, <3>4 DEF EngagedInv, Engaged
  <2>7. CallingInv'
    <3>1. pc' = pc /\ call' = call /\ CallingInv
      BY <2>1 DEF vars
    <3>2. ~Busy(p)' /\ ~Calling(p)'
      BY <1>1, <2>2, <2>3, <3>1 DEF Busy, Calling
    <3>3. \A q \in Proc \ {p} : /\ Busy(q)' = Busy(q) /\ Calling(q)' = Calling(q)
                                /\ CallOf(q)' = CallOf(q)
      BY <2>2, <3>1 DEF Busy, Calling, CallOf, Gen
    <3> HIDE DEF DInv
    <3>4. QED
      BY <3>1, <3>2, <3>3 DEF CallingInv
  <2>8. DrawnInv'
    <3>1. \A q \in Proc : cmd[q].txn # t
      BY <2>1 DEF Fresh
    <3>2. cmd'[p].op = "update" /\ cmd'[p].txn = t /\ cmd'[p].rec = cmd[p].rec
      BY <2>2, <2>3
    <3>3. QED
      BY <1>1, <2>2, <3>1, <3>2 DEF DrawnInv
  <2>9. UnwrittenInv'
    <3>1. record' = record /\ record[t].state = "Absent" /\ cmd'[p].txn = t
      BY <2>1, <2>2, <2>3 DEF Fresh, vars
    <3>2. QED
      BY <2>2, <3>1 DEF UnwrittenInv, BeforeCall
  <2>10. QED
    BY <2>1, <2>4, <2>5, <2>6, <2>7, <2>8, <2>9
<1>4. QED
  BY <1>2, <1>3

\* It marks the record and publishes a transaction that has no record, beside no
\* other call.
LEMMA UpdateMarkDisciplined ==
    ASSUME AsDeployed, IInv, DInv, NEW p \in Proc, UpdateMark(p)
    PROVE  Next /\ DInv'
<1> USE DEF DInv
<1> DEFINE rec == [cmd[p].rec EXCEPT !.pending = cmd[p].txn]
           c == [cmd[p] EXCEPT !.rec = rec, !.at = "calling", !.next = "finish"]
           g == Gen(p, cmd[p].txn)
<1>1. /\ cmd[p].op = "update" /\ cmd[p].at = "mark" /\ Engaged(p) /\ ~Busy(p) /\ ~Calling(p)
      /\ cmd[p].rec \in ManagedRecord /\ cmd[p].model \in Content /\ cmd[p].txn \in Txn
  BY DEF UpdateMark, At, CallingInv, Calling, Engaged, LeasedOp, Command, ModelPoints
<1>2. /\ managed' = rec /\ cmd' = [cmd EXCEPT ![p] = c] /\ UNCHANGED <<lease, source, mixed>>
      /\ Publish(p, g)
  BY DEF UpdateMark
<1>3. rec \in ManagedRecord /\ rec.pending = cmd[p].txn /\ rec.input = cmd[p].rec.input
  BY <1>1 DEF ManagedRecord
<1>4. c \in [op : {"update"}, at : {"calling"}, rec : {rec}, txn : {cmd[p].txn}, read : Reading,
             model : {cmd[p].model}, next : {"finish"}]
  <2> HIDE DEF rec
  <2>1. cmd[p] \in CmdType
    BY DEF ProjectTypes, CmdType
  <2>2. QED
    BY <1>1, <2>1 DEF CmdType
<1> HIDE DEF rec, c
<1>5. cmd'[p] = c /\ \A q \in Proc \ {p} : cmd'[q] = cmd[q]
  BY <1>2 DEF ProjectTypes
<1>6. /\ \A q \in Proc \ {p} : pc'[q] = pc[q] /\ call'[q] = call[q]
      /\ pc'[p] = "acquire" /\ call'[p] = [op |-> "publish", own |-> g, target |-> g]
      /\ record' = record
  BY <1>2 DEF Publish, Begin, Goto, IInv, TypeOK, disk
<1>7. call'[p] = CallOf(p)'
  BY <1>4, <1>5, <1>6 DEF CallOf, Gen
<1>8. DInv'
  <2>1. ProjectTypes'
    BY <1>1, <1>2, <1>3, <1>4, <1>5 DEF ProjectTypes, CommandPoint
  <2>2. \A q \in Proc : Command(q)'
    BY <1>1, <1>3, <1>4, <1>5 DEF Command, ModelPoints
  <2>3. EngagedInv'
    BY <1>1, <1>2, <1>4, <1>5 DEF EngagedInv, Engaged, LeasedOp
  <2>4. CallingInv'
    BY <1>1, <1>4, <1>5, <1>6, <1>7 DEF CallingInv, Calling, Busy, CallOf, Gen
  <2>5. DrawnInv'
    BY <1>1, <1>3, <1>4, <1>5 DEF DrawnInv
  <2>6. UnwrittenInv'
    BY <1>4, <1>5, <1>6 DEF UnwrittenInv, BeforeCall
  <2>7. QED
    BY <2>1, <2>2, <2>3, <2>4, <2>5, <2>6
<1>9. \A q \in Proc : pc[q] \in Quiet
  BY <1>1, OthersQuiet DEF Busy
<1>10. record[cmd[p].txn].state = "Absent"
  BY <1>1 DEF UnwrittenInv, BeforeCall
<1>11. CallPublish(p)
  <2>1. g \in Generation /\ g.txn = cmd[p].txn
    BY <1>1 DEF Generation, Gen
  <2>2. QED
    BY <1>2, <1>9, <1>10, <2>1 DEF CallPublish, AsDeployed, Idle, Uses, Running
<1>12. QED
  BY <1>8, <1>11 DEF Next

\* A recovery starts its call beside no other call.
LEMMA RecoverDisciplined ==
    ASSUME AsDeployed, IInv, DInv, NEW p \in Proc,
           RecoverInspect(p) \/ RecoverModel(p) \/ RecoverResolve(p)
    PROVE  [Next]_vars /\ DInv'
<1> USE DEF DInv
<1>1. /\ cmd[p].op = "recover" /\ cmd[p].at \in {"inspect", "packages", "resolve"} /\ Engaged(p)
      /\ ~Busy(p) /\ ~Calling(p)
      /\ cmd[p].rec \in ManagedRecord /\ cmd[p].rec.pending \in Txn
      /\ cmd[p].at = "resolve" => cmd[p].model \in Content
      /\ cmd[p].txn = NoTxn
      /\ cmd[p].model \in Content => cmd[p].model.declared = cmd[p].rec.input.declared
  BY DEF RecoverInspect, RecoverModel, RecoverResolve, At, CallingInv, Calling, Engaged,
     LeasedOp, Command
<1>3. CASE RecoverInspect(p) \/ RecoverModel(p)
  <2>1. PICK c : /\ cmd' = [cmd EXCEPT ![p] = c]
                 /\ UNCHANGED <<vars, managed, lease, source, mixed>>
                 /\ \/ \E point \in {"remove", "declare"} : c = [cmd[p] EXCEPT !.at = point]
                    \/ /\ cmd[p].at = "packages"
                       /\ c = [cmd[p] EXCEPT !.at = "resolve", !.model = Modelled(p)]
    BY <1>3 DEF RecoverInspect, RecoverModel, Move, At
  <2>2. cmd'[p] = c
    BY <2>1 DEF ProjectTypes
  <2>3. cmd[p].at = "packages" =>
            Modelled(p) \in Content /\ Modelled(p).declared = cmd[p].rec.input.declared
    BY ModelledIs
  <2>4. /\ c \in [op : {"recover"}, at : {"remove", "declare", "resolve"}, rec : {cmd[p].rec},
                  txn : {cmd[p].txn}, read : {cmd[p].read}, model : Content \cup {NoGen},
                  next : {cmd[p].next}]
        /\ c.at = "resolve" => c.model \in Content
        /\ c.model \in Content => c.model.declared = c.rec.input.declared
        /\ cmd[p].read \in Reading
    BY <1>1, <2>1, <2>3 DEF ProjectTypes
  <2>5. Command(p)'
    BY <1>1, <2>2, <2>4 DEF Command, ModelPoints
  <2>6. c \in [op : {cmd[p].op}, at : CommandPoint \ {"reserve", "writeReservation", "calling"},
               rec : {cmd[p].rec}, txn : {cmd[p].txn}, read : Reading,
               model : Content \cup {NoGen},
               next : {"none", "finish", "remove", "advance", "clear"}]
    BY <1>1, <2>4 DEF ProjectTypes, CommandPoint
  <2>7. BeforeCall(p)' => BeforeCall(p)
    BY <1>1, <2>1, <2>2, <2>4 DEF BeforeCall
  <2>8. DInv'
    BY <1>1, <2>1, <2>5, <2>6, <2>7, Moves
  <2>9. QED
    BY <2>1, <2>8
<1>4. CASE RecoverResolve(p)
  <2> DEFINE g == Gen(p, cmd[p].rec.pending)
  <2>1. PICK after \in {"remove", "advance", "clear"} :
            /\ cmd' = [cmd EXCEPT ![p].at = "calling", ![p].next = after]
            /\ Recover(p, g) /\ cmd[p].at = "resolve"
            /\ UNCHANGED <<managed, lease, source, mixed>>
    BY <1>4 DEF RecoverResolve, At
  <2> DEFINE c == [cmd[p] EXCEPT !.at = "calling", !.next = after]
  <2>2. cmd' = [cmd EXCEPT ![p] = c] /\ cmd'[p] = c
    BY <2>1 DEF ProjectTypes
  <2>3. /\ c \in [op : {"recover"}, at : {"calling"}, rec : {cmd[p].rec}, txn : {cmd[p].txn}, read : Reading,
                  model : {cmd[p].model}, next : {after}]
    <3>1. PICK d : d = cmd[p]
      OBVIOUS
    <3>2. /\ d = [op |-> d.op, at |-> d.at, rec |-> d.rec, txn |-> d.txn, read |-> d.read,
                  model |-> d.model, next |-> d.next]
          /\ d.read \in Reading
      BY <3>1 DEF ProjectTypes
    <3>3. QED
      BY <1>1, <3>1, <3>2
  <2> HIDE DEF c
  <2>4. Command(p)'
    BY <1>1, <1>4, <2>1, <2>2, <2>3 DEF Command, ModelPoints
  <2>5. /\ \A q \in Proc \ {p} : pc'[q] = pc[q] /\ call'[q] = call[q]
        /\ pc'[p] = "readTxn" /\ call'[p] = [op |-> "recover", own |-> g, target |-> g]
        /\ record' = record
    BY <2>1 DEF Recover, Begin, Goto, IInv, TypeOK, disk
  <2>6. call'[p] = CallOf(p)'
    BY <2>2, <2>3, <2>5 DEF CallOf, Gen
  <2>7. DInv'
    <3>1. /\ OthersCall(p) /\ Calling(p)' /\ ~BeforeCall(p)' /\ pc'[p] # "idle"
          /\ cmd[p].at # "writeReservation"
      BY <1>1, <2>2, <2>3, <2>5 DEF OthersCall, Calling, BeforeCall
    <3>2. c \in [op : {cmd[p].op}, at : CommandPoint \ {"reserve", "writeReservation"},
                rec : {cmd[p].rec}, txn : {cmd[p].txn}, read : Reading, model : Content \cup {NoGen},
                next : {"none", "finish", "remove", "advance", "clear"}]
      BY <1>1, <2>1, <2>3 DEF CommandPoint
    <3> HIDE DEF DInv
    <3>3. QED
      BY <1>1, <2>1, <2>2, <2>4, <2>5, <2>6, <3>1, <3>2, Advances
  <2>8. \A q \in Proc : pc[q] \in Quiet
    BY <1>1, OthersQuiet DEF Busy
  <2>9. g \in Generation
    BY <1>1, <2>1 DEF Generation, Gen
  <2>10. CallRecover(p, g)
    BY <2>1, <2>8, <2>9 DEF CallRecover, AsDeployed, Idle, Uses
  <2>11. QED
    BY <2>7, <2>9, <2>10 DEF Next
<1>5. QED
  BY <1>3, <1>4

\* A rollback starts its call beside no other call.
LEMMA RollbackDisciplined ==
    ASSUME AsDeployed, IInv, DInv, NEW p \in Proc, RollbackSwitch(p)
    PROVE  Next /\ DInv'
<1> USE DEF DInv
<1> DEFINE m == Modelled(p)
<1>1. /\ cmd[p].op = "rollback" /\ cmd[p].at = "packages" /\ Engaged(p)
      /\ ~Busy(p) /\ ~Calling(p)
      /\ cmd[p].rec \in ManagedRecord /\ cmd[p].rec.previous \in Txn
      /\ cmd[p].rec.active \in Txn /\ cmd[p].rec.pending = NoTxn /\ cmd[p].txn = NoTxn
      /\ m \in Content /\ m.declared = cmd[p].rec.input.declared
  BY ModelledIs DEF RollbackSwitch, At, CallingInv, Calling, Engaged, LeasedOp, Command,
     ManagedRecord
<1>3. QED
  <2> DEFINE g == [txn |-> cmd[p].rec.active, content |-> m]
             h == [txn |-> cmd[p].rec.previous, content |-> m]
             c == [cmd[p] EXCEPT !.at = "calling", !.model = m, !.next = "finish"]
  <2>1. /\ cmd' = [cmd EXCEPT ![p] = c] /\ RollbackActiveGeneration(p, g, h)
        /\ UNCHANGED <<managed, lease, source, mixed>>
    BY DEF RollbackSwitch
  <2> HIDE DEF m
  <2>2. cmd'[p] = c
    BY <2>1 DEF ProjectTypes
  <2>3. c \in [op : {"rollback"}, at : {"calling"}, rec : {cmd[p].rec}, txn : {cmd[p].txn},
               read : Reading, model : {m}, next : {"finish"}]
    <3>1. cmd[p] \in CmdType
      BY DEF ProjectTypes, CmdType
    <3>2. QED
      BY <1>1, <3>1 DEF CmdType
  <2> HIDE DEF c
  <2>4. Command(p)'
    BY <1>1, <2>1, <2>2, <2>3 DEF Command, ModelPoints
  <2>5. /\ \A q \in Proc \ {p} : pc'[q] = pc[q] /\ call'[q] = call[q]
        /\ pc'[p] = "checkBoth" /\ call'[p] = [op |-> "rollback", own |-> g, target |-> h]
        /\ record' = record
    BY <2>1 DEF RollbackActiveGeneration, Begin, Goto, IInv, TypeOK, disk
  <2>6. call'[p] = CallOf(p)'
    BY <2>2, <2>3, <2>5 DEF CallOf, Gen
  <2>7. DInv'
    <3>1. c \in [op : {cmd[p].op}, at : CommandPoint \ {"reserve", "writeReservation"},
                 rec : {cmd[p].rec}, txn : {cmd[p].txn}, read : Reading, model : Content \cup {NoGen},
                 next : {"none", "finish", "remove", "advance", "clear"}]
      BY <1>1, <2>3 DEF ProjectTypes, CommandPoint
    <3>2. OthersCall(p) /\ UNCHANGED <<managed, lease, source, mixed, record>> /\ pc'[p] # "idle"
      BY <2>1, <2>5 DEF OthersCall
    <3>3. BeforeCall(p)' => BeforeCall(p)
      BY <1>1, <2>1, <2>2, <2>3 DEF BeforeCall
    <3>4. Calling(p)' /\ cmd[p].at # "writeReservation"
      BY <1>1, <2>2, <2>3 DEF Calling
    <3>5. QED
      BY <1>1, <2>1, <2>4, <2>6, <3>1, <3>2, <3>3, <3>4, Advances
  <2>8. \A q \in Proc : pc[q] \in Quiet
    BY <1>1, OthersQuiet DEF Busy
  <2>9. g \in Generation /\ h \in Generation
    BY <1>1 DEF Generation
  <2>10. CallRollback(p)
    BY <2>1, <2>8, <2>9 DEF CallRollback, AsDeployed, Idle, Uses, Running
  <2>11. QED
    BY <2>7, <2>10 DEF Next

\* A build never calls the manager.
LEMMA BuildDisciplined ==
    ASSUME DInv, NEW p \in Proc, BuildGate(p) \/ BuildEnd(p)
    PROVE  UNCHANGED vars /\ DInv'
<1> USE DEF DInv
<1>1. /\ cmd[p].op = "build" /\ cmd[p].at \in {"packages", "building"} /\ Engaged(p)
      /\ ~Busy(p) /\ ~Calling(p) /\ cmd[p].rec \in ManagedRecord
      /\ cmd[p].rec.pending = NoTxn /\ cmd[p].txn = NoTxn
  BY DEF BuildGate, BuildEnd, At, CallingInv, Calling, Engaged, LeasedOp, Command
<1>2. CASE Quit(p)
  BY <1>1, <1>2, Quits
<1>3. CASE ~Quit(p)
  <2> DEFINE m == Modelled(p)
             c == [cmd[p] EXCEPT !.at = "building", !.model = m]
  <2>1. /\ cmd' = [cmd EXCEPT ![p] = c] /\ cmd[p].at = "packages"
        /\ UNCHANGED <<vars, managed, lease, source, mixed>>
    BY <1>3 DEF BuildGate, BuildEnd, At
  <2>2. cmd'[p] = c
    BY <2>1 DEF ProjectTypes
  <2>9. m \in Content /\ m.declared = cmd[p].rec.input.declared
    BY <2>1, ModelledIs
  <2> HIDE DEF m
  <2>3. c \in [op : {"build"}, at : {"building"}, rec : {cmd[p].rec}, txn : {cmd[p].txn},
               read : Reading, model : {m}, next : {cmd[p].next}]
    BY <1>1 DEF ProjectTypes
  <2> HIDE DEF c
  <2>4. Command(p)'
    BY <1>1, <2>1, <2>2, <2>3, <2>9 DEF Command, ModelPoints
  <2>5. c \in [op : {cmd[p].op}, at : CommandPoint \ {"reserve", "writeReservation", "calling"},
               rec : {cmd[p].rec}, txn : {cmd[p].txn}, read : Reading, model : Content \cup {NoGen},
               next : {"none", "finish", "remove", "advance", "clear"}]
    BY <1>1, <2>3, <2>9 DEF ProjectTypes, CommandPoint
  <2>6. BeforeCall(p)' => BeforeCall(p)
    BY <1>1, <2>1, <2>2, <2>3 DEF BeforeCall
  <2>7. DInv'
    BY <1>1, <2>1, <2>4, <2>5, <2>6, Moves
  <2>8. QED
    BY <2>1, <2>7
<1>4. QED
  BY <1>2, <1>3

\* A command replaces the record at its end.
LEMMA FinishDisciplined ==
    ASSUME DInv, NEW p \in Proc, UpdateFinish(p) \/ RecoverFinish(p) \/ RollbackFinish(p)
    PROVE  UNCHANGED vars /\ DInv'
<1> USE DEF DInv
<1> DEFINE rec == cmd[p].rec
<1>1. /\ Engaged(p) /\ ~Calling(p) /\ rec \in ManagedRecord
      /\ UpdateFinish(p) \/ RecoverFinish(p) => rec.pending \in Txn
      /\ RollbackFinish(p) => rec.previous \in Txn
  BY DEF UpdateFinish, RecoverFinish, RollbackFinish, At, Calling, Engaged, LeasedOp, Command,
     ModelPoints
<1>2. /\ rec.pending \in Txn => Advanced(rec) \in ManagedRecord
      /\ [rec EXCEPT !.pending = NoTxn] \in ManagedRecord
      /\ rec.previous \in Txn =>
            [rec EXCEPT !.previous = rec.active, !.active = rec.previous] \in ManagedRecord
  BY <1>1 DEF ManagedRecord, Advanced
<1>3. \E new \in ManagedRecord \cup {NoRecord} : FinishWith(p, new)
  BY <1>1, <1>2 DEF UpdateFinish, RecoverFinish, RollbackFinish
<1>4. QED
  BY <1>1, <1>3, Replaces

-----------------------------------------------------------------------------
(* The discipline: the manager at work, and the end of a call.             *)

\* The end of a call sends its command on, or away.
LEMMA CallReturnedDisciplined ==
    ASSUME DInv, NEW p \in Proc, CallReturned(p)
    PROVE  UNCHANGED vars /\ DInv'
<1> USE DEF DInv
<1>1. /\ Calling(p) /\ Engaged(p) /\ ~Busy(p) /\ cmd[p].at = "calling"
      /\ cmd[p].rec \in ManagedRecord
      /\ cmd[p].next \in {"finish", "remove", "advance", "clear"}
      /\ IF cmd[p].op = "recover" THEN cmd[p].next # "finish" ELSE cmd[p].next = "finish"
      /\ cmd[p].op # "build" /\ cmd[p].op # "none" /\ cmd[p] \in CmdType
  <2>1. cmd[p] \in CmdType /\ cmd[p].at = "calling" /\ pc[p] \in {"done", "error"} /\ Command(p)
    BY DEF CallReturned, ProjectTypes, CmdType
  <2>2. cmd[p].op # "none" /\ cmd[p].op # "build"
    BY <2>1 DEF Command, NoCmd, ModelPoints
  <2>3. Calling(p) /\ Engaged(p) /\ ~Busy(p)
    BY <2>1, <2>2 DEF CmdType, Calling, Engaged, Busy, Quiet
  <2>4. QED
    BY <2>1, <2>2, <2>3 DEF Command
<1>2. CASE Quit(p)
  BY <1>1, <1>2, Quits
<1>3. CASE ~Quit(p)
  <2> DEFINE c == [cmd[p] EXCEPT !.at = cmd[p].next]
  <2>1. cmd' = [cmd EXCEPT ![p] = c] /\ UNCHANGED <<vars, managed, lease, source, mixed>>
    BY <1>3 DEF CallReturned, Move
  <2>2. cmd'[p] = c
    BY <2>1 DEF ProjectTypes
  <2>3. /\ c \in [op : {cmd[p].op}, at : {cmd[p].next}, rec : {cmd[p].rec}, txn : {cmd[p].txn},
                  read : {cmd[p].read}, model : {cmd[p].model}, next : {cmd[p].next}]
        /\ cmd[p].read \in Reading /\ cmd[p].model \in Content \cup {NoGen}
    BY <1>1 DEF CmdType
  <2> HIDE DEF c
  <2>4. Command(p)'
    BY <1>1, <2>2, <2>3 DEF Command, AdoptPoints, ModelPoints
  <2>5. c \in [op : {cmd[p].op}, at : CommandPoint \ {"reserve", "writeReservation", "calling"},
               rec : {cmd[p].rec}, txn : {cmd[p].txn}, read : Reading, model : Content \cup {NoGen},
               next : {"none", "finish", "remove", "advance", "clear"}]
    BY <1>1, <2>3 DEF ProjectTypes, CommandPoint
  <2>6. BeforeCall(p)' => BeforeCall(p)
    BY <1>1, <2>1, <2>2, <2>3 DEF BeforeCall
  <2>7. DInv'
    BY <1>1, <2>1, <2>4, <2>5, <2>6, Moves
  <2>8. QED
    BY <2>1, <2>7
<1>4. QED
  BY <1>2, <1>3

\* A file operation writes no record of a transaction that was only drawn.
LEMMA ManagerStepDisciplined ==
    ASSUME IInv, DInv, NEW p \in Proc, ManagerStep(p)
    PROVE  Next /\ DInv'
<1> USE DEF DInv
<1>1. Step(p) \/ StepFails(p)
  BY DEF ManagerStep
<1>2. Busy(p) /\ OnlyOf(p) /\ pc'[p] # "idle" /\ Engaged(p) /\ Calling(p) /\ call[p] = CallOf(p)
  BY <1>1, StepIsOwn, BusyEngaged
<1>3. UNCHANGED <<managed, lease, source, mixed, cmd>>
  BY DEF ManagerStep, projectVars
<1>4. CallingInv'
  BY <1>2, <1>3 DEF CallingInv, Calling, Busy, CallOf, Gen, OnlyOf
<1>5. UnwrittenInv'
  <2>1. ASSUME NEW q \in Proc, BeforeCall(q) PROVE record'[cmd[q].txn] = record[cmd[q].txn]
    <3>1. q # p /\ cmd[q].txn \in Txn /\ cmd[q].op \in {"adopt", "update"}
          /\ (cmd[q].op = "update" => Engaged(q))
      BY <1>2, <2>1 DEF BeforeCall, Calling, Command, ModelPoints, Engaged, LeasedOp
    <3>2. cmd[q].op = "adopt"
      BY <1>2, <3>1 DEF EngagedInv
    <3>3. SUFFICES ASSUME cmd[q].txn = OwnTxn(p), call[p].op \in {"publish", "recover"}
                   PROVE  FALSE
      BY <1>1, <3>1, StepWrites
    <3>4. cmd[p].op \in {"adopt", "update", "recover"}
      BY <1>2, <3>3 DEF CallOf, NoCall
    <3>5. CASE cmd[p].op = "recover"
      BY <3>1, <3>2, <3>5 DEF EngagedInv
    <3>6. CASE cmd[p].op # "recover"
      <4>1. OwnTxn(p) = cmd[p].txn
        BY <1>2, <3>4, <3>6 DEF CallOf, OwnTxn, Gen
      <4>2. QED
        BY <3>1, <3>3, <4>1 DEF DrawnInv
    <3>7. QED
      BY <3>5, <3>6
  <2>2. QED
    BY <1>3, <2>1 DEF UnwrittenInv, BeforeCall
<1>6. ProjectTypes' /\ EngagedInv' /\ DrawnInv' /\ \A q \in Proc : Command(q)'
  BY <1>3 DEF ProjectTypes, EngagedInv, Engaged, DrawnInv, Command
<1>7. QED
  BY <1>1, <1>4, <1>5, <1>6 DEF Next

\* A crash drops the lease with the command.
LEMMA CrashDisciplined ==
    ASSUME IInv, DInv, NEW p \in Proc, CrashCommand(p)
    PROVE  [Next]_vars /\ DInv'
<1>1. Exit(p) /\ UNCHANGED <<managed, source, mixed>>
  BY DEF CrashCommand
<1>2. CASE pc[p] \in Quiet
  BY <1>1, <1>2, Exits DEF CrashCommand, vars, Busy, OthersCall
<1>3. CASE pc[p] \notin Quiet
  <2>1. Crash(p)
    BY <1>3 DEF CrashCommand
  <2>2. /\ OnlyOf(p) /\ pc'[p] = "idle" /\ record' = record
    BY <2>1, EndIsOwn DEF Crash, Quiet, End, Goto, IInv, TypeOK
  <2>3. QED
    BY <1>1, <2>1, <2>2, Exits DEF OnlyOf, OthersCall, Busy, Quiet, Next
<1>4. QED
  BY <1>2, <1>3

\* Whatever the user edits.
LEMMA EditDisciplined ==
    ASSUME DInv, EditSource
    PROVE  UNCHANGED <<vars, managed, lease, cmd>> /\ DInv'
<1>1. UNCHANGED <<vars, managed, lease, cmd>> /\ source' \in Source
  BY DEF EditSource
<1>2. mixed' \in BOOLEAN
  BY DEF EditSource, DInv, ProjectTypes
<1>3. QED
  BY <1>1, <1>2 DEF vars, DInv, ProjectTypes, Command, EngagedInv, Engaged, CallingInv, Calling,
     CallOf, Gen, Busy, DrawnInv, UnwrittenInv, BeforeCall

\* Every step of a command is one the manager is held to, and keeps the
\* discipline.
LEMMA DNextInv ==
    ASSUME AsDeployed, IInv, DInv, [ProjectNext]_allVars, [AdoptionsLeftAlone]_allVars
    PROVE  [Next]_vars /\ DInv'
<1>0. AdoptionsLeftAlone
  BY DEF AdoptionsLeftAlone, Starts, allVars, projectVars
<1>1. ASSUME NEW p \in Proc,
             \/ StartAdopt(p) \/ StartUpdate(p) \/ StartRecover(p)
             \/ StartRollback(p) \/ StartBuild(p)
      PROVE  [Next]_vars /\ DInv'
  BY <1>0, <1>1, StartAdoptDisciplined, StartDisciplined
<1>2. ASSUME NEW p \in Proc, CommandStep(p) PROVE [Next]_vars /\ DInv'
  BY <1>2, ReadDisciplined, ReserveDisciplined, AdoptDisciplined,
     UpdateInspectDisciplined, UpdateMarkDisciplined, RecoverDisciplined, RollbackDisciplined, BuildDisciplined,
     FinishDisciplined, CallReturnedDisciplined DEF CommandStep
<1>3. ASSUME NEW p \in Proc, ManagerStep(p) \/ CrashCommand(p) PROVE [Next]_vars /\ DInv'
  BY <1>3, ManagerStepDisciplined, CrashDisciplined
<1>4. CASE EditSource
  BY <1>4, EditDisciplined
<1>5. CASE UNCHANGED allVars
  BY <1>5 DEF allVars, projectVars, vars, DInv, ProjectTypes, Command, EngagedInv, Engaged,
     CallingInv, Calling, CallOf, Gen, Busy, DrawnInv, UnwrittenInv, BeforeCall
<1>6. QED
  BY <1>1, <1>2, <1>3, <1>4, <1>5 DEF ProjectNext

-----------------------------------------------------------------------------
(* The record and the active generation: what a command leaves alone.      *)

\* What is known of the outcome of a command depends on its own memory and on
\* the manager's files.
LEMMA OutcomeStays ==
    ASSUME DInv, NEW q \in Proc, Outcome(q), cmd'[q] = cmd[q], pc'[q] = pc[q],
           UNCHANGED <<active, record, dir>>,
           UNCHANGED <<source, mixed>> \/ EditSource
    PROVE  Outcome(q)'
<1>1. /\ ~mixed' => ~mixed
      /\ (At(q, "adopt", "compare") /\ ~mixed') => source'.config = source.config
  <2>1. CASE UNCHANGED <<source, mixed>>
    BY <2>1
  <2>2. CASE EditSource
    BY <2>2, Zenon DEF EditSource
  <2>3. QED
    BY <2>1, <2>2
<1>2. /\ (cmd'[q].op = "adopt" /\ cmd'[q].at = "compare" /\ ~mixed') =>
            cmd'[q].read.config = source'.config
      /\ (cmd'[q].op = "adopt" /\ cmd'[q].at \in {"packages", "calling", "finish"} /\ ~mixed') =>
            cmd'[q].read.config = cmd'[q].rec.input.config
  BY <1>1 DEF Outcome, At
<1>3. QED
  BY <1>2 DEF Outcome, Succeeded, Calling, After, Initial, Gen, Switched, HasRecord,
     VerifyActiveGeneration, VerifyGeneration

\* Nothing is claimed of a command that is not engaged.
LEMMA IdleOutcome ==
    ASSUME NEW q \in Proc, ~Engaged(q)'
    PROVE  Outcome(q)'
BY DEF Outcome, Succeeded, Calling, Switched, Engaged, LeasedOp

\* A command goes on without touching the record or the manager's files.
LEMMA OutcomeAdvances ==
    ASSUME DInv, MInv, NEW p \in Proc, \A q \in Proc \ {p} : cmd'[q] = cmd[q], OthersCall(p),
           UNCHANGED <<managed, active, record, dir, source, mixed>>, Outcome(p)'
    PROVE  MInv'
<1>1. \A q \in Proc \ {p} : Outcome(q)'
  BY OutcomeStays DEF MInv, OthersCall
<1>2. RecordInv'
  BY DEF MInv, RecordInv, ActiveMatchesInput, IsManaged, IsPublished, Initial
<1>3. QED
  BY <1>1, <1>2 DEF MInv

\* What is active was built from this input.
Matches(input) ==
    /\ active.content.declared = input.declared
    /\ mixed \/ active.content.config = input.config

\* The record that fits what is active when no transaction is pending.
Fits(rec) ==
    \/ rec = NoRecord /\ active = NoGen
    \/ /\ rec \in ManagedRecord /\ rec.pending = NoTxn
       /\ active # NoGen /\ active.txn = rec.active /\ IsPublished(rec.active)
       /\ Matches(rec.input)
       /\ rec.previous # NoTxn => IsPublished(rec.previous)

\* A command that ends with such a record.
LEMMA FitsAtEnd ==
    ASSUME DInv, MInv, NEW p \in Proc, NEW rec, FinishWith(p, rec), Fits(rec)
    PROVE  MInv' /\ SwitchInv'
<1>1. /\ managed' = rec /\ UNCHANGED <<vars, source, mixed>> /\ \A q \in Proc \ {p} : cmd'[q] = cmd[q]
      /\ cmd'[p] = NoCmd
  BY DEF FinishWith, Exit, DInv, ProjectTypes
<1>2. \A q \in Proc \ {p} : Outcome(q)'
  BY <1>1, OutcomeStays DEF MInv, vars
<1>3. Outcome(p)'
  BY <1>1, IdleOutcome DEF Engaged, LeasedOp, NoCmd
<1>4. RecordInv' /\ SwitchInv'
  BY <1>1 DEF Fits, Matches, ActiveMatchesInput, RecordInv, SwitchInv, IsManaged, IsPublished,
     vars
<1>5. QED
  BY <1>2, <1>3, <1>4 DEF MInv

\* A command that ends and leaves the record.
LEMMA QuitsOutcome ==
    ASSUME DInv, MInv, NEW p \in Proc, Quit(p)
    PROVE  MInv'
<1>1. /\ UNCHANGED <<vars, managed, source, mixed>> /\ \A q \in Proc \ {p} : cmd'[q] = cmd[q]
      /\ cmd'[p] = NoCmd
  BY DEF Quit, Exit, DInv, ProjectTypes
<1>2. Outcome(p)'
  BY <1>1, IdleOutcome DEF Engaged, LeasedOp, NoCmd
<1>3. QED
  BY <1>1, <1>2, OutcomeAdvances DEF vars, OthersCall

\* Only one transaction at a time can be named by the active record, and one
\* that failed or never wrote a record is not.
LEMMA ActiveIsBegun ==
    ASSUME IInv, active # NoGen
    PROVE  /\ active \in Generation /\ record[active.txn].gen = active
           /\ record[active.txn].state \in {"Published", "Verified"}
BY DEF IInv, ActiveInv, HasRecord

-----------------------------------------------------------------------------
(* The record and the active generation: the commands.                     *)

\* A command that starts claims nothing.
LEMMA StartOutcome ==
    ASSUME DInv, MInv, NEW p \in Proc,
           \/ StartAdopt(p) \/ StartUpdate(p) \/ StartRecover(p)
           \/ StartRollback(p) \/ StartBuild(p)
    PROVE  MInv'
<1>1. /\ UNCHANGED <<vars, managed, source, mixed>> /\ \A q \in Proc \ {p} : cmd'[q] = cmd[q]
      /\ cmd'[p].at \in {"inspect", "declare", "reserve"}
  <2>1. CASE StartAdopt(p)
    <3>1. PICK t \in Txn :
              /\ cmd' = [cmd EXCEPT ![p] =
                    [NoCmd EXCEPT !.op = "adopt", !.at = "reserve", !.txn = t]]
              /\ UNCHANGED <<vars, managed, source, mixed>>
      BY <2>1 DEF StartAdopt
    <3> DEFINE c == [NoCmd EXCEPT !.op = "adopt", !.at = "reserve", !.txn = t]
    <3>2. c.at = "reserve"
      BY DEF NoCmd
    <3> HIDE DEF c
    <3>3. QED
      BY <3>1, <3>2 DEF DInv, ProjectTypes
  <2>2. ASSUME NEW op, NEW point \in {"inspect", "declare"}, StartLeased(p, op, point)
        PROVE  /\ UNCHANGED <<vars, managed, source, mixed>>
               /\ \A q \in Proc \ {p} : cmd'[q] = cmd[q]
               /\ cmd'[p].at = point
    <3> DEFINE c == [NoCmd EXCEPT !.op = op, !.at = point, !.rec = managed]
    <3>1. c.at = point
      BY DEF NoCmd
    <3>2. cmd' = [cmd EXCEPT ![p] = c] /\ UNCHANGED <<vars, managed, source, mixed>>
      BY <2>2 DEF StartLeased, Start
    <3> HIDE DEF c
    <3>3. QED
      BY <3>1, <3>2 DEF DInv, ProjectTypes
  <2>3. QED
    BY <2>1, <2>2 DEF StartUpdate, StartRecover, StartRollback, StartBuild
<1>2. Outcome(p)'
  BY <1>1 DEF Outcome, Succeeded, Calling, Switched
<1>3. QED
  BY <1>1, <1>2, OutcomeAdvances DEF vars, OthersCall

\* A project that is reserved has no active generation.
LEMMA ReserveOutcome ==
    ASSUME DInv, MInv, NEW p \in Proc, Reserve(p) \/ WriteReservation(p)
    PROVE  MInv'
<1> USE DEF DInv
<1>1. CASE Quit(p)
  BY <1>1, QuitsOutcome
<1>2. CASE Reserve(p) /\ ~Quit(p)
  <2>1. /\ cmd[p].op = "adopt" /\ managed = NoRecord /\ managed' = TornManaged
        /\ UNCHANGED vars /\ \A q \in Proc \ {p} : cmd'[q] = cmd[q]
        /\ cmd'[p].op = "adopt" /\ cmd'[p].at = "writeReservation"
    <3>1. PICK rec, declared :
              /\ cmd[p].op = "adopt" /\ managed = NoRecord /\ managed' = TornManaged
              /\ cmd' = [cmd EXCEPT ![p].at = "writeReservation", ![p].rec = rec,
                                    ![p].read.declared = declared]
              /\ UNCHANGED vars
      BY <1>2 DEF Reserve, At
    <3>2. QED
      BY <3>1 DEF ProjectTypes, Reading
  <2>2. \A q \in Proc \ {p} : ~Engaged(q)'
    BY <2>1 DEF EngagedInv, Engaged, Command, LeasedOp, ModelPoints
  <2>3. Outcome(p)'
    BY <2>1 DEF Outcome, Succeeded, Calling, Switched
  <2>4. \A q \in Proc : Outcome(q)'
    BY <2>2, <2>3, IdleOutcome
  <2>5. active' = NoGen /\ ~IsManaged'
    BY <2>1 DEF MInv, RecordInv, IsManaged, vars
  <2>6. RecordInv'
    BY <2>5 DEF RecordInv, ActiveMatchesInput
  <2>7. QED
    BY <2>4, <2>6 DEF MInv
<1>3. CASE WriteReservation(p)
  <2>1. /\ cmd[p].op = "adopt" /\ cmd[p].at = "writeReservation" /\ managed' = cmd[p].rec
        /\ UNCHANGED <<vars, source, mixed>> /\ \A q \in Proc \ {p} : cmd'[q] = cmd[q]
        /\ cmd'[p].op = "adopt" /\ cmd'[p].at = "rehash"
    BY <1>3 DEF WriteReservation, At, Move, ProjectTypes
  <2>2. Outcome(p)'
    BY <2>1 DEF Outcome, Succeeded, Calling, Switched
  <2>3. \A q \in Proc \ {p} : Outcome(q)'
    BY <2>1, OutcomeStays DEF MInv, vars
  <2>4. active' = NoGen
    BY <2>1 DEF MInv, RecordInv, IsManaged, EngagedInv, Engaged, vars
  <2>5. cmd[p].rec \in ManagedRecord /\ Reserved(cmd[p].rec, cmd[p].txn) /\ cmd[p].txn \in Txn
    BY <2>1 DEF Command
  <2>6. RecordInv'
    BY <2>1, <2>4, <2>5 DEF RecordInv, ActiveMatchesInput, IsManaged, Reserved, Initial
  <2>7. QED
    BY <2>2, <2>3, <2>6 DEF MInv
<1>4. QED
  BY <1>1, <1>2, <1>3

\* A reading is remembered as it was; the comparison is with the second hash of
\* the configuration, which without an edit is the first.
LEMMA ReadOutcome ==
    ASSUME DInv, MInv, NEW p \in Proc,
           Declare(p) \/ HashConfig(p) \/ Compare(p) \/ Rehash(p) \/ RecoverModel(p)
    PROVE  MInv'
<1>1. CASE Quit(p)
  BY <1>1, QuitsOutcome
<1>2. CASE ~Quit(p)
  <2>1. /\ UNCHANGED <<managed, vars, source, mixed>> /\ \A q \in Proc \ {p} : cmd'[q] = cmd[q]
        /\ cmd'[p].at \in {"config", "compare", "packages", "resolve"}
        /\ cmd'[p].at = "compare" => cmd'[p].read.config = source.config
        /\ cmd'[p].at = "packages" =>
              /\ cmd[p].at = "compare" /\ ModelMatches(p)
              /\ cmd'[p].op = cmd[p].op /\ cmd'[p].read = cmd[p].read /\ cmd'[p].rec = cmd[p].rec
        /\ cmd'[p].at = "resolve" => cmd'[p].op = "recover"
    BY <1>2 DEF Declare, HashConfig, Compare, Rehash, RecoverModel, Move, At, DInv, ProjectTypes,
       Reading
  <2>2. (cmd'[p].op = "adopt" /\ cmd'[p].at = "packages" /\ ~mixed') =>
            cmd'[p].read.config = cmd'[p].rec.input.config
    <3>1. SUFFICES ASSUME cmd'[p].op = "adopt", cmd'[p].at = "packages", ~mixed
                   PROVE  cmd[p].read.config = cmd[p].rec.input.config
      BY <2>1
    <3>2. cmd[p].read.config = source.config
      BY <2>1, <3>1 DEF MInv, Outcome
    <3>3. source.config = cmd[p].rec.input.config
      BY <2>1, <3>1 DEF ModelMatches, InputOf
    <3>4. QED
      BY <3>2, <3>3
  <2>3. Outcome(p)'
    BY <2>1, <2>2 DEF Outcome, Succeeded, Calling, Switched
  <2>4. QED
    BY <2>1, <2>3, OutcomeAdvances DEF vars, OthersCall
<1>3. QED
  BY <1>1, <1>2

\* An adoption goes on to its call, which has not succeeded when it starts.
LEMMA AdoptOutcome ==
    ASSUME IInv, DInv, MInv, NEW p \in Proc, AdoptPublish(p)
    PROVE  MInv'
<1>1. /\ UNCHANGED <<managed, disk, source, mixed>> /\ \A q \in Proc \ {p} : cmd'[q] = cmd[q]
      /\ cmd[p].op = "adopt" /\ cmd[p].at = "packages" /\ OthersCall(p)
      /\ cmd'[p].op = "adopt" /\ cmd'[p].at = "calling" /\ pc'[p] = "acquire"
      /\ cmd'[p].read = cmd[p].read /\ cmd'[p].rec = cmd[p].rec
  BY DEF AdoptPublish, At, DInv, ProjectTypes, Publish, Begin, Goto, vars, disk, OthersCall,
     IInv, TypeOK
<1>2. ~mixed => cmd[p].read.config = cmd[p].rec.input.config
  BY <1>1 DEF MInv, Outcome
<1>3. Outcome(p)'
  BY <1>1, <1>2 DEF Outcome, Succeeded, Calling, Switched
<1>4. QED
  BY <1>1, <1>3, OutcomeAdvances DEF disk

\* Before an update draws its transaction it has verified what is active.
LEMMA UpdateInspectOutcome ==
    ASSUME DInv, MInv, NEW p \in Proc, UpdateInspect(p)
    PROVE  MInv'
<1>1. CASE Quit(p)
  BY <1>1, QuitsOutcome
<1>2. CASE ~Quit(p)
  <2>1. /\ UNCHANGED <<managed, vars, source, mixed>> /\ \A q \in Proc \ {p} : cmd'[q] = cmd[q]
        /\ cmd'[p].op = "update" /\ cmd'[p].at = "mark" /\ cmd'[p].model = Modelled(p)
        /\ cmd'[p].rec = cmd[p].rec
        /\ VerifyActiveGeneration([txn |-> cmd[p].rec.active, content |-> Modelled(p)])
    <3>1. PICK t \in Txn :
              /\ cmd' = [cmd EXCEPT ![p].at = "mark", ![p].txn = t, ![p].model = Modelled(p)]
              /\ UNCHANGED <<managed, vars, source, mixed>> /\ cmd[p].op = "update"
              /\ VerifyActiveGeneration([txn |-> cmd[p].rec.active, content |-> Modelled(p)])
      BY <1>2 DEF UpdateInspect, At
    <3>2. QED
      BY <3>1 DEF DInv, ProjectTypes
  <2>2. Outcome(p)'
    BY <2>1 DEF Outcome, Succeeded, Calling, Switched, VerifyActiveGeneration, Gen, vars
  <2>3. QED
    BY <2>1, <2>2, OutcomeAdvances DEF vars, OthersCall
<1>3. QED
  BY <1>1, <1>2

\* The pending mark names a transaction that is not the active one.
LEMMA UpdateMarkOutcome ==
    ASSUME IInv, DInv, MInv, NEW p \in Proc, UpdateMark(p)
    PROVE  MInv'
<1> DEFINE t == cmd[p].txn
           rec == cmd[p].rec
<1>1. /\ cmd[p].op = "update" /\ cmd[p].at = "mark" /\ t \in Txn /\ rec \in ManagedRecord
      /\ managed = rec /\ rec.pending = NoTxn /\ record[t].state = "Absent"
  BY DEF UpdateMark, At, DInv, Command, EngagedInv, Engaged, LeasedOp, UnwrittenInv, BeforeCall,
     ModelPoints
<1>2. /\ UNCHANGED <<disk, source, mixed>> /\ \A q \in Proc \ {p} : cmd'[q] = cmd[q]
      /\ cmd'[p].op = "update" /\ OthersCall(p)
      /\ cmd'[p].at = "calling" /\ pc'[p] = "acquire"
      /\ managed' = [rec EXCEPT !.pending = t] /\ cmd'[p].model = cmd[p].model
  BY DEF UpdateMark, At, DInv, ProjectTypes, Publish, Begin, Goto, OthersCall, IInv, TypeOK
<1>5. /\ IsPublished(rec.active) /\ active # NoGen /\ Matches(rec.input)
      /\ rec.previous # NoTxn => IsPublished(rec.previous)
  BY <1>1 DEF MInv, RecordInv, ActiveMatchesInput, Matches, IsManaged
<1>9. active = Gen(p, rec.active)
  BY <1>1 DEF MInv, Outcome
<1>3. Outcome(p)' /\ \A q \in Proc \ {p} : Outcome(q)'
  <2>1. active' # NoGen /\ active'.content = cmd'[p].model
    BY <1>1, <1>2, <1>5, <1>9 DEF Gen, disk
  <2>2. Outcome(p)'
    BY <1>2, <2>1 DEF Outcome, Succeeded, Calling, Switched
  <2>3. QED
    BY <1>2, <2>2, OutcomeStays DEF MInv, OthersCall, disk
<1>4. /\ managed' \in ManagedRecord /\ managed'.pending = t /\ managed'.active = rec.active
      /\ managed'.previous = rec.previous /\ managed'.input = rec.input
  BY <1>1, <1>2 DEF ManagedRecord
<1>6. active.txn = rec.active /\ t # rec.active
  BY <1>1, <1>5, <1>9 DEF Gen, IsPublished
<1>7. RecordInv'
  BY <1>1, <1>2, <1>4, <1>5, <1>6 DEF RecordInv, ActiveMatchesInput, Matches, IsManaged,
     IsPublished, disk
<1>8. QED
  BY <1>3, <1>7 DEF MInv

\* A reservation without a transaction record has nothing active.
LEMMA RecoverInspectOutcome ==
    ASSUME IInv, DInv, MInv, NEW p \in Proc, RecoverInspect(p)
    PROVE  MInv'
<1> DEFINE rec == cmd[p].rec
<1>1. /\ UNCHANGED <<managed, vars, source, mixed>> /\ \A q \in Proc \ {p} : cmd'[q] = cmd[q]
      /\ cmd'[p].op = "recover" /\ cmd'[p].rec = rec
      /\ \/ cmd'[p].at = "declare"
         \/ cmd'[p].at = "remove" /\ Initial(rec) /\ record[rec.pending].state = "Absent"
  BY DEF RecoverInspect, Move, At, DInv, ProjectTypes
<1>2. rec \in ManagedRecord /\ managed = rec /\ rec.pending \in Txn
  BY DEF RecoverInspect, At, DInv, Command, EngagedInv, Engaged, LeasedOp
<1>3. cmd'[p].at = "remove" => active = NoGen
  BY <1>1, <1>2, ActiveIsBegun DEF MInv, RecordInv, IsManaged, Initial
<1>4. Outcome(p)'
  BY <1>1, <1>3 DEF Outcome, Succeeded, Calling, Switched, Initial, vars
<1>5. QED
  BY <1>1, <1>4, OutcomeAdvances DEF vars, OthersCall

\* What is active when a recovery starts its call decides how it ends.
LEMMA RecoverResolveOutcome ==
    ASSUME IInv, DInv, MInv, NEW p \in Proc, RecoverResolve(p)
    PROVE  MInv'
<1>1. /\ UNCHANGED <<managed, disk, source, mixed>> /\ \A q \in Proc \ {p} : cmd'[q] = cmd[q]
      /\ cmd'[p].op = "recover" /\ cmd'[p].rec = cmd[p].rec /\ cmd'[p].model = cmd[p].model
      /\ cmd'[p].at = "calling" /\ pc'[p] = "readTxn" /\ OthersCall(p)
      /\ cmd'[p].next = After(p)
  BY DEF RecoverResolve, At, DInv, ProjectTypes, Recover, Begin, Goto, OthersCall, IInv,
     TypeOK, After
<1>2. Outcome(p)'
  BY <1>1 DEF Outcome, Succeeded, Calling, Switched, After, Initial, Gen, disk
<1>3. QED
  BY <1>1, <1>2, OutcomeAdvances DEF disk

\* A rollback that starts its call has not switched; a build has verified what
\* is active.
LEMMA GateOutcome ==
    ASSUME IInv, DInv, MInv, NEW p \in Proc, RollbackSwitch(p) \/ BuildGate(p) \/ BuildEnd(p)
    PROVE  MInv'
<1>1. CASE Quit(p)
  BY <1>1, QuitsOutcome
<1>2. CASE RollbackSwitch(p)
  <2>1. /\ UNCHANGED <<managed, disk, source, mixed>> /\ \A q \in Proc \ {p} : cmd'[q] = cmd[q]
        /\ cmd'[p].op = "rollback" /\ cmd'[p].at = "calling" /\ pc'[p] = "checkBoth"
        /\ OthersCall(p)
    BY <1>2 DEF RollbackSwitch, At, DInv, ProjectTypes, RollbackActiveGeneration, Begin, Goto,
       OthersCall, IInv, TypeOK
  <2>2. Outcome(p)'
    BY <2>1 DEF Outcome, Succeeded, Calling, Switched
  <2>3. QED
    BY <2>1, <2>2, OutcomeAdvances DEF disk
<1>3. CASE BuildGate(p) /\ ~Quit(p)
  <2>1. /\ UNCHANGED <<managed, vars, source, mixed>> /\ \A q \in Proc \ {p} : cmd'[q] = cmd[q]
        /\ cmd'[p].op = "build" /\ cmd'[p].model = Modelled(p) /\ cmd'[p].rec = cmd[p].rec
        /\ VerifyActiveGeneration([txn |-> cmd[p].rec.active, content |-> Modelled(p)])
    BY <1>3 DEF BuildGate, At, DInv, ProjectTypes
  <2>2. Outcome(p)'
    BY <2>1 DEF Outcome, Succeeded, Calling, Switched, VerifyActiveGeneration, HasRecord,
       VerifyGeneration, Gen, vars
  <2>3. QED
    BY <2>1, <2>2, OutcomeAdvances DEF vars, OthersCall
<1>4. QED
  BY <1>1, <1>2, <1>3 DEF BuildEnd

\* The end of a call that succeeded tells a recovery what became of its
\* transaction.
LEMMA CallReturnedOutcome ==
    ASSUME IInv, DInv, MInv, NEW p \in Proc, CallReturned(p)
    PROVE  MInv'
<1> DEFINE c == cmd[p]
           g == Gen(p, c.rec.pending)
<1>1. CASE Quit(p)
  BY <1>1, QuitsOutcome
<1>2. CASE ~Quit(p)
  <2>1. /\ UNCHANGED <<managed, vars, source, mixed>> /\ \A q \in Proc \ {p} : cmd'[q] = cmd[q]
        /\ c.at = "calling" /\ pc[p] = "done" /\ cmd'[p] = [c EXCEPT !.at = c.next]
    BY <1>2 DEF CallReturned, Move, DInv, ProjectTypes, Quiet
  <2>2. /\ cmd'[p].op = c.op /\ cmd'[p].rec = c.rec /\ cmd'[p].txn = c.txn
        /\ cmd'[p].model = c.model /\ cmd'[p].at = c.next /\ cmd'[p].read = c.read
    BY <2>1 DEF DInv, ProjectTypes
  <2>3. /\ c.op = "recover" => c.next \in {"remove", "advance", "clear"}
        /\ c.op # "recover" => c.next = "finish"
        /\ c.op # "none" => c.rec \in ManagedRecord
        /\ c.op = "recover" => c.rec.pending \in Txn /\ c.model \in Content
    BY <2>1 DEF DInv, Command, NoCmd, ModelPoints
  <2>4. Outcome(p) /\ Calling(p) /\ Succeeded(p)
    BY <2>1 DEF MInv, Calling, Succeeded
  <2>5. CASE c.op = "recover"
    <3>1. /\ c.next = After(p)
          /\ \/ active = g /\ HasRecord(g, {"Published"})
             \/ record[c.rec.pending].state = "Failed"
      BY <2>4, <2>5 DEF Outcome
    <3>2. active # NoGen => record[active.txn].state \in {"Published", "Verified"}
      BY ActiveIsBegun
    <3>3. g \in Generation /\ g.txn = c.rec.pending /\ g # NoGen
      BY <2>3, <2>5 DEF Generation, Gen
    <3>4. /\ c.next = "remove" =>
                active = NoGen /\ Initial(c.rec) /\ record[c.rec.pending].state = "Failed"
          /\ c.next = "advance" => active = g /\ HasRecord(g, {"Published"})
          /\ c.next = "clear" =>
                record[c.rec.pending].state = "Failed" /\ ~(active = NoGen /\ Initial(c.rec))
      BY <3>1, <3>2, <3>3 DEF After
    <3>5. Gen(p, c.rec.pending)' = g /\ Initial(c.rec)' = Initial(c.rec)
      BY <2>1, <2>2 DEF Gen, Initial
    <3>6. Outcome(p)'
      BY <2>1, <2>2, <2>3, <2>5, <3>4, <3>5 DEF Outcome, Succeeded, Calling, Switched, Gen,
         HasRecord, vars
    <3>7. QED
      BY <2>1, <3>6, OutcomeAdvances DEF vars, OthersCall
  <2>6. CASE c.op # "recover"
    <3>1. Outcome(p)'
      BY <2>1, <2>2, <2>3, <2>4, <2>6 DEF Outcome, Succeeded, Calling, Switched, Gen, HasRecord,
         vars
    <3>2. QED
      BY <2>1, <3>1, OutcomeAdvances DEF vars, OthersCall
  <2>7. QED
    BY <2>5, <2>6
<1>3. QED
  BY <1>1, <1>2

\* A publication that succeeded is recorded.
LEMMA PublishedFinish ==
    ASSUME IInv, DInv, MInv, NEW p \in Proc, AdoptFinish(p) \/ UpdateFinish(p)
    PROVE  MInv' /\ SwitchInv'
<1> DEFINE rec == cmd[p].rec
           t == cmd[p].txn
<1>1. /\ cmd[p].op \in {"adopt", "update"} /\ cmd[p].at = "finish" /\ Engaged(p)
      /\ rec \in ManagedRecord /\ t \in Txn /\ cmd[p].model \in Content
      /\ managed = rec /\ rec.pending = t
      /\ cmd[p].op = "adopt" => Reserved(rec, t)
  BY DEF AdoptFinish, UpdateFinish, At, DInv, Command, EngagedInv, Engaged, LeasedOp, Reserved,
     ModelPoints
<1>2. active = Gen(p, t) /\ HasRecord(Gen(p, t), {"Published"})
  BY <1>1 DEF MInv, Outcome
<1>3. IsPublished(t) /\ active # NoGen /\ active.txn = t /\ Matches(rec.input)
  <2>1. IsPublished(t) /\ active # NoGen /\ active.txn = t
    BY <1>1, <1>2, ActiveIsBegun DEF Gen, HasRecord, IsPublished, Generation
  <2>2. Matches(rec.input)
    BY <1>1, <2>1 DEF MInv, RecordInv, ActiveMatchesInput, Matches, IsManaged
  <2>3. QED
    BY <2>1, <2>2
<1>4. rec.active # t => IsPublished(rec.active)
  BY <1>1 DEF MInv, RecordInv, IsManaged
<1>5. CASE AdoptFinish(p)
  <2> DEFINE new == [rec EXCEPT !.pending = NoTxn]
  <2>1. /\ new \in ManagedRecord /\ new.pending = NoTxn /\ new.active = t
        /\ new.previous = NoTxn /\ new.input = rec.input
    BY <1>1, <1>5 DEF ManagedRecord, AdoptFinish, At, Reserved
  <2>2. Fits(new)
    BY <1>3, <2>1 DEF Fits
  <2>3. QED
    BY <1>5, <2>2, FitsAtEnd DEF AdoptFinish
<1>6. CASE UpdateFinish(p)
  <2> DEFINE new == Advanced(rec)
  <2>1. /\ new \in ManagedRecord /\ new.pending = NoTxn /\ new.active = t
        /\ new.previous = rec.active /\ new.input = rec.input
    BY <1>1 DEF ManagedRecord, Advanced
  <2>2. Fits(new)
    BY <1>3, <1>4, <2>1 DEF Fits
  <2>3. QED
    BY <1>6, <2>2, FitsAtEnd DEF UpdateFinish
<1>7. QED
  BY <1>5, <1>6

\* A recovery leaves the record of what it found and settled.
LEMMA RecoverFinishOutcome ==
    ASSUME IInv, DInv, MInv, NEW p \in Proc, RecoverFinish(p)
    PROVE  MInv' /\ SwitchInv'
<1> DEFINE rec == cmd[p].rec
           t == rec.pending
<1>1. /\ cmd[p].op = "recover" /\ cmd[p].at \in {"remove", "advance", "clear"}
      /\ rec \in ManagedRecord /\ t \in Txn /\ managed = rec
      /\ cmd[p].at # "remove" => cmd[p].model \in Content
  BY DEF RecoverFinish, DInv, Command, EngagedInv, Engaged, LeasedOp
<1>2. /\ rec.previous # NoTxn => IsPublished(rec.previous)
      /\ active # NoGen => Matches(rec.input)
      /\ t = rec.active => Initial(rec) /\ (active # NoGen => active.txn = t)
      /\ t # rec.active => /\ IsPublished(rec.active) /\ active # NoGen
                          /\ active.txn \in {rec.active, t}
  BY <1>1 DEF MInv, RecordInv, ActiveMatchesInput, Matches, IsManaged
<1>3. CASE cmd[p].at = "remove"
  <2>1. FinishWith(p, NoRecord) /\ active = NoGen
    BY <1>1, <1>3 DEF RecoverFinish, MInv, Outcome
  <2>2. QED
    BY <2>1, FitsAtEnd DEF Fits
<1>4. CASE cmd[p].at = "advance"
  <2> DEFINE new == Advanced(rec)
  <2>1. FinishWith(p, new)
    BY <1>4 DEF RecoverFinish
  <2>2. active = Gen(p, t) /\ HasRecord(Gen(p, t), {"Published"})
    BY <1>1, <1>4 DEF MInv, Outcome
  <2>3. IsPublished(t) /\ active # NoGen /\ active.txn = t
    BY <1>1, <1>4, <2>2 DEF Gen, HasRecord, IsPublished, Generation
  <2>4. /\ new \in ManagedRecord /\ new.pending = NoTxn /\ new.active = t
        /\ new.previous = rec.active /\ new.input = rec.input
    BY <1>1 DEF ManagedRecord, Advanced
  <2>5. Fits(new)
    BY <1>2, <2>3, <2>4 DEF Fits
  <2>6. QED
    BY <2>1, <2>5, FitsAtEnd
<1>5. CASE cmd[p].at = "clear"
  <2> DEFINE new == [rec EXCEPT !.pending = NoTxn]
  <2>1. FinishWith(p, new)
    BY <1>5 DEF RecoverFinish
  <2>2. record[t].state = "Failed" /\ ~(active = NoGen /\ Initial(rec))
    BY <1>1, <1>5 DEF MInv, Outcome
  <2>3. active # NoGen => active.txn # t
    BY <2>2, ActiveIsBegun
  <2>4. IsPublished(rec.active) /\ active # NoGen /\ active.txn = rec.active
    BY <1>2, <2>2, <2>3
  <2>5. /\ new \in ManagedRecord /\ new.pending = NoTxn /\ new.active = rec.active
        /\ new.previous = rec.previous /\ new.input = rec.input
    BY <1>1 DEF ManagedRecord
  <2>6. Fits(new)
    BY <1>2, <2>4, <2>5 DEF Fits
  <2>7. QED
    BY <2>1, <2>6, FitsAtEnd
<1>6. QED
  BY <1>1, <1>3, <1>4, <1>5

\* A rollback exchanges the two generations in the record.
LEMMA RollbackFinishOutcome ==
    ASSUME IInv, DInv, MInv, NEW p \in Proc, RollbackFinish(p)
    PROVE  MInv' /\ SwitchInv'
<1> DEFINE rec == cmd[p].rec
           new == [rec EXCEPT !.previous = rec.active, !.active = rec.previous]
<1>1. /\ cmd[p].op = "rollback" /\ cmd[p].at = "finish" /\ FinishWith(p, new)
      /\ rec \in ManagedRecord /\ rec.previous \in Txn /\ rec.pending = NoTxn /\ managed = rec
      /\ cmd[p].model \in Content
  BY DEF RollbackFinish, At, DInv, Command, EngagedInv, Engaged, LeasedOp, ModelPoints
<1>2. /\ IsPublished(rec.previous) /\ IsPublished(rec.active) /\ active # NoGen
      /\ Matches(rec.input)
  BY <1>1 DEF MInv, RecordInv, ActiveMatchesInput, Matches, IsManaged
<1>3. active = Gen(p, rec.previous)
  BY <1>1 DEF MInv, Outcome, Switched
<1>4. /\ new \in ManagedRecord /\ new.pending = NoTxn /\ new.active = rec.previous
      /\ new.previous = rec.active /\ new.input = rec.input
  BY <1>1 DEF ManagedRecord
<1>5. Fits(new)
  BY <1>2, <1>3, <1>4 DEF Fits, Gen
<1>6. QED
  BY <1>1, <1>5, FitsAtEnd

-----------------------------------------------------------------------------
(* The record and the active generation: the manager at work.              *)

\* A call that ends with success has done what it was called for.
LEMMA SuccessOutcome ==
    ASSUME IInv, AInv, NEW p \in Proc, Busy(p), Step(p) \/ StepFails(p), pc'[p] = "done"
    PROVE  /\ UNCHANGED <<record, active>>
           /\ call[p].op \in {"publish", "rollback"} =>
                    active = call[p].target /\ HasRecord(call[p].target, {"Published"})
           /\ call[p].op = "recover" =>
                    \/ active = Own(p) /\ HasRecord(Own(p), {"Published"})
                    \/ record[OwnTxn(p)].state = "Failed"
<1>1. Next
  BY DEF Next
<1>2. CASE call[p].op \in {"publish", "rollback"}
  <2>1. RemoveLock(p)
    BY <1>1, <1>2, Finishers
  <2>2. pc[p] = "unlink" /\ UNCHANGED <<record, active>>
    BY <2>1 DEF RemoveLock
  <2>3. CASE call[p].op = "publish"
    BY <2>2, <2>3, AtPoint DEF Progress, PublishInv, Committing, OwnHas, IInv, CallsInv, Own
  <2>4. CASE call[p].op = "rollback"
    BY <2>2, <2>4, AtPoint DEF Progress, RollbackInv, VerifyPublishedGeneration
  <2>5. QED
    BY <1>2, <2>2, <2>3, <2>4
<1>3. CASE call[p].op = "recover"
  <2>1. (CheckLock(p) /\ lock = NoGen) \/ RemoveLock(p)
    BY <1>1, <1>3, RecoverFinishers
  <2>2. Own(p) \in Generation /\ OwnTxn(p) = Own(p).txn
    BY AtPoint
  <2>3. pc[p] \in {"unlock", "unlink"} /\ UNCHANGED <<record, active>>
    BY <2>1, <2>2 DEF CheckLock, RemoveLock
  <2>4. QED
    BY <1>3, <2>2, <2>3, RecoveryKnows DEF HasRecord
<1>4. QED
  BY <1>2, <1>3, AtPoint DEF AtItsPoint

\* What a published transaction is stays so while a call takes a step.
LEMMA PublishedStays ==
    ASSUME IInv, NEW p \in Proc, Step(p) \/ StepFails(p) \/ Crash(p), NEW t \in Txn, IsPublished(t)
    PROVE  IsPublished(t)'
BY StepWrites DEF IsPublished

\* What an update or a rollback makes active has the content of what was active,
\* and an adoption has nothing active before.
LEMMA ContentStays ==
    ASSUME IInv, DInv, MInv, NEW p \in Proc, ManagerStep(p), active' # active
    PROVE  /\ active' = call[p].target /\ active' \in Generation /\ active' # NoGen
           /\ active'.content = cmd[p].model
           /\ active = NoGen => cmd[p].op = "adopt"
           /\ active # NoGen => active'.content = active.content
<1> DEFINE c == cmd[p]
<1>1. /\ Busy(p) /\ Engaged(p) /\ Calling(p) /\ call[p] = CallOf(p)
      /\ Step(p) \/ StepFails(p)
  BY StepIsOwn, BusyEngaged DEF ManagerStep
<1>2. /\ active' = call[p].target /\ call[p].op \in {"publish", "rollback"} /\ pc[p] = "rename"
  BY <1>1, StepWrites
<1>3. call[p].target \in Generation /\ Progress(p) /\ Own(p) \in Generation
  BY <1>1, AtPoint
<1>4. /\ managed = c.rec /\ c.rec \in ManagedRecord /\ IsManaged /\ c.model \in Content
      /\ c.op \in {"adopt", "update", "rollback"}
      /\ c.op = "adopt" => Reserved(c.rec, c.txn) /\ c.txn \in Txn
  <2>1. c.op \in {"adopt", "update", "rollback"} /\ c.at = "calling"
    BY <1>1, <1>2 DEF CallOf, NoCall, Calling
  <2>2. QED
    BY <1>1, <2>1 DEF DInv, Command, EngagedInv, IsManaged, ModelPoints, ProjectTypes
<1>5. active' \in Generation /\ active' # NoGen
  BY <1>2, <1>3
<1>6. CASE c.op = "adopt"
  <2>1. call[p].target = Gen(p, c.txn) /\ Own(p) = Gen(p, c.txn) /\ call[p].op = "publish"
    BY <1>1, <1>6 DEF CallOf, Own
  <2>2. active = NoGen
    <3>1. SUFFICES ASSUME active # NoGen PROVE FALSE
      OBVIOUS
    <3>2. active.txn = c.txn
      BY <1>4, <1>6, <3>1 DEF MInv, RecordInv, Reserved
    <3>3. record[c.txn].gen = Gen(p, c.txn)
      BY <1>2, <1>3, <2>1 DEF Progress, PublishInv, OwnHas, HasRecord, Gen
    <3>4. QED
      BY <1>2, <2>1, <3>1, <3>2, <3>3, ActiveIsBegun
  <2>3. QED
    BY <1>2, <1>5, <1>6, <2>1, <2>2 DEF Gen
<1>7. CASE c.op = "update"
  <2>1. call[p].target = Gen(p, c.txn)
    BY <1>1, <1>7 DEF CallOf
  <2>2. active # NoGen /\ active.content = c.model
    BY <1>1, <1>7 DEF MInv, Outcome
  <2>3. QED
    BY <1>2, <1>5, <2>1, <2>2 DEF Gen
<1>8. CASE c.op = "rollback"
  <2>1. call[p].target = Gen(p, c.rec.previous)
    BY <1>1, <1>8 DEF CallOf
  <2>2. active = Gen(p, c.rec.active)
    BY <1>1, <1>2, <1>8 DEF MInv, Outcome
  <2>3. active # NoGen
    BY <1>4, <1>8, <1>1 DEF MInv, RecordInv, DInv, Command
  <2>4. QED
    BY <1>2, <1>5, <2>1, <2>2, <2>3 DEF Gen
<1>9. QED
  BY <1>4, <1>6, <1>7, <1>8

\* While the manager works for an engaged command, the record stays true of it.
LEMMA ManagerStepRecord ==
    ASSUME IInv, DInv, MInv, NEW p \in Proc, ManagerStep(p)
    PROVE  RecordInv'
<1> DEFINE c == cmd[p]
<1>1. Step(p) \/ StepFails(p)
  BY DEF ManagerStep
<1>2. /\ Busy(p) /\ Engaged(p) /\ Calling(p) /\ call[p] = CallOf(p)
      /\ UNCHANGED <<managed, cmd, source, mixed>>
  BY <1>1, StepIsOwn, BusyEngaged DEF ManagerStep, projectVars
<1>3. /\ managed = c.rec /\ c.rec \in ManagedRecord /\ IsManaged /\ IsManaged'
      /\ c.op \in {"adopt", "update", "recover", "rollback"}
      /\ c.op \in {"adopt", "update"} => c.rec.pending = c.txn /\ c.txn \in Txn
      /\ c.op = "rollback" => c.rec.pending = NoTxn /\ c.rec.previous \in Txn
      /\ c.model \in Content /\ c.model.declared = c.rec.input.declared
      /\ c.op = "adopt" => c.model.config = c.read.config
  BY <1>2 DEF DInv, Command, EngagedInv, Calling, Engaged, LeasedOp, IsManaged, Reserved,
     ModelPoints
<1>4. \A t \in Txn : IsPublished(t) => IsPublished(t)'
  BY <1>1, PublishedStays
<1>5. managed.active \in Txn /\ managed.previous \in Txn \cup {NoTxn}
  BY <1>3 DEF ManagedRecord
<1>6. RecordInv
  BY DEF MInv
<1>7. CASE active' = active
  BY <1>2, <1>3, <1>4, <1>5, <1>6, <1>7 DEF RecordInv, ActiveMatchesInput, IsManaged, Initial
<1>8. CASE active' # active
  <2>1. /\ active' = call[p].target /\ call[p].op \in {"publish", "rollback"}
        /\ record' = record
    BY <1>1, <1>8, StepWrites
  <2>2. ActiveMatchesInput'
    <3>1. CASE active = NoGen
      <4>1. c.op = "adopt" /\ active'.content = c.model
        BY <1>8, <3>1, ContentStays
      <4>2. ~mixed => c.read.config = c.rec.input.config
        BY <1>2, <4>1 DEF MInv, Outcome, Calling
      <4>3. QED
        BY <1>2, <1>3, <4>1, <4>2 DEF ActiveMatchesInput
    <3>2. CASE active # NoGen
      BY <1>2, <1>3, <1>6, <1>8, <3>2, ContentStays DEF RecordInv, ActiveMatchesInput
    <3>3. QED
      BY <3>1, <3>2
  <2>3. CASE c.op \in {"adopt", "update"}
    <3>1. active' = Gen(p, c.txn)
      BY <1>2, <2>1, <2>3 DEF CallOf
    <3>2. active' # NoGen /\ active'.txn = c.rec.pending
      BY <1>3, <1>8, <2>3, <3>1, ContentStays DEF Gen
    <3>3. QED
      BY <1>2, <1>3, <1>4, <1>5, <1>6, <2>2, <2>3, <3>2 DEF RecordInv, Initial
  <2>4. CASE c.op = "rollback"
    BY <1>2, <1>3, <1>4, <1>5, <1>6, <1>8, <2>2, <2>4, ContentStays DEF RecordInv
  <2>5. c.op # "recover"
    BY <1>2, <2>1 DEF CallOf
  <2>6. QED
    BY <1>3, <2>3, <2>4, <2>5
<1>9. QED
  BY <1>7, <1>8

\* A rollback renames only after it has found its own generation active, under
\* the lock.
LEMMA RollbackPrepares ==
    ASSUME IInv, NEW p \in Proc, Busy(p), call[p].op = "rollback", Step(p) \/ StepFails(p),
           pc'[p] \in {"temp", "rename"}
    PROVE  /\ pc[p] \in {"recheck", "temp"} /\ active' = active
           /\ pc[p] = "recheck" => active = Own(p)
<1>1. pc \in [Proc -> Point] /\ AtItsPoint(p)
  BY AtPoint DEF IInv, TypeOK
<1>2. pc[p] \in RollbackPoints
  BY <1>1 DEF AtItsPoint
<1>3. pc[p] \in {"checkBoth", "acquire", "writeLock", "recheck", "temp", "rename", "reread",
               "confirmActive", "unlock", "unlink", "giveUp", "discard"}
  BY <1>2 DEF RollbackPoints, EndPoints
<1>4. ~Refuse(p) /\ \A how : how \in Quiet => ~End(p, how)
  BY <1>1 DEF Refuse, Fail, End, Goto, Quiet
<1>5. Step(p)
  BY <1>4 DEF StepFails, Fail, Quiet
<1>6. \/ AcquireLock(p) \/ WriteLock(p) \/ CheckLock(p) \/ RemoveLock(p)
      \/ GiveUp(p) \/ DiscardLock(p) \/ CheckBoth(p) \/ RereadActive(p)
      \/ ConfirmRollback(p) \/ RecheckBoth(p) \/ CreateTemp(p) \/ RenameTemp(p)
  BY <1>3, <1>5 DEF Step, CreateRecord, WriteRecord, CheckTransition, ReplaceRecord,
     ConfirmRecord, CreateDirectory, FillDirectory, VerifyMaterialized, ReadRetained,
     WriteRetained, ConfirmRetained, ReadTransaction, ReadActive, CompleteActive, CleanTemps
<1>7. \A point : Goto(p, point) => point \in {"temp", "rename"}
  BY <1>1 DEF Goto
<1>8. RecheckBoth(p) \/ CreateTemp(p)
  BY <1>4, <1>6, <1>7 DEF AcquireLock, WriteLock, CheckLock, RemoveLock, GiveUp, DiscardLock,
     CheckBoth, RereadActive, GotoTransition, ConfirmRollback, RenameTemp, Fail, End, Quiet
<1>9. QED
  BY <1>4, <1>8 DEF RecheckBoth, CreateTemp, RollbackHolds, VerifyActiveGeneration, disk

\* And so does what the command knows of its outcome.
LEMMA ManagerStepOutcome ==
    ASSUME IInv, AInv, DInv, MInv, NEW p \in Proc, ManagerStep(p)
    PROVE  MInv'
<1> DEFINE c == cmd[p]
<1>1. Step(p) \/ StepFails(p)
  BY DEF ManagerStep
<1>2. /\ Busy(p) /\ OnlyOf(p) /\ Engaged(p) /\ Calling(p) /\ call[p] = CallOf(p)
      /\ UNCHANGED <<managed, cmd, source, mixed>>
  BY <1>1, StepIsOwn, BusyEngaged DEF ManagerStep, projectVars
<1>3. c.op \in {"adopt", "update", "recover", "rollback"} /\ c.at = "calling"
  BY <1>2 DEF DInv, Command, Calling, Engaged, LeasedOp, ModelPoints
<1>4. \A q \in Proc \ {p} : Outcome(q)'
  <2>1. \A q \in Proc \ {p} : ~Engaged(q)
    BY <1>2 DEF DInv, EngagedInv
  <2>2. \A q \in Proc \ {p} : ~Engaged(q)'
    BY <1>2, <2>1 DEF Engaged
  <2>3. QED
    BY <2>2, IdleOutcome
<1>5. IInv'
  BY <1>1, NextInv DEF Next
<1>6. Outcome(p)'
  <2>1. CASE c.op \in {"adopt", "update"}
    <3>1. call[p].op = "publish" /\ call[p].target = Gen(p, c.txn)
      BY <1>2, <2>1 DEF CallOf
    <3>2. Succeeded(p)' => active' = Gen(p, c.txn) /\ HasRecord(Gen(p, c.txn), {"Published"})'
      BY <1>1, <1>2, <3>1, SuccessOutcome DEF Succeeded, HasRecord, Gen
    <3>3. (c.op = "update") => active' # NoGen /\ active'.content = c.model
      BY <1>2, ContentStays DEF MInv, Outcome
    <3>4. (c.op = "adopt" /\ ~mixed) => c.read.config = c.rec.input.config
      BY <1>2, <1>3 DEF MInv, Outcome
    <3>5. QED
      BY <1>2, <1>3, <2>1, <3>2, <3>3, <3>4 DEF Outcome, Switched, Gen
  <2>2. CASE c.op = "recover"
    <3>1. /\ call[p].op = "recover" /\ Own(p) = Gen(p, c.rec.pending)
          /\ OwnTxn(p) = c.rec.pending
      BY <1>2, <2>2 DEF CallOf, Own, OwnTxn, Gen
    <3>2. active' = active
      BY <1>1, <3>1, StepWrites
    <3>3. Succeeded(p)' =>
              \/ /\ active' = Gen(p, c.rec.pending)
                 /\ HasRecord(Gen(p, c.rec.pending), {"Published"})'
              \/ record'[c.rec.pending].state = "Failed"
      BY <1>1, <1>2, <3>1, SuccessOutcome DEF Succeeded, HasRecord, Gen
    <3>4. c.next = After(p) /\ After(p)' = After(p)
      BY <1>2, <2>2, <3>2 DEF MInv, Outcome, After, Initial, Gen
    <3>5. QED
      BY <1>2, <1>3, <2>2, <3>3, <3>4 DEF Outcome, Switched, Gen, Initial
  <2>3. CASE c.op = "rollback"
    <3>1. call[p].op = "rollback" /\ call[p].target = Gen(p, c.rec.previous)
      BY <1>2, <2>3 DEF CallOf
    <3>2. Switched(p)' => active' = Gen(p, c.rec.previous)
      <4>1. CASE pc'[p] = "done"
        BY <1>1, <1>2, <3>1, <4>1, SuccessOutcome
      <4>2. CASE pc'[p] \in {"reread", "confirmActive", "unlock", "unlink"}
        <5>1. Busy(p)' /\ call'[p] = call[p]
          BY <1>2, <4>2 DEF OnlyOf, Busy, Quiet
        <5>2. RollbackInv(p)'
          BY <1>5, <3>1, <5>1 DEF IInv, ProgressInv, Progress
        <5>3. QED
          BY <3>1, <4>2, <5>1, <5>2 DEF RollbackInv
      <4>3. QED
        BY <1>2, <1>3, <4>1, <4>2 DEF Switched
    <3>3. pc'[p] \in {"temp", "rename"} => active' = Gen(p, c.rec.active)
      <4>1. SUFFICES ASSUME pc'[p] \in {"temp", "rename"} PROVE active' = Gen(p, c.rec.active)
        OBVIOUS
      <4>2. Own(p) = Gen(p, c.rec.active)
        BY <1>2, <2>3 DEF CallOf, Own
      <4>3. pc[p] \in {"recheck", "temp"}
            /\ (pc[p] = "recheck" => active = Own(p) /\ active' = active)
            /\ (pc[p] = "temp" => active' = active)
        BY <1>1, <1>2, <3>1, <4>1, RollbackPrepares
      <4>4. QED
        BY <1>2, <1>3, <2>3, <4>2, <4>3 DEF MInv, Outcome
    <3>4. QED
      BY <1>2, <1>3, <2>3, <3>2, <3>3 DEF Outcome, Succeeded, Gen
  <2>4. QED
    BY <1>3, <2>1, <2>2, <2>3
<1>7. QED
  BY <1>4, <1>6, ManagerStepRecord DEF MInv

\* A crash changes nothing on disk.
LEMMA CrashOutcome ==
    ASSUME IInv, DInv, MInv, NEW p \in Proc, CrashCommand(p)
    PROVE  MInv' /\ UNCHANGED <<managed, active, record, dir, source, mixed>> /\ OthersCall(p)
           /\ \A q \in Proc \ {p} : cmd'[q] = cmd[q]
<1>1. UNCHANGED <<managed, active, record, dir, source, mixed>> /\ OthersCall(p)
  BY EndIsOwn DEF CrashCommand, Crash, vars, OthersCall, OnlyOf, Quiet
<1>2. cmd'[p] = NoCmd /\ \A q \in Proc \ {p} : cmd'[q] = cmd[q]
  BY DEF CrashCommand, Exit, DInv, ProjectTypes
<1>3. Outcome(p)'
  BY <1>2, IdleOutcome DEF Engaged, LeasedOp, NoCmd
<1>4. QED
  BY <1>1, <1>2, <1>3, OutcomeAdvances

\* The record stays true of the active generation.
LEMMA MNextInv ==
    ASSUME IInv, AInv, DInv, MInv, [ProjectNext]_allVars
    PROVE  MInv'
<1>1. ASSUME NEW p \in Proc,
             \/ StartAdopt(p) \/ StartUpdate(p) \/ StartRecover(p)
             \/ StartRollback(p) \/ StartBuild(p)
      PROVE  MInv'
  BY <1>1, StartOutcome
<1>2. ASSUME NEW p \in Proc, CommandStep(p) PROVE MInv'
  BY <1>2, ReadOutcome, ReserveOutcome, AdoptOutcome, UpdateInspectOutcome, UpdateMarkOutcome,
     RecoverInspectOutcome, RecoverResolveOutcome, GateOutcome, CallReturnedOutcome,
     PublishedFinish, RecoverFinishOutcome, RollbackFinishOutcome DEF CommandStep
<1>3. ASSUME NEW p \in Proc, ManagerStep(p) \/ CrashCommand(p) PROVE MInv'
  BY <1>3, ManagerStepOutcome, CrashOutcome
<1>4. CASE EditSource \/ UNCHANGED allVars
  <2>1. /\ UNCHANGED <<vars, managed, cmd>> /\ mixed \in BOOLEAN
        /\ UNCHANGED <<source, mixed>> \/ EditSource
    BY <1>4 DEF EditSource, allVars, projectVars, DInv, ProjectTypes
  <2>2. \A q \in Proc : Outcome(q)'
    BY <2>1, OutcomeStays DEF MInv, vars
  <2>3. ActiveMatchesInput'
    <3>1. mixed => mixed'
      BY <1>4, Zenon DEF EditSource, allVars, projectVars
    <3>2. QED
      BY <2>1, <3>1 DEF MInv, RecordInv, ActiveMatchesInput, IsManaged, vars
  <2>4. QED
    BY <2>1, <2>2, <2>3 DEF MInv, RecordInv, IsManaged, IsPublished, Initial, vars
<1>5. QED
  BY <1>1, <1>2, <1>3, <1>4 DEF ProjectNext

-----------------------------------------------------------------------------
(* A rollback that does not stop between its rename and the record.        *)

\* After its rename no file operation of a rollback can refuse: the lock is its
\* own, and what it made active stays so.
LEMMA RollbackGoesThrough ==
    ASSUME IInv, NEW p \in Proc, Step(p), call[p].op = "rollback",
           pc[p] \in {"reread", "confirmActive", "unlock", "unlink"}
    PROVE  pc'[p] \in {"confirmActive", "unlock", "unlink", "done"}
<1>1. Busy(p) /\ Holds(p) /\ pc \in [Proc -> Point]
  BY DEF Busy, Quiet, Holds, LockedPoints, SharedPoints, IInv, TypeOK
<1>2. /\ active = call[p].target /\ VerifyPublishedGeneration(call[p].target)
      /\ lock = Own(p) /\ Own(p) \in Generation /\ lock # NoGen
  BY <1>1, AtPoint DEF Progress, RollbackInv, IInv, LockExcludes
<1>3. CASE pc[p] = "reread"
  <2>1. RereadActive(p)
    BY <1>3 DEF Step, AcquireLock, WriteLock, CheckLock, RemoveLock, GiveUp, DiscardLock,
       CreateRecord, WriteRecord, CheckTransition, ReplaceRecord, ConfirmRecord,
       CreateDirectory, FillDirectory, VerifyMaterialized, CreateTemp, RenameTemp,
       ReadRetained, WriteRetained, ConfirmRetained, ReadTransaction, ReadActive,
       CompleteActive, CleanTemps, CheckBoth, RecheckBoth, ConfirmRollback
  <2>2. QED
    BY <1>1, <1>2, <2>1 DEF RereadActive, Goto
<1>4. CASE pc[p] = "confirmActive"
  <2>1. ConfirmRollback(p)
    BY <1>4 DEF Step, AcquireLock, WriteLock, CheckLock, RemoveLock, GiveUp, DiscardLock,
       CreateRecord, WriteRecord, CheckTransition, ReplaceRecord, ConfirmRecord,
       CreateDirectory, FillDirectory, VerifyMaterialized, CreateTemp, RenameTemp,
       RereadActive, ReadRetained, WriteRetained, ConfirmRetained, ReadTransaction,
       ReadActive, CompleteActive, CleanTemps, CheckBoth, RecheckBoth
  <2>2. VerifyActiveGeneration(call[p].target)
    BY <1>2 DEF VerifyActiveGeneration, VerifyPublishedGeneration
  <2>3. QED
    BY <1>1, <2>1, <2>2 DEF ConfirmRollback, Goto
<1>5. CASE pc[p] \in {"unlock", "unlink"}
  <2>1. CheckLock(p) \/ RemoveLock(p)
    BY <1>5 DEF Step, AcquireLock, WriteLock, GiveUp, DiscardLock, CreateRecord, WriteRecord,
       CheckTransition, ReplaceRecord, ConfirmRecord, CreateDirectory, FillDirectory,
       VerifyMaterialized, CreateTemp, RenameTemp, RereadActive, ReadRetained,
       WriteRetained, ConfirmRetained, ReadTransaction, ReadActive, CompleteActive,
       CleanTemps, CheckBoth, RecheckBoth, ConfirmRollback
  <2>2. QED
    BY <1>1, <1>2, <2>1 DEF CheckLock, RemoveLock, End, Goto
<1>6. QED
  BY <1>3, <1>4, <1>5

\* A rollback that has switched stays so until it writes the record.
LEMMA SwitchedStays ==
    ASSUME "rollback" \notin CrashOps, IInv, DInv, NEW q \in Proc, Switched(q),
           [ProjectNext]_allVars, managed' = managed
    PROVE  Switched(q)' \/ RollbackFinish(q)
<1> USE DEF DInv
<1>1. /\ cmd[q].op = "rollback" /\ cmd[q].at \in {"finish", "calling"}
      /\ cmd[q].at = "calling" => cmd[q].next = "finish"
  BY DEF Switched, Calling, Command
<1>2. ASSUME cmd'[q] = cmd[q], pc'[q] = pc[q] PROVE Switched(q)'
  BY <1>2 DEF Switched, Calling
<1>3. ASSUME NEW p \in Proc,
             \/ StartAdopt(p) \/ StartUpdate(p) \/ StartRecover(p)
             \/ StartRollback(p) \/ StartBuild(p)
      PROVE  Switched(q)'
  <2>1. q # p
    BY <1>1, <1>3 DEF StartAdopt, StartUpdate, StartRecover, StartRollback, StartBuild,
       StartLeased, Start, Free
  <2>2. pc' = pc /\ cmd'[q] = cmd[q]
    BY <1>3, <2>1 DEF StartAdopt, StartUpdate, StartRecover, StartRollback, StartBuild,
       StartLeased, Start, ProjectTypes, vars
  <2>3. QED
    BY <1>2, <2>2
<1>4. ASSUME NEW p \in Proc, CommandStep(p), p # q PROVE Switched(q)'
  <2>1. cmd'[q] = cmd[q]
    BY <1>4 DEF CommandStep, Declare, HashConfig, Compare, Reserve, WriteReservation, Rehash,
       AdoptPublish, AdoptFinish, UpdateInspect, UpdateMark, UpdateFinish, RecoverInspect,
       RecoverModel, RecoverResolve, RecoverFinish, RollbackSwitch, RollbackFinish, BuildGate, BuildEnd, CallReturned,
       Move, Quit, Exit, FinishWith, ProjectTypes
  <2>2. pc'[q] = pc[q]
    BY <1>4 DEF CommandStep, Declare, HashConfig, Compare, Reserve, WriteReservation, Rehash,
       AdoptPublish, AdoptFinish, UpdateInspect, UpdateMark, UpdateFinish, RecoverInspect,
       RecoverModel, RecoverResolve, RecoverFinish, RollbackSwitch, RollbackFinish, BuildGate, BuildEnd, CallReturned,
       Quit, FinishWith, Publish, Recover, RollbackActiveGeneration, Begin, Goto, vars,
       IInv, TypeOK
  <2>3. QED
    BY <1>2, <2>1, <2>2
<1>5. ASSUME CommandStep(q) PROVE Switched(q)' \/ RollbackFinish(q)
  <2>1. CallReturned(q) \/ RollbackFinish(q)
    BY <1>1, <1>5 DEF CommandStep, Declare, HashConfig, Compare, Reserve, WriteReservation,
       Rehash, AdoptPublish, AdoptFinish, UpdateInspect, UpdateMark, UpdateFinish,
       RecoverInspect, RecoverModel, RecoverResolve, RecoverFinish, RollbackSwitch, BuildGate,
       BuildEnd, At
  <2>2. ASSUME CallReturned(q) PROVE Switched(q)'
    <3>1. cmd' = [cmd EXCEPT ![q].at = cmd[q].next] /\ cmd[q].at = "calling"
      BY <2>2 DEF CallReturned, Move, Switched, Calling
    <3>2. QED
      BY <1>1, <3>1 DEF Switched, ProjectTypes
  <2>3. QED
    BY <2>1, <2>2
<1>6. ASSUME NEW p \in Proc, ManagerStep(p) PROVE Switched(q)'
  <2>1. /\ Step(p) \/ StepFails(p)
        /\ Busy(p) /\ OnlyOf(p) /\ Engaged(p) /\ call[p] = CallOf(p) /\ Calling(p) /\ cmd' = cmd
    BY <1>6, StepIsOwn, BusyEngaged DEF ManagerStep, projectVars
  <2>2. q = p
    BY <1>1, <2>1 DEF EngagedInv, Engaged, LeasedOp
  <2>3. call[p].op = "rollback" /\ pc[p] \in {"reread", "confirmActive", "unlock", "unlink"}
    BY <1>1, <2>1, <2>2 DEF CallOf, Switched, Calling, Busy, Quiet
  <2>4. Step(p)
    BY <2>1, <2>3 DEF StepFails
  <2>5. pc'[p] \in {"confirmActive", "unlock", "unlink", "done"}
    BY <2>3, <2>4, RollbackGoesThrough
  <2>6. QED
    BY <1>1, <2>1, <2>2, <2>5 DEF Switched, Calling
<1>7. ASSUME NEW p \in Proc, CrashCommand(p) PROVE Switched(q)'
  <2>1. q # p
    BY <1>1, <1>7 DEF CrashCommand
  <2>2. cmd'[q] = cmd[q]
    BY <1>7, <2>1 DEF CrashCommand, Exit, ProjectTypes
  <2>3. pc'[q] = pc[q]
    BY <1>7, <2>1 DEF CrashCommand, Crash, End, Goto, vars, IInv, TypeOK
  <2>4. QED
    BY <1>2, <2>2, <2>3
<1>8. CASE EditSource \/ UNCHANGED allVars
  BY <1>2, <1>8 DEF EditSource, allVars, projectVars, vars
<1>9. QED
  BY <1>3, <1>4, <1>5, <1>6, <1>7, <1>8 DEF ProjectNext

-----------------------------------------------------------------------------
(* Which steps write the durable record and the manager's files.           *)

\* Only the manager's own steps write a record or the active record.
LEMMA FilesWritten ==
    ASSUME [ProjectNext]_allVars, record' # record \/ active' # active
    PROVE  \E p \in Proc : ManagerStep(p)
<1>1. \A p \in Proc : ~(StartAdopt(p) \/ StartUpdate(p) \/ StartRecover(p) \/ StartRollback(p)
                       \/ StartBuild(p))
  BY DEF StartAdopt, StartUpdate, StartRecover, StartRollback, StartBuild, StartLeased, Start,
     vars
<1>2. \A p \in Proc : ~CommandStep(p)
  <2> SUFFICES ASSUME NEW p \in Proc PROVE ~CommandStep(p)
    OBVIOUS
  <2>1. ~Quit(p)
    BY DEF Quit, vars
  <2>0. ~(Declare(p) \/ HashConfig(p) \/ Compare(p) \/ RecoverModel(p))
    BY <2>1 DEF Declare, HashConfig, Compare, RecoverModel, vars
  <2>2. ~(Reserve(p) \/ WriteReservation(p) \/ Rehash(p) \/ AdoptPublish(p) \/ AdoptFinish(p))
    BY <2>1 DEF Reserve, WriteReservation, Rehash, AdoptPublish, AdoptFinish, FinishWith, Publish,
       Begin, vars, disk
  <2>3. ~(UpdateInspect(p) \/ UpdateMark(p) \/ UpdateFinish(p))
    <3>1. ~UpdateInspect(p)
      BY <2>1 DEF UpdateInspect, vars
    <3>2. ~UpdateMark(p) /\ ~UpdateFinish(p)
      BY <2>1 DEF UpdateMark, UpdateFinish, FinishWith, Publish, Begin, vars, disk
    <3>3. QED
      BY <3>1, <3>2
  <2>4. ~(RecoverInspect(p) \/ RecoverResolve(p) \/ RecoverFinish(p))
    BY <2>1 DEF RecoverInspect, RecoverResolve, RecoverFinish, FinishWith, Recover, Begin, vars,
       disk
  <2>5. ~(RollbackSwitch(p) \/ RollbackFinish(p))
    BY <2>1 DEF RollbackSwitch, RollbackFinish, FinishWith, RollbackActiveGeneration, Begin, vars,
       disk
  <2>6. ~(BuildGate(p) \/ BuildEnd(p) \/ CallReturned(p))
    BY <2>1 DEF BuildGate, BuildEnd, CallReturned, vars
  <2>7. QED
    BY <2>0, <2>2, <2>3, <2>4, <2>5, <2>6 DEF CommandStep
<1>3. \A p \in Proc : ~CrashCommand(p)
  BY DEF CrashCommand, Crash, vars
<1>4. ~EditSource /\ ~UNCHANGED allVars
  BY DEF EditSource, allVars, vars
<1>5. QED
  BY <1>1, <1>2, <1>3, <1>4 DEF ProjectNext

\* Only these steps write the durable record.
LEMMA ManagedWritten ==
    ASSUME [ProjectNext]_allVars, managed' # managed
    PROVE  \E p \in Proc :
               \/ Reserve(p) /\ ~Quit(p)
               \/ WriteReservation(p) \/ UpdateMark(p)
               \/ AdoptFinish(p) \/ UpdateFinish(p) \/ RecoverFinish(p) \/ RollbackFinish(p)
<1>1. \A p \in Proc : ~(StartAdopt(p) \/ StartUpdate(p) \/ StartRecover(p) \/ StartRollback(p)
                       \/ StartBuild(p))
  BY DEF StartAdopt, StartUpdate, StartRecover, StartRollback, StartBuild, StartLeased, Start
<1>2. \A p \in Proc : ~(Declare(p) \/ HashConfig(p) \/ Compare(p) \/ Rehash(p)
                       \/ AdoptPublish(p) \/ UpdateInspect(p) \/ RecoverInspect(p)
                       \/ RecoverModel(p) \/ RecoverResolve(p) \/ RollbackSwitch(p)
                       \/ BuildGate(p) \/ BuildEnd(p) \/ CallReturned(p) \/ Quit(p))
  BY DEF Declare, HashConfig, Compare, RecoverModel, Rehash, AdoptPublish, UpdateInspect, RecoverInspect, RecoverResolve, RollbackSwitch,
     BuildGate, BuildEnd, CallReturned, Quit
<1>3. \A p \in Proc : ~CrashCommand(p) /\ ~ManagerStep(p)
  BY DEF CrashCommand, ManagerStep, projectVars
<1>4. ~EditSource /\ ~UNCHANGED allVars
  BY DEF EditSource, allVars, projectVars
<1>5. PICK p \in Proc : CommandStep(p)
  BY <1>1, <1>3, <1>4 DEF ProjectNext
<1>6. QED
  BY <1>2, <1>5 DEF CommandStep

\* The two differ only while a rollback has switched.
LEMMA SwitchNextInv ==
    ASSUME "rollback" \notin CrashOps, IInv, AInv, DInv, MInv, SwitchInv, [ProjectNext]_allVars
    PROVE  SwitchInv'
<1>1. ASSUME NEW p \in Proc,
             AdoptFinish(p) \/ UpdateFinish(p) \/ RecoverFinish(p) \/ RollbackFinish(p)
      PROVE  SwitchInv'
  BY <1>1, PublishedFinish, RecoverFinishOutcome, RollbackFinishOutcome
<1>2. ASSUME NEW p \in Proc, Reserve(p) /\ ~Quit(p) PROVE SwitchInv'
  BY <1>2 DEF Reserve, SwitchInv, IsManaged
<1>3. ASSUME NEW p \in Proc, WriteReservation(p) \/ UpdateMark(p) PROVE SwitchInv'
  <2>1. cmd[p].rec \in ManagedRecord /\ cmd[p].txn \in Txn
        /\ (WriteReservation(p) => cmd[p].rec.pending = cmd[p].txn)
    BY <1>3 DEF WriteReservation, UpdateMark, At, DInv, Command, Reserved, ModelPoints
  <2>2. managed'.pending = cmd[p].txn
    BY <1>3, <2>1 DEF WriteReservation, UpdateMark, ManagedRecord
  <2>3. QED
    BY <2>1, <2>2 DEF SwitchInv
<1>4. CASE managed' = managed
  <2>1. SUFFICES ASSUME IsManaged, managed.pending = NoTxn, active'.txn # managed.active,
                        \A q \in Proc : ~RollbackFinish(q)
                 PROVE  \E p \in Proc : Switched(p)'
    BY <1>1, <1>4 DEF SwitchInv, IsManaged
  <2>2. CASE active.txn # managed.active
    BY <1>4, <2>1, <2>2, SwitchedStays DEF SwitchInv
  <2>3. CASE active' # active
    <3>1. PICK p \in Proc : ManagerStep(p)
      BY <2>3, FilesWritten
    <3>2. /\ Step(p) \/ StepFails(p)
          /\ Engaged(p) /\ Calling(p) /\ call[p] = CallOf(p) /\ cmd' = cmd
      BY <3>1, StepIsOwn, BusyEngaged DEF ManagerStep, projectVars
    <3>3. call[p].op \in {"publish", "rollback"} /\ pc'[p] = "reread"
      BY <2>3, <3>2, StepWrites
    <3>4. managed = cmd[p].rec
      BY <3>2 DEF DInv, EngagedInv, Calling
    <3>5. cmd[p].op \in {"adopt", "update", "rollback"}
      BY <3>2, <3>3 DEF CallOf, NoCall
    <3>6. cmd[p].op = "rollback"
      BY <2>1, <3>2, <3>4, <3>5 DEF DInv, Command, Reserved, Calling, ModelPoints
    <3>7. QED
      BY <3>2, <3>3, <3>6 DEF Switched, Calling
  <2>4. QED
    BY <2>1, <2>2, <2>3
<1>5. QED
  BY <1>1, <1>2, <1>3, <1>4, ManagedWritten

-----------------------------------------------------------------------------
(* What follows for every number of processes, transactions and contents,  *)
(* whatever the user edits, between any two readings, and wherever the     *)
(* commands stop, as long as the operator starts no recovery while an      *)
(* adoption runs (RecoveriesWait).  Nothing in the code enforces that: an  *)
(* adoption takes no lease, and with a recovery beside it the discipline   *)
(* fails.                                                                  *)

\* The invariants hold in every reachable state.
LEMMA ProjectInvariant ==
    ASSUME AsDeployed
    PROVE  ProjectSpec /\ RecoveriesWait => [](IInv /\ AInv /\ DInv /\ MInv)
<1>1. ProjectInit => IInv /\ AInv /\ DInv /\ MInv
  BY ProjectInitInv, InitInv, AInitInv
<1>2. IInv /\ AInv /\ DInv /\ MInv /\ [ProjectNext]_allVars /\ [AdoptionsLeftAlone]_allVars
        => (IInv /\ AInv /\ DInv /\ MInv)'
  <2> SUFFICES ASSUME IInv, AInv, DInv, MInv, [ProjectNext]_allVars, [AdoptionsLeftAlone]_allVars
               PROVE  IInv' /\ AInv' /\ DInv' /\ MInv'
    OBVIOUS
  <2>1. [Next]_vars /\ DInv'
    BY DNextInv
  <2>2. QED
    BY <2>1, NextInv, ANextInv, MNextInv DEF AsDeployed
<1>3. QED
  BY <1>1, <1>2, PTL DEF ProjectSpec, RecoveriesWait

\* As long as the operator starts no recovery while an adoption runs, the
\* commands keep the discipline the manager relies on: they publish a transaction
\* once, call it while nobody else does, and recover alone. The lease, the
\* reservation and the pending mark do the rest; the manager enforces nothing.
THEOREM CommandsKeepDiscipline ==
    ASSUME AsDeployed PROVE ProjectSpec /\ RecoveriesWait => ManagerDiscipline
<1>1. ProjectInit => Init
  BY ProjectInitInv
<1>2. IInv /\ DInv /\ [ProjectNext]_allVars /\ [AdoptionsLeftAlone]_allVars => [Next]_vars
  BY DNextInv
<1>3. QED
  BY <1>1, <1>2, ProjectInvariant, PTL
     DEF ProjectSpec, RecoveriesWait, ManagerDiscipline, Spec

\* So a recovery that reports success has settled the pending transaction of the
\* project.
THEOREM ProjectRecoveriesSettle ==
    ASSUME AsDeployed PROVE ProjectSpec /\ RecoveriesWait => RecoverySettles
<1>1. RecoverAlone
  BY DEF AsDeployed
<1>2. QED
  BY <1>1, CommandsKeepDiscipline, RecoveriesSettle, PTL DEF ManagerDiscipline

\* And retained.record has the edges of all that is published.
THEOREM ProjectEdgesAreRetained ==
    ASSUME AsDeployed PROVE ProjectSpec /\ RecoveriesWait => []RetainedIsComplete
<1>1. RecoverAlone
  BY DEF AsDeployed
<1>2. QED
  BY <1>1, CommandsKeepDiscipline, EdgesAreRetained, PTL DEF ManagerDiscipline

\* The generation a rollback would restore is published and complete, however
\* updates, recoveries and rollbacks follow one another and stop.
THEOREM PreviousStaysRestorable ==
    ASSUME AsDeployed PROVE ProjectSpec /\ RecoveriesWait => []PreviousIsRestorable
<1>1. IInv /\ DInv /\ MInv => PreviousIsRestorable
  BY DEF MInv, RecordInv, IsPublished, IInv, PublishedInv, PreviousIsRestorable, DInv,
     ProjectTypes, IsManaged, ManagedRecord
<1>2. QED
  BY <1>1, ProjectInvariant, PTL

\* While Lake runs, what it was given stays active and complete.
THEOREM BuildStaysStable ==
    ASSUME AsDeployed PROVE ProjectSpec /\ RecoveriesWait => []BuildIsStable
<1>1. MInv => BuildIsStable
  BY DEF MInv, Outcome, BuildIsStable, At, Gen
<1>2. QED
  BY <1>1, ProjectInvariant, PTL

\* What is active has the declaration the project was adopted with, and the
\* configuration too unless it was edited between the two hashes that the
\* adoption took of it (lib.rs:838, 839), wherever else the user edits.
THEOREM ActiveKeepsInput ==
    ASSUME AsDeployed PROVE ProjectSpec /\ RecoveriesWait => []ActiveMatchesInput
<1>1. MInv => ActiveMatchesInput
  BY DEF MInv, RecordInv, ActiveMatchesInput
<1>2. QED
  BY <1>1, ProjectInvariant, PTL

\* Once something is active, what becomes active later has its content: whatever
\* was read of edited sources by an update, a rollback or a recovery.
THEOREM AdoptedContentStays ==
    ASSUME AsDeployed PROVE ProjectSpec /\ RecoveriesWait => ContentIsAdopted
<1> DEFINE Stays == active # NoGen => active' # NoGen /\ active'.content = active.content
<1>1. ASSUME IInv, DInv, MInv, [ProjectNext]_allVars PROVE Stays
  <2>1. SUFFICES ASSUME active # NoGen, active' # active
                 PROVE  active' # NoGen /\ active'.content = active.content
    OBVIOUS
  <2>2. PICK p \in Proc : ManagerStep(p)
    BY <1>1, <2>1, FilesWritten
  <2>3. QED
    BY <1>1, <2>1, <2>2, ContentStays
<1>2. IInv /\ DInv /\ MInv /\ [ProjectNext]_allVars => [Stays]_allVars
  BY <1>1
<1>3. QED
  BY <1>2, ProjectInvariant, PTL DEF ProjectSpec, ContentIsAdopted

\* Between commands, a record without a pending transaction names the active
\* generation, if no rollback stops between its rename and its record.
THEOREM RecordIsFollowed ==
    ASSUME AsDeployed, "rollback" \notin CrashOps
    PROVE  ProjectSpec /\ RecoveriesWait => []RecordFollowsActive
<1>1. ProjectInit => SwitchInv
  BY ProjectInitInv
<1>2. IInv /\ AInv /\ DInv /\ MInv /\ SwitchInv /\ [ProjectNext]_allVars => SwitchInv'
  BY SwitchNextInv
<1>3. MInv /\ SwitchInv => RecordFollowsActive
  BY DEF MInv, RecordInv, SwitchInv, RecordFollowsActive, AllFree, Free, Switched
<1>4. QED
  BY <1>1, <1>2, <1>3, ProjectInvariant, PTL DEF ProjectSpec

\* Write-ahead: a transaction becomes active for the first time under the pending
\* mark of the record, which is dropped only when the transaction is settled.
THEOREM PendingMarkGuards ==
    ASSUME AsDeployed PROVE ProjectSpec /\ RecoveriesWait => PendingGuardsCommit
<1> DEFINE Marked == (active' # active /\ ~HasRecord(active', {"Published"})) =>
                        IsManaged /\ managed.pending = active'.txn
           Dropped == \A t \in Txn :
                (IsManaged /\ managed.pending = t /\ managed' # managed) =>
                    \/ active = record[t].gen /\ record[t].state = "Published"
                    \/ record[t].state = "Failed"
                    \/ record[t].state = "Absent" /\ managed' = NoRecord
<1>1. ASSUME IInv, DInv, [ProjectNext]_allVars PROVE Marked
  <2>1. SUFFICES ASSUME active' # active, ~HasRecord(active', {"Published"})
                 PROVE  IsManaged /\ managed.pending = active'.txn
    OBVIOUS
  <2>2. PICK p \in Proc : ManagerStep(p)
    BY <1>1, <2>1, FilesWritten
  <2>3. /\ Step(p) \/ StepFails(p)
        /\ Busy(p) /\ OnlyOf(p) /\ Engaged(p) /\ Calling(p) /\ call[p] = CallOf(p)
    BY <1>1, <2>2, StepIsOwn, BusyEngaged DEF ManagerStep
  <2>4. /\ call[p].op \in {"publish", "rollback"} /\ pc'[p] = "reread"
        /\ active' = call[p].target /\ record' = record
    BY <1>1, <2>1, <2>3, StepWrites
  <2>5. call[p].op # "rollback"
    <3>1. SUFFICES ASSUME call[p].op = "rollback" PROVE FALSE
      OBVIOUS
    <3>2. IInv' /\ call'[p] = call[p]
      BY <1>1, <2>3, <2>4, NextInv DEF Next, OnlyOf, Quiet
    <3>3. RollbackInv(p)'
      BY <3>1, <3>2 DEF IInv, ProgressInv, Progress
    <3>4. HasRecord(call[p].target, {"Published"})
      BY <2>4, <3>2, <3>3 DEF RollbackInv, VerifyPublishedGeneration, HasRecord
    <3>5. QED
      BY <2>1, <2>4, <3>4
  <2>6. cmd[p].op \in {"adopt", "update"}
    BY <2>3, <2>4, <2>5 DEF CallOf, NoCall
  <2>7. active' = Gen(p, cmd[p].txn)
    BY <2>3, <2>4, <2>6 DEF CallOf
  <2>8. managed = cmd[p].rec /\ cmd[p].rec \in ManagedRecord /\ cmd[p].rec.pending = cmd[p].txn
    BY <1>1, <2>3, <2>6 DEF DInv, EngagedInv, Command, Reserved, Calling
  <2>9. QED
    BY <2>7, <2>8 DEF Gen, IsManaged
<1>2. ASSUME IInv, DInv, MInv, [ProjectNext]_allVars PROVE Dropped
  <2>1. SUFFICES ASSUME NEW t \in Txn, IsManaged, managed.pending = t, managed' # managed
                 PROVE  \/ active = record[t].gen /\ record[t].state = "Published"
                        \/ record[t].state = "Failed"
                        \/ record[t].state = "Absent" /\ managed' = NoRecord
    OBVIOUS
  <2>2. PICK p \in Proc : \/ Reserve(p) /\ ~Quit(p)
                          \/ WriteReservation(p) \/ UpdateMark(p)
                          \/ AdoptFinish(p) \/ UpdateFinish(p) \/ RecoverFinish(p)
                          \/ RollbackFinish(p)
    BY <1>2, <2>1, ManagedWritten
  <2>3. ~Reserve(p) \/ Quit(p)
    BY <2>1 DEF Reserve, IsManaged
  <2>4. Engaged(p) /\ Outcome(p)
    BY <1>2, <2>2, <2>3 DEF WriteReservation, UpdateMark, AdoptFinish, UpdateFinish, RecoverFinish,
       RollbackFinish, At, Engaged, LeasedOp, MInv
  <2>5. /\ ~WriteReservation(p)
        /\ managed = cmd[p].rec /\ cmd[p].rec.pending = t
    BY <1>2, <2>1, <2>4 DEF DInv, EngagedInv, WriteReservation, At, IsManaged
  <2>6. ~UpdateMark(p) /\ ~RollbackFinish(p)
    BY <1>2, <2>5 DEF UpdateMark, RollbackFinish, At, DInv, Command
  <2>7. CASE AdoptFinish(p) \/ UpdateFinish(p)
    <3>1. cmd[p].txn = t /\ cmd[p].op \in {"adopt", "update"} /\ cmd[p].at = "finish"
      BY <1>2, <2>5, <2>7 DEF AdoptFinish, UpdateFinish, At, DInv, Command, Reserved
    <3>2. QED
      BY <2>4, <3>1 DEF Outcome, HasRecord, Gen
  <2>8. CASE RecoverFinish(p)
    BY <2>4, <2>5, <2>8 DEF RecoverFinish, FinishWith, Outcome, HasRecord, Gen
  <2>9. QED
    BY <2>2, <2>3, <2>5, <2>6, <2>7, <2>8
<1>3. IInv /\ DInv /\ MInv /\ [ProjectNext]_allVars => [Marked /\ Dropped]_allVars
  BY <1>1, <1>2
<1>4. QED
  BY <1>3, ProjectInvariant, PTL DEF ProjectSpec, PendingGuardsCommit
================================================================================
