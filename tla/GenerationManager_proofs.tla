----------------------- MODULE GenerationManager_proofs -----------------------
(***************************************************************************)
(* What the manager keeps and promises, whichever calls overlap, and what  *)
(* more it promises when no call overlaps a recovery.                      *)
(***************************************************************************)
EXTENDS GenerationManagerInv, TLAPS

USE GenAssumption

\* The invariant holds before any call.
LEMMA InitInv == Init => IInv
<1> SUFFICES ASSUME Init PROVE IInv
  OBVIOUS
<1> USE DEF Init
<1>1. TypeOK
  BY DEF TypeOK, NoCall, NoWork, Work, Point, Quiet, Op
<1>2. CallsInv
  BY DEF CallsInv, Quiet, Busy, NoCall
<1>3. ApartInv
  BY DEF ApartInv, Busy, Quiet
<1>4. LockExcludes
  BY DEF LockExcludes, Holds, LockedPoints, SharedPoints
<1>5. RecordsInv /\ PublishedInv
  BY DEF RecordsInv, RecordState, PublishedInv
<1>6. ActiveInv
  BY DEF ActiveInv
<1>7. ProgressInv
  BY DEF ProgressInv, Progress, NoCall
<1>8. QED
  BY <1>1, <1>2, <1>3, <1>4, <1>5, <1>6, <1>7 DEF IInv

\* What a call knows depends on its own memory, on the active record and on
\* the records and directories of its own transactions only.
LEMMA OtherProgress ==
    ASSUME NEW q \in Proc, Progress(q),
           pc'[q] = pc[q], call'[q] = call[q], work'[q] = work[q], active' = active,
           \A t \in {call[q].own.txn, call[q].target.txn} :
               record'[t] = record[t] /\ dir'[t] = dir[t]
    PROVE  Progress(q)'
<1>1. (call[q].op = "publish" => PublishInv(q)) => (call'[q].op = "publish" => PublishInv(q)')
  BY DEF PublishInv, Committing, Before, OwnHas, HasRecord, VerifyGeneration, Own, OwnTxn
<1>2. (call[q].op = "recover" => RecoverInv(q)) => (call'[q].op = "recover" => RecoverInv(q)')
  BY DEF RecoverInv, Failing, Unnamed, Before, OwnHas, HasRecord, Own, OwnTxn
<1>3. (call[q].op = "rollback" => RollbackInv(q)) =>
          (call'[q].op = "rollback" => RollbackInv(q)')
  BY DEF RollbackInv, OwnHas, HasRecord, VerifyGeneration, VerifyPublishedGeneration, Own
<1>4. QED
  BY <1>1, <1>2, <1>3 DEF Progress

\* A call that ends, with or without an error, changes no other call; it may
\* remove its own lock.
LEMMA EndsInv ==
    ASSUME IInv, NEW p \in Proc, NEW how \in Quiet, End(p, how),
           UNCHANGED <<record, dir, active, retained>>,
           \/ lock' = lock
           \/ /\ lock' = NoGen
              /\ Holds(p)
              /\ lock = Own(p)
              /\ active = Own(p) => HasRecord(active, {"Published"})
    PROVE  IInv'
<1> USE DEF End, Goto
<1>1. TypeOK'
  <2>1. temps' \in SUBSET ((Proc \cup {Orphan}) \X Generation)
    BY DEF IInv, TypeOK
  <2>2. /\ pc' \in [Proc -> Point]
        /\ call' \in [Proc -> [op : Op, own : Generation \cup {NoGen},
                               target : Generation \cup {NoGen}]]
        /\ work' \in [Proc -> Work]
    BY DEF IInv, TypeOK, NoCall, NoWork, Work, Point, Op
  <2>3. lock' \in Generation \cup {NoGen, TornGen}
    BY DEF IInv, TypeOK
  <2>4. QED
    BY <2>1, <2>2, <2>3 DEF IInv, TypeOK
<1>2. /\ \A q \in Proc \ {p} : pc'[q] = pc[q] /\ call'[q] = call[q] /\ work'[q] = work[q]
      /\ pc'[p] = how /\ call'[p] = NoCall /\ work'[p] = NoWork
  BY DEF IInv, TypeOK
<1>3. CallsInv'
  BY <1>2 DEF IInv, CallsInv, Busy, AtItsPoint
<1>4. ApartInv'
  BY <1>2 DEF IInv, ApartInv, Busy, Uses, OwnTxn
<1>5. ~Holds(p)' /\ \A q \in Proc \ {p} : Holds(q)' <=> Holds(q)
  BY <1>2 DEF Holds, Quiet, LockedPoints, SharedPoints
<1>6. LockExcludes'
  BY <1>2, <1>5 DEF IInv, LockExcludes, Own
<1>7. RecordsInv' /\ PublishedInv'
  BY DEF IInv, RecordsInv, PublishedInv, VerifyGeneration
<1>8. ActiveInv'
  BY DEF IInv, ActiveInv, VerifyGeneration, HasRecord
<1>9. Progress(p)'
  BY <1>2 DEF Progress, NoCall
<1>10. \A q \in Proc \ {p} : Progress(q) => Progress(q)'
  BY <1>2, OtherProgress
<1>11. QED
  BY <1>1, <1>3, <1>4, <1>6, <1>7, <1>8, <1>9, <1>10 DEF IInv, ProgressInv

\* A call that moves to another of its control points without touching the
\* lock, a record, a directory or the active record.
LEMMA MovesInv ==
    ASSUME IInv, NEW p \in Proc, Busy(p),
           pc' = [pc EXCEPT ![p] = pc'[p]], pc'[p] \in Point \ Quiet,
           work' = [work EXCEPT ![p] = work'[p]], work'[p] \in Work,
           UNCHANGED <<lock, record, dir, active, call>>,
           temps' \in SUBSET ((Proc \cup {Orphan}) \X Generation),
           retained' \in SUBSET Generation,
           AtItsPoint(p)',
           Holds(p)' =>
               /\ lock = Own(p)
               /\ pc'[p] # "writeLock"
               /\ Holds(p) \/ call[p].op = "recover",
           Progress(p)'
    PROVE  IInv'
<1>1. /\ \A q \in Proc \ {p} : pc'[q] = pc[q] /\ work'[q] = work[q]
      /\ call' = call
  BY DEF IInv, TypeOK
<1>2. TypeOK'
  BY DEF IInv, TypeOK
<1>3. CallsInv'
  BY <1>1 DEF IInv, CallsInv, Busy, AtItsPoint
<1>4. ApartInv'
  BY <1>1 DEF IInv, ApartInv, Busy, Uses, OwnTxn
<1>5. \A q \in Proc \ {p} : Holds(q)' <=> Holds(q)
  BY <1>1 DEF Holds
<1>6. LockExcludes'
  <2>1. ASSUME NEW q \in Proc \ {p}, Holds(q), Holds(p)', call[p].op = "recover"
        PROVE  FALSE
    <3>1. lock = Own(p) /\ Own(p) \in Generation /\ Busy(q)
      BY <2>1 DEF IInv, CallsInv, Holds, Own, Busy, Quiet, LockedPoints, SharedPoints
    <3>2. Own(q) = Own(p)
      BY <2>1, <3>1 DEF IInv, LockExcludes
    <3>3. QED
      BY <2>1, <3>1, <3>2 DEF IInv, ApartInv, Uses, Busy, Own, OwnTxn
  <2>2. QED
    BY <1>1, <1>5, <2>1 DEF IInv, LockExcludes, Own
<1>7. RecordsInv' /\ PublishedInv' /\ ActiveInv'
  BY DEF IInv, RecordsInv, PublishedInv, ActiveInv, VerifyGeneration, HasRecord
<1>8. \A q \in Proc \ {p} : Progress(q) => Progress(q)'
  BY <1>1, OtherProgress
<1>9. QED
  BY <1>2, <1>3, <1>4, <1>6, <1>7, <1>8 DEF IInv, ProgressInv

-----------------------------------------------------------------------------
(* How a step of a call ends it or moves it on.                            *)

\* An error that leaves the disk as it is.
LEMMA FailInv ==
    ASSUME IInv, NEW p \in Proc, Fail(p)
    PROVE  IInv'
BY EndsInv DEF Fail, Quiet

\* What a running call's control point says about it.
LEMMA AtPoint ==
    ASSUME IInv, NEW p \in Proc, Busy(p)
    PROVE  /\ Own(p) \in Generation
           /\ call[p].target \in Generation
           /\ OwnTxn(p) \in Txn
           /\ OwnTxn(p) = Own(p).txn
           /\ AtItsPoint(p)
           /\ Progress(p)
           /\ Holds(p) => lock = IF pc[p] = "writeLock" THEN TornGen ELSE Own(p)
           /\ work[p] \in Work
           /\ pc[p] \in Point
BY DEF IInv, CallsInv, Own, OwnTxn, Generation, ProgressInv, LockExcludes, TypeOK

\* A rollback that is refused while it holds the lock goes on to release it.
LEMMA RefuseInv ==
    ASSUME IInv, NEW p \in Proc, Refuse(p), pc[p] \in LockedPoints
    PROVE  IInv'
<1>1. CASE call[p].op # "rollback"
  BY <1>1, FailInv DEF Refuse
<1>2. CASE call[p].op = "rollback"
  <2>1. Busy(p) /\ Holds(p) /\ pc[p] \notin {"checkBoth", "writeLock"}
    BY DEF Busy, Quiet, LockedPoints, Holds
  <2>2. /\ pc' = [pc EXCEPT ![p] = "giveUp"] /\ pc'[p] = "giveUp"
        /\ UNCHANGED <<disk, call, work>>
    BY <1>2 DEF Refuse, Goto, IInv, TypeOK
  <2>3. "giveUp" \in Point \ Quiet /\ AtItsPoint(p)'
    BY <1>2, <2>2 DEF Point, EndPoints, Quiet, AtItsPoint, RollbackPoints
  <2>4. Progress(p)'
    BY <1>2, <2>1, <2>2, AtPoint DEF Progress, RollbackInv, OwnHas, HasRecord, Own, disk,
          VerifyPublishedGeneration, VerifyGeneration
  <2>5. QED
    BY <2>1, <2>2, <2>3, <2>4, AtPoint, MovesInv DEF IInv, TypeOK, disk, Own
<1>3. QED
  BY <1>1, <1>2

\* The general form of a step that moves a running call from one control point
\* to the next, in terms of Goto.
LEMMA GotoInv ==
    ASSUME IInv, NEW p \in Proc, Busy(p), NEW point, NEW w,
           Goto(p, point), point \in Point \ Quiet,
           work' = [work EXCEPT ![p] = w], w \in Work,
           UNCHANGED <<lock, record, dir, active, call>>,
           temps' \in SUBSET ((Proc \cup {Orphan}) \X Generation),
           retained' \in SUBSET Generation,
           AtItsPoint(p)',
           Holds(p)' => point # "writeLock" /\ pc[p] # "writeLock"
                        /\ (Holds(p) \/ (call[p].op = "recover" /\ lock = Own(p))),
           Progress(p)'
    PROVE  IInv'
<1>1. pc'[p] = point /\ work'[p] = w
  BY DEF Goto, IInv, TypeOK
<1>2. pc' = [pc EXCEPT ![p] = pc'[p]] /\ work' = [work EXCEPT ![p] = work'[p]]
  BY <1>1 DEF Goto
<1>3. Holds(p)' => lock = Own(p) /\ pc'[p] # "writeLock"
                   /\ (Holds(p) \/ call[p].op = "recover")
  BY <1>1, AtPoint
<1>4. QED
  BY <1>1, <1>2, <1>3, MovesInv

\* Reading the lock before it is released.
LEMMA CheckLockInv ==
    ASSUME IInv, NEW p \in Proc, CheckLock(p)
    PROVE  IInv'
<1>1. Busy(p) /\ pc[p] = "unlock"
  BY DEF CheckLock, Busy, Quiet
<1>2. CASE lock = Own(p)
  <2>1. Goto(p, "unlink") /\ UNCHANGED <<disk, call, work>>
    BY <1>2 DEF CheckLock
  <2>2. pc'[p] = "unlink" /\ work' = [work EXCEPT ![p] = work[p]]
    BY <2>1 DEF Goto, IInv, TypeOK
  <2>3. AtItsPoint(p)' /\ (Holds(p) \/ call[p].op = "recover")
    BY <1>1, <2>1, <2>2, AtPoint DEF AtItsPoint, PublishPoints, RecoverCallPoints,
          RollbackPoints, RecoverPoints, SharedPoints, EndPoints, Holds
  <2>4. Progress(p)'
    BY <1>1, <2>1, <2>2, AtPoint DEF Progress, PublishInv, RecoverInv, RollbackInv,
          Committing, Failing, OwnHas, HasRecord, Own, OwnTxn, disk,
          VerifyPublishedGeneration, VerifyGeneration
  <2>5. QED
    BY <1>1, <1>2, <2>1, <2>2, <2>3, <2>4, AtPoint, GotoInv
       DEF IInv, TypeOK, disk, Point, EndPoints, Quiet
<1>3. CASE lock # Own(p)
  BY <1>3, EndsInv DEF CheckLock, Quiet
<1>4. QED
  BY <1>2, <1>3

\* A call that fails or is refused, its lock dropped on the way out, keeps the
\* invariant.
LEMMA GiveUpInv ==
    ASSUME IInv, NEW p \in Proc, GiveUp(p)
    PROVE  IInv'
<1>1. Busy(p) /\ pc[p] = "giveUp"
  BY DEF GiveUp, Busy, Quiet
<1>2. call[p].op = "rollback" /\ Holds(p)
  BY <1>1, AtPoint DEF AtItsPoint, PublishPoints, RecoverCallPoints, RecoverPoints,
        SharedPoints, Holds
<1>3. CASE lock = Own(p)
  <2>1. /\ Goto(p, "discard") /\ UNCHANGED <<disk, call, work>>
        /\ pc'[p] = "discard" /\ work' = [work EXCEPT ![p] = work[p]]
    BY <1>3 DEF GiveUp, Goto, IInv, TypeOK
  <2>2. AtItsPoint(p)' /\ Progress(p)'
    BY <1>1, <1>2, <2>1, AtPoint DEF AtItsPoint, RollbackPoints, EndPoints, Progress,
          RollbackInv, OwnHas, HasRecord, Own, disk, VerifyPublishedGeneration,
          VerifyGeneration
  <2>3. QED
    BY <1>1, <1>2, <2>1, <2>2, AtPoint, GotoInv
       DEF IInv, TypeOK, disk, Point, EndPoints, Quiet
<1>4. CASE lock # Own(p)
  BY <1>4, FailInv DEF GiveUp
<1>5. QED
  BY <1>3, <1>4

\* Checking the record before a transition.
LEMMA CheckTransitionInv ==
    ASSUME IInv, NEW p \in Proc, CheckTransition(p)
    PROVE  IInv'
<1>1. Busy(p) /\ pc[p] = "transition"
  BY DEF CheckTransition, Busy, Quiet
<1>2. call[p].op \in {"publish", "recover"}
  BY <1>1, AtPoint DEF AtItsPoint, RollbackPoints, EndPoints
<1> DEFINE Allowed == /\ record[OwnTxn(p)].gen = Own(p)
                      /\ ValidTransition(record[OwnTxn(p)].state, work[p].goal)
<1>3. CASE Allowed
  <2>1. /\ Goto(p, "replace") /\ UNCHANGED <<disk, call, work>>
        /\ pc'[p] = "replace" /\ work' = [work EXCEPT ![p] = work[p]]
    BY <1>3 DEF CheckTransition, Goto, IInv, TypeOK
  <2>2. AtItsPoint(p)' /\ (Holds(p)' => Holds(p))
    BY <1>1, <1>2, <2>1, AtPoint DEF AtItsPoint, PublishPoints, RecoverCallPoints,
          SharedPoints, Holds, LockedPoints
  <2>3. CASE call[p].op = "publish"
    <3>1. PublishInv(p)'
      BY <1>1, <2>1, <2>3, AtPoint DEF Progress, PublishInv, Before, OwnHas, HasRecord,
            Own, OwnTxn, disk, Committing, VerifyGeneration
    <3>2. QED
      BY <1>1, <2>1, <2>2, <2>3, <3>1, AtPoint, GotoInv
         DEF IInv, TypeOK, disk, Point, SharedPoints, Quiet, Progress
  <2>4. CASE call[p].op = "recover"
    <3>1. Before(p)
      BY <1>1, <1>3, <2>4, AtPoint DEF Progress, RecoverInv, ValidTransition, Before,
            OwnHas, HasRecord, Own, OwnTxn
    <3>2. RecoverInv(p)'
      BY <1>1, <2>1, <2>4, <3>1, AtPoint DEF Progress, RecoverInv, Before, OwnHas,
            HasRecord, Own, OwnTxn, disk, Failing, Unnamed
    <3>3. QED
      BY <1>1, <2>1, <2>2, <2>4, <3>2, AtPoint, GotoInv
         DEF IInv, TypeOK, disk, Point, SharedPoints, Quiet, Progress
  <2>5. QED
    BY <1>2, <2>3, <2>4
<1>4. CASE ~Allowed
  BY <1>4, FailInv DEF CheckTransition
<1>5. QED
  BY <1>3, <1>4

\* Reading a replaced record back.
LEMMA ConfirmRecordInv ==
    ASSUME IInv, NEW p \in Proc, ConfirmRecord(p)
    PROVE  IInv'
<1>1. Busy(p) /\ pc[p] = "confirmRecord"
  BY DEF ConfirmRecord, Busy, Quiet
<1>2. call[p].op \in {"publish", "recover"}
  BY <1>1, AtPoint DEF AtItsPoint, RollbackPoints, EndPoints
<1>3. CASE HasRecord(Own(p), {work[p].goal})
  <2> DEFINE point == AfterRecord(work[p].goal)
  <2>1. /\ Goto(p, point) /\ UNCHANGED <<disk, call, work>>
        /\ pc'[p] = point /\ work' = [work EXCEPT ![p] = work[p]]
    BY <1>3 DEF ConfirmRecord, Goto, IInv, TypeOK
  <2>2. CASE call[p].op = "publish"
    <3>1. \/ work[p].goal = "Materialized" /\ point = "verify"
          \/ work[p].goal = "Verified" /\ point = "temp"
          \/ work[p].goal = "Published" /\ point = "readRetained"
      BY <1>1, <2>2, AtPoint DEF Progress, PublishInv, AfterRecord
    <3>2. AtItsPoint(p)' /\ Holds(p) /\ point \in Point \ Quiet
      BY <1>1, <2>1, <2>2, <3>1 DEF AtItsPoint, PublishPoints, SharedPoints, Holds,
            Point, LockedPoints, Quiet
    <3>3. PublishInv(p)'
      BY <1>1, <1>3, <2>1, <2>2, <3>1, AtPoint DEF Progress, PublishInv, OwnHas,
            HasRecord, Own, OwnTxn, disk, Committing, VerifyGeneration
    <3>4. QED
      BY <1>1, <2>1, <2>2, <3>1, <3>2, <3>3, AtPoint, GotoInv
         DEF IInv, TypeOK, disk, Progress
  <2>3. CASE call[p].op = "recover"
    <3>1. \/ work[p].goal = "Published" /\ point = "readRetained"
          \/ work[p].goal = "Failed" /\ point = "cleanTemps"
      BY <1>1, <2>3, AtPoint DEF Progress, RecoverInv, AfterRecord
    <3>2. AtItsPoint(p)' /\ ~Holds(p)' /\ point \in Point \ Quiet
      BY <1>1, <2>1, <2>3, <3>1 DEF AtItsPoint, RecoverCallPoints, RecoverPoints,
            SharedPoints, Holds, Point, LockedPoints, Quiet
    <3>3. RecoverInv(p)'
      BY <1>1, <1>3, <2>1, <2>3, <3>1, AtPoint DEF Progress, RecoverInv, OwnHas,
            HasRecord, Own, OwnTxn, disk, Failing
    <3>4. QED
      BY <1>1, <2>1, <2>3, <3>2, <3>3, AtPoint, GotoInv
         DEF IInv, TypeOK, disk, Progress
  <2>4. QED
    BY <1>2, <2>2, <2>3
<1>4. CASE ~HasRecord(Own(p), {work[p].goal})
  BY <1>4, FailInv DEF ConfirmRecord
<1>5. QED
  BY <1>3, <1>4

\* Verifying the directory, then asking for the next transition.
LEMMA VerifyMaterializedInv ==
    ASSUME IInv, NEW p \in Proc, VerifyMaterialized(p)
    PROVE  IInv'
<1>1. Busy(p) /\ pc[p] = "verify"
  BY DEF VerifyMaterialized, Busy, Quiet
<1>2. call[p].op = "publish" /\ Holds(p)
  BY <1>1, AtPoint DEF AtItsPoint, RollbackPoints, EndPoints, RecoverCallPoints,
        RecoverPoints, SharedPoints, Holds, LockedPoints
<1>3. CASE VerifyGeneration(Own(p))
  <2> DEFINE w == [work[p] EXCEPT !.goal = "Verified"]
  <2>1. /\ Goto(p, "transition") /\ UNCHANGED <<disk, call>>
        /\ pc'[p] = "transition" /\ work' = [work EXCEPT ![p] = w] /\ work'[p] = w
        /\ w \in Work /\ w.goal = "Verified"
    BY <1>3 DEF VerifyMaterialized, GotoTransition, Goto, IInv, TypeOK, Work, RecordState
  <2>2. AtItsPoint(p)' /\ "transition" \in Point \ Quiet
    BY <1>2, <2>1 DEF AtItsPoint, PublishPoints, SharedPoints, Point, Quiet
  <2>3. PublishInv(p)'
    BY <1>1, <1>2, <2>1, AtPoint DEF Progress, PublishInv, Before, OwnHas, HasRecord,
          Own, OwnTxn, disk, Committing, VerifyGeneration
  <2>4. QED
    BY <1>1, <1>2, <2>1, <2>2, <2>3, AtPoint, GotoInv DEF IInv, TypeOK, disk, Progress
<1>4. CASE ~VerifyGeneration(Own(p))
  BY <1>4, FailInv DEF VerifyMaterialized
<1>5. QED
  BY <1>3, <1>4

\* Writing the temporary active record.
LEMMA CreateTempInv ==
    ASSUME IInv, NEW p \in Proc, CreateTemp(p)
    PROVE  IInv'
<1>1. Busy(p) /\ pc[p] = "temp" /\ Holds(p)
  BY DEF CreateTemp, Busy, Quiet, Holds, LockedPoints
<1>2. call[p].op \in {"publish", "rollback"}
  BY <1>1, AtPoint DEF AtItsPoint, RecoverCallPoints, RecoverPoints, SharedPoints
<1>3. /\ Goto(p, "rename") /\ UNCHANGED <<lock, record, dir, active, retained, call, work>>
      /\ pc'[p] = "rename" /\ work' = [work EXCEPT ![p] = work[p]]
  BY DEF CreateTemp, Goto, IInv, TypeOK
<1>4. temps' \in SUBSET ((Proc \cup {Orphan}) \X Generation)
  BY <1>1, AtPoint DEF CreateTemp, IInv, TypeOK
<1>5. AtItsPoint(p)' /\ "rename" \in Point \ Quiet
  BY <1>2, <1>3 DEF AtItsPoint, PublishPoints, RollbackPoints, Point, LockedPoints, Quiet
<1>6. Progress(p)'
  BY <1>1, <1>2, <1>3, AtPoint DEF Progress, PublishInv, RollbackInv, OwnHas, HasRecord,
        Own, OwnTxn, Committing, VerifyPublishedGeneration, VerifyGeneration
<1>7. QED
  BY <1>1, <1>3, <1>4, <1>5, <1>6, AtPoint, GotoInv DEF IInv, TypeOK

\* Reading the active record back after the rename.
LEMMA RereadActiveInv ==
    ASSUME IInv, NEW p \in Proc, RereadActive(p)
    PROVE  IInv'
<1>1. Busy(p) /\ pc[p] = "reread" /\ Holds(p)
  BY DEF RereadActive, Busy, Quiet, Holds, LockedPoints
<1>2. call[p].op \in {"publish", "rollback"}
  BY <1>1, AtPoint DEF AtItsPoint, RecoverCallPoints, RecoverPoints, SharedPoints
<1>3. CASE active # call[p].target
  BY <1>1, <1>3, RefuseInv DEF RereadActive, LockedPoints
<1>4. CASE active = call[p].target /\ call[p].op = "publish"
  <2> DEFINE w == [work[p] EXCEPT !.goal = "Published"]
  <2>1. /\ Goto(p, "transition") /\ UNCHANGED <<disk, call>>
        /\ pc'[p] = "transition" /\ work' = [work EXCEPT ![p] = w] /\ work'[p] = w
        /\ w \in Work /\ w.goal = "Published"
    BY <1>4 DEF RereadActive, GotoTransition, Goto, IInv, TypeOK, Work, RecordState
  <2>2. AtItsPoint(p)' /\ "transition" \in Point \ Quiet
    BY <1>4, <2>1 DEF AtItsPoint, PublishPoints, SharedPoints, Point, Quiet
  <2>3. PublishInv(p)'
    BY <1>1, <1>4, <2>1, AtPoint DEF Progress, PublishInv, Before, OwnHas, HasRecord,
          Own, OwnTxn, disk, Committing, VerifyGeneration
  <2>4. QED
    BY <1>1, <1>4, <2>1, <2>2, <2>3, AtPoint, GotoInv DEF IInv, TypeOK, disk, Progress
<1>5. CASE active = call[p].target /\ call[p].op = "rollback"
  <2>1. /\ Goto(p, "confirmActive") /\ UNCHANGED <<disk, call, work>>
        /\ pc'[p] = "confirmActive" /\ work' = [work EXCEPT ![p] = work[p]]
    BY <1>5 DEF RereadActive, Goto, IInv, TypeOK
  <2>2. AtItsPoint(p)' /\ "confirmActive" \in Point \ Quiet
    BY <1>5, <2>1 DEF AtItsPoint, RollbackPoints, Point, LockedPoints, Quiet
  <2>3. RollbackInv(p)'
    BY <1>1, <1>5, <2>1, AtPoint DEF Progress, RollbackInv, OwnHas, HasRecord, Own, disk,
          VerifyPublishedGeneration, VerifyGeneration
  <2>4. QED
    BY <1>1, <1>5, <2>1, <2>2, <2>3, AtPoint, GotoInv DEF IInv, TypeOK, disk, Progress
<1>6. QED
  BY <1>2, <1>3, <1>4, <1>5

\* The retained record is read, replaced and read back.
LEMMA RetainedInv ==
    ASSUME IInv, NEW p \in Proc,
           ReadRetained(p) \/ WriteRetained(p) \/ ConfirmRetained(p)
    PROVE  IInv'
<1>1. /\ Busy(p)
      /\ pc[p] \in {"readRetained", "writeRetained", "confirmRetained"}
  BY DEF ReadRetained, WriteRetained, ConfirmRetained, Busy, Quiet
<1>2. call[p].op \in {"publish", "recover"}
  BY <1>1, AtPoint DEF AtItsPoint, RollbackPoints, EndPoints
<1>3. CASE Fail(p)
  BY <1>3, FailInv
<1>4. CASE ~Fail(p)
  <2>1. PICK point \in {"writeRetained", "confirmRetained", "unlock"}, w \in Work :
          /\ Goto(p, point) /\ UNCHANGED <<lock, record, dir, active, temps, call>>
          /\ work' = [work EXCEPT ![p] = w]
    <3>1. CASE ReadRetained(p)
      <4>1. [work[p] EXCEPT !.seen = retained] \in Work
        BY <1>1, AtPoint DEF IInv, TypeOK, Work
      <4>2. QED
        BY <3>1, <4>1 DEF ReadRetained, disk, IInv, TypeOK
    <3>2. CASE WriteRetained(p) \/ ConfirmRetained(p)
      <4>1. work' = [work EXCEPT ![p] = work[p]] /\ work[p] \in Work
        BY <1>1, <1>4, <3>2, AtPoint DEF WriteRetained, ConfirmRetained, IInv, TypeOK
      <4>2. QED
        BY <1>4, <3>2, <4>1 DEF WriteRetained, ConfirmRetained, disk
    <3>3. QED
      BY <3>1, <3>2
  <2>2. pc'[p] = point
    BY <2>1 DEF Goto, IInv, TypeOK
  <2>3. retained' \in SUBSET Generation
    BY <1>1, <1>4, AtPoint DEF ReadRetained, WriteRetained, ConfirmRetained, disk, IInv,
          TypeOK, Work
  <2>4. /\ AtItsPoint(p)' /\ point \in Point \ Quiet
        /\ Holds(p)' => Holds(p)
    BY <1>1, <1>2, <2>1, <2>2 DEF AtItsPoint, PublishPoints, RecoverCallPoints,
          SharedPoints, Point, EndPoints, Quiet, Holds, LockedPoints
  <2>5. Progress(p)'
    BY <1>1, <1>2, <2>1, <2>2, AtPoint DEF Progress, PublishInv, RecoverInv, OwnHas,
          HasRecord, Own, OwnTxn, Committing, Failing, VerifyGeneration
  <2>6. QED
    BY <1>1, <2>1, <2>2, <2>3, <2>4, <2>5, AtPoint, GotoInv DEF IInv, TypeOK
<1>5. QED
  BY <1>3, <1>4

-----------------------------------------------------------------------------
(* The steps of a recovery that write nothing but the end of its call.     *)

\* A recovery never holds the lock before it releases it.
LEMMA RecoverPoint ==
    ASSUME IInv, NEW p \in Proc, pc[p] \in RecoverPoints
    PROVE  Busy(p) /\ call[p].op = "recover"
BY AtPoint DEF RecoverPoints, Busy, Quiet, AtItsPoint, PublishPoints, RollbackPoints,
   SharedPoints, EndPoints

\* A recovery goes on to one of its own points.
LEMMA RecoverGoesOn ==
    ASSUME IInv, NEW p \in Proc, pc[p] \in RecoverPoints, NEW w \in Work,
           NEW point \in (RecoverPoints \cup SharedPoints \cup {"unlock"}),
           Goto(p, point), work' = [work EXCEPT ![p] = w],
           UNCHANGED <<lock, record, dir, active, retained, call>>,
           temps' \in SUBSET ((Proc \cup {Orphan}) \X Generation),
           RecoverInv(p)'
    PROVE  IInv'
<1>1. Busy(p) /\ call[p].op = "recover"
  BY RecoverPoint
<1>2. pc'[p] = point /\ call' = call
  BY DEF Goto, IInv, TypeOK
<1>3. /\ point \in Point \ Quiet /\ AtItsPoint(p)' /\ ~Holds(p)' /\ Progress(p)'
  BY <1>1, <1>2 DEF Point, RecoverPoints, SharedPoints, EndPoints, Quiet, AtItsPoint,
        RecoverCallPoints, Holds, LockedPoints, Progress
<1>4. retained' \in SUBSET Generation
  BY DEF IInv, TypeOK
<1>5. QED
  BY <1>1, <1>3, <1>4, GotoInv

\* Reading the record a second call finds under its operation keeps the invariant.
LEMMA ReadTransactionInv ==
    ASSUME IInv, NEW p \in Proc, ReadTransaction(p)
    PROVE  IInv'
<1>1. pc[p] = "readTxn" /\ pc[p] \in RecoverPoints
  BY DEF ReadTransaction, RecoverPoints
<1>2. Busy(p) /\ call[p].op = "recover"
  BY <1>1, RecoverPoint
<1> DEFINE found == record[OwnTxn(p)].state
           w == [work[p] EXCEPT !.found = found]
<1>3. CASE found = "Torn"
  BY <1>3, FailInv DEF ReadTransaction
<1>4. CASE found # "Torn"
  <2>1. /\ Goto(p, "readActive") /\ work' = [work EXCEPT ![p] = w]
        /\ UNCHANGED <<disk, call>>
    BY <1>4 DEF ReadTransaction
  <2>2. w \in Work /\ w.found = found
    BY <1>2, <1>4, AtPoint DEF IInv, TypeOK, Work
  <2>3. pc'[p] = "readActive" /\ work'[p] = w
    BY <2>1 DEF Goto, IInv, TypeOK
  <2>4. RecoverInv(p)'
    BY <2>1, <2>2, <2>3 DEF RecoverInv, Failing, OwnTxn, disk
  <2>5. QED
    BY <1>1, <2>1, <2>2, <2>4, RecoverGoesOn DEF disk, RecoverPoints, IInv, TypeOK
<1>5. QED
  BY <1>3, <1>4

\* Reading the active pointer before and under the lock keeps the invariant.
LEMMA ReadActiveInv ==
    ASSUME IInv, NEW p \in Proc, ReadActive(p)
    PROVE  IInv'
<1>1. pc[p] = "readActive" /\ pc[p] \in RecoverPoints
  BY DEF ReadActive, RecoverPoints
<1>2. /\ Busy(p) /\ call[p].op = "recover"
      /\ work[p].found = record[OwnTxn(p)].state
      /\ work[p] \in Work
  BY <1>1, RecoverPoint, AtPoint DEF Progress, RecoverInv
<1> DEFINE found == work[p].found
           w(goal) == [work[p] EXCEPT !.goal = goal]
<1>3. CASE Fail(p)
  BY <1>3, FailInv
<1>4. CASE active = Own(p)
  <2>1. /\ Goto(p, "verifyActive") /\ work' = [work EXCEPT ![p] = work[p]]
        /\ UNCHANGED <<disk, call>>
        /\ pc'[p] = "verifyActive" /\ work'[p] = work[p]
    BY <1>4 DEF ReadActive, Goto, IInv, TypeOK
  <2>2. RecoverInv(p)'
    BY <1>2, <1>4, <2>1 DEF RecoverInv, Failing, Own, OwnTxn, disk
  <2>3. QED
    BY <1>1, <1>2, <2>1, <2>2, RecoverGoesOn DEF disk, RecoverPoints, IInv, TypeOK
<1>5. CASE active # Own(p) /\ ~Fail(p)
  <2>1. /\ active # NoGen => active.txn # OwnTxn(p)
        /\ \/ /\ found = "Failed"
              /\ Goto(p, "cleanTemps") /\ UNCHANGED <<disk, call, work>>
           \/ /\ found = "Absent"
              /\ Goto(p, "create") /\ work' = [work EXCEPT ![p].goal = "Failed"]
              /\ UNCHANGED <<disk, call>>
           \/ /\ found \notin {"Published", "Failed", "Absent"}
              /\ GotoTransition(p, "Failed")
    BY <1>5 DEF ReadActive
  <2>2. CASE found = "Failed" /\ Goto(p, "cleanTemps") /\ UNCHANGED <<disk, call, work>>
    <3>1. pc'[p] = "cleanTemps" /\ work' = [work EXCEPT ![p] = work[p]]
      BY <2>2 DEF Goto, IInv, TypeOK
    <3>2. RecoverInv(p)'
      BY <1>2, <2>2, <3>1 DEF RecoverInv, Failing, OwnTxn, disk
    <3>3. QED
      BY <1>1, <1>2, <2>2, <3>1, <3>2, RecoverGoesOn DEF disk, RecoverPoints, IInv, TypeOK
  <2>3. ASSUME NEW point \in {"create", "transition"}, Goto(p, point),
               work' = [work EXCEPT ![p] = w("Failed")], UNCHANGED <<disk, call>>
        PROVE  IInv'
    <3>1. /\ pc'[p] = point /\ work'[p] = w("Failed")
          /\ w("Failed") \in Work /\ w("Failed").goal = "Failed"
      BY <1>2, <2>3 DEF Goto, IInv, TypeOK, Work, RecordState
    <3>2. RecoverInv(p)'
      BY <2>1, <2>3, <3>1 DEF RecoverInv, Failing, Unnamed, OwnTxn, disk
    <3>3. QED
      BY <1>1, <2>3, <3>1, <3>2, RecoverGoesOn DEF disk, SharedPoints, IInv, TypeOK
  <2>4. QED
    BY <2>1, <2>2, <2>3 DEF GotoTransition
<1>6. QED
  BY <1>3, <1>4, <1>5

\* Ending as recovered, from any of the reads that allow it, keeps the invariant.
LEMMA CompleteActiveInv ==
    ASSUME IInv, NEW p \in Proc, CompleteActive(p)
    PROVE  IInv'
<1>1. pc[p] = "verifyActive" /\ pc[p] \in RecoverPoints
  BY DEF CompleteActive, RecoverPoints
<1>2. /\ Busy(p) /\ call[p].op = "recover" /\ work[p] \in Work
      /\ work[p].found = record[OwnTxn(p)].state
      /\ work[p].found = "Verified" => active = Own(p)
  BY <1>1, RecoverPoint, AtPoint DEF Progress, RecoverInv
<1>3. CASE Fail(p)
  BY <1>3, FailInv
<1>4. CASE /\ work[p].found = "Published"
           /\ Goto(p, "readRetained") /\ UNCHANGED <<disk, call, work>>
  <2>1. pc'[p] = "readRetained" /\ work' = [work EXCEPT ![p] = work[p]]
    BY <1>4 DEF Goto, IInv, TypeOK
  <2>2. RecoverInv(p)'
    BY <1>2, <1>4, <2>1 DEF RecoverInv, Failing, OwnTxn, disk
  <2>3. QED
    BY <1>1, <1>2, <1>4, <2>1, <2>2, RecoverGoesOn DEF disk, SharedPoints, IInv, TypeOK
<1>5. CASE work[p].found = "Verified" /\ GotoTransition(p, "Published")
  <2> DEFINE w == [work[p] EXCEPT !.goal = "Published"]
  <2>1. /\ Goto(p, "transition") /\ UNCHANGED <<disk, call>>
        /\ work' = [work EXCEPT ![p] = w] /\ pc'[p] = "transition" /\ work'[p] = w
        /\ w \in Work /\ w.goal = "Published"
    BY <1>2, <1>5 DEF GotoTransition, Goto, IInv, TypeOK, Work, RecordState
  <2>2. active = Own(p) /\ HasRecord(Own(p), {"Verified"})
    BY <1>2, <1>5, AtPoint DEF IInv, ActiveInv, HasRecord, OwnTxn, Own
  <2>3. RecoverInv(p)'
    BY <2>1, <2>2 DEF RecoverInv, Failing, OwnHas, HasRecord, Own, OwnTxn, disk
  <2>4. QED
    BY <1>1, <2>1, <2>3, RecoverGoesOn DEF disk, SharedPoints, IInv, TypeOK
<1>6. QED
  BY <1>3, <1>4, <1>5 DEF CompleteActive

\* Removing the abandoned temporary records.
LEMMA CleanTempsInv ==
    ASSUME IInv, NEW p \in Proc, CleanTemps(p)
    PROVE  IInv'
<1>1. pc[p] = "cleanTemps" /\ pc[p] \in RecoverPoints
  BY DEF CleanTemps, RecoverPoints
<1>2. /\ Busy(p) /\ call[p].op = "recover" /\ work[p] \in Work
      /\ record[OwnTxn(p)].state = "Failed"
  BY <1>1, RecoverPoint, AtPoint DEF Progress, RecoverInv
<1>3. /\ Goto(p, "unlock") /\ UNCHANGED <<lock, record, dir, active, retained, call, work>>
      /\ pc'[p] = "unlock" /\ work' = [work EXCEPT ![p] = work[p]]
  BY DEF CleanTemps, Goto, IInv, TypeOK
<1>4. RecoverInv(p)'
  BY <1>2, <1>3 DEF RecoverInv, Failing, OwnTxn
<1>5. temps' \in SUBSET ((Proc \cup {Orphan}) \X Generation)
  BY DEF CleanTemps, IInv, TypeOK
<1>6. QED
  BY <1>1, <1>2, <1>3, <1>4, <1>5, RecoverGoesOn

-----------------------------------------------------------------------------
(* The checks of a rollback.                                               *)

\* A rollback goes on once it knows that both generations are published.
LEMMA RollbackGoesOn ==
    ASSUME IInv, NEW p \in Proc, Busy(p), call[p].op = "rollback",
           NEW point \in {"acquire", "temp", "unlock"},
           Goto(p, point), UNCHANGED <<disk, call, work>>,
           pc[p] # "writeLock", point # "acquire" => Holds(p),
           HasRecord(Own(p), {"Published"}),
           VerifyPublishedGeneration(call[p].target),
           point = "unlock" => active = call[p].target
    PROVE  IInv'
<1>1. pc'[p] = point /\ work' = [work EXCEPT ![p] = work[p]]
  BY DEF Goto, IInv, TypeOK
<1>2. /\ point \in Point \ Quiet /\ AtItsPoint(p)' /\ (Holds(p)' => Holds(p))
  BY <1>1 DEF Point, LockedPoints, EndPoints, Quiet, AtItsPoint, RollbackPoints, Holds,
        SharedPoints, disk
<1>3. Progress(p)'
  BY <1>1 DEF Progress, RollbackInv, OwnHas, HasRecord, Own, VerifyPublishedGeneration,
        VerifyGeneration, disk
<1>4. QED
  BY <1>1, <1>2, <1>3, AtPoint, GotoInv DEF disk, IInv, TypeOK

\* Rollback's unlocked check of both generations keeps the invariant.
LEMMA CheckBothInv ==
    ASSUME IInv, NEW p \in Proc, CheckBoth(p)
    PROVE  IInv'
<1>1. Busy(p) /\ pc[p] = "checkBoth"
  BY DEF CheckBoth, Busy, Quiet
<1>2. call[p].op = "rollback"
  BY <1>1, AtPoint DEF AtItsPoint, PublishPoints, RecoverCallPoints, RecoverPoints,
        SharedPoints
<1>3. CASE Fail(p)
  BY <1>3, FailInv
<1>4. CASE ~Fail(p)
  BY <1>1, <1>2, <1>4, RollbackGoesOn DEF CheckBoth, RollbackHolds,
     VerifyActiveGeneration
<1>5. QED
  BY <1>3, <1>4

\* Rollback's second check, under the lock, keeps the invariant.
LEMMA RecheckBothInv ==
    ASSUME IInv, NEW p \in Proc, RecheckBoth(p)
    PROVE  IInv'
<1>1. Busy(p) /\ pc[p] = "recheck" /\ pc[p] \in LockedPoints /\ Holds(p)
  BY DEF RecheckBoth, Busy, Quiet, Holds, LockedPoints
<1>2. call[p].op = "rollback"
  BY <1>1, AtPoint DEF AtItsPoint, PublishPoints, RecoverCallPoints, RecoverPoints,
        SharedPoints
<1>3. CASE RollbackHolds(p)
  BY <1>1, <1>2, <1>3, RollbackGoesOn DEF RecheckBoth, RollbackHolds,
     VerifyActiveGeneration
<1>4. CASE ~RollbackHolds(p)
  BY <1>1, <1>4, RefuseInv DEF RecheckBoth
<1>5. QED
  BY <1>3, <1>4

\* Rollback's comparison of the active pointer with the caller's keeps the
\* invariant.
LEMMA ConfirmRollbackInv ==
    ASSUME IInv, NEW p \in Proc, ConfirmRollback(p)
    PROVE  IInv'
<1>1. /\ Busy(p) /\ pc[p] = "confirmActive" /\ pc[p] \in LockedPoints /\ Holds(p)
  BY DEF ConfirmRollback, Busy, Quiet, Holds, LockedPoints
<1>2. call[p].op = "rollback"
  BY <1>1, AtPoint DEF AtItsPoint, PublishPoints, RecoverCallPoints, RecoverPoints,
        SharedPoints
<1>3. CASE VerifyActiveGeneration(call[p].target)
  <2>1. /\ HasRecord(Own(p), {"Published"}) /\ VerifyPublishedGeneration(call[p].target)
        /\ active = call[p].target
    BY <1>1, <1>2, <1>3, AtPoint DEF Progress, RollbackInv, OwnHas
  <2>2. QED
    BY <1>1, <1>2, <1>3, <2>1, RollbackGoesOn DEF ConfirmRollback
<1>4. CASE ~VerifyActiveGeneration(call[p].target)
  BY <1>1, <1>4, RefuseInv DEF ConfirmRollback
<1>5. QED
  BY <1>3, <1>4

-----------------------------------------------------------------------------
(* The project lock.                                                       *)

\* A step that changes nothing but the lock and the point of its caller.
LEMMA LockWritten ==
    ASSUME IInv, NEW p \in Proc, Busy(p), NEW point \in Point \ Quiet, NEW w \in Work,
           Goto(p, point), work' = [work EXCEPT ![p] = w],
           UNCHANGED <<record, dir, active, temps, retained, call>>,
           lock' \in Generation \cup {TornGen},
           AtItsPoint(p)', Progress(p)',
           Holds(p)' => lock' = IF point = "writeLock" THEN TornGen ELSE Own(p),
           \A q \in Proc : Holds(q) => q = p,
           active # NoGen => HasRecord(active, {"Published"})
    PROVE  IInv'
<1>1. /\ \A q \in Proc \ {p} : pc'[q] = pc[q] /\ work'[q] = work[q]
      /\ pc'[p] = point /\ work'[p] = w /\ call' = call
  BY DEF Goto, IInv, TypeOK
<1>2. TypeOK'
  BY DEF Goto, IInv, TypeOK
<1>3. CallsInv'
  BY <1>1 DEF IInv, CallsInv, Busy, AtItsPoint
<1>4. ApartInv'
  BY <1>1 DEF IInv, ApartInv, Busy, Uses, OwnTxn
<1>5. \A q \in Proc \ {p} : ~Holds(q)'
  BY <1>1 DEF Holds
<1>6. LockExcludes'
  BY <1>1, <1>5 DEF LockExcludes, Own
<1>7. RecordsInv' /\ PublishedInv' /\ ActiveInv'
  BY DEF IInv, RecordsInv, PublishedInv, ActiveInv, VerifyGeneration, HasRecord
<1>8. \A q \in Proc \ {p} : Progress(q) => Progress(q)'
  BY <1>1, OtherProgress
<1>9. QED
  BY <1>2, <1>3, <1>4, <1>6, <1>7, <1>8 DEF IInv, ProgressInv

\* Taking the project lock, or finding it taken, keeps the invariant.
LEMMA AcquireLockInv ==
    ASSUME IInv, NEW p \in Proc, AcquireLock(p)
    PROVE  IInv'
<1>1. Busy(p) /\ pc[p] = "acquire"
  BY DEF AcquireLock, Busy, Quiet
<1>2. call[p].op \in {"publish", "rollback"}
  BY <1>1, AtPoint DEF AtItsPoint, RecoverCallPoints, RecoverPoints, SharedPoints
<1>3. CASE Fail(p)
  BY <1>3, FailInv
<1>4. CASE ~Fail(p)
  <2>1. /\ lock = NoGen /\ lock' = TornGen /\ Goto(p, "writeLock")
        /\ UNCHANGED <<record, dir, active, temps, retained, call, work>>
    BY <1>4 DEF AcquireLock
  <2>2. pc'[p] = "writeLock" /\ work' = [work EXCEPT ![p] = work[p]]
    BY <2>1 DEF Goto, IInv, TypeOK
  <2>3. \A q \in Proc : ~Holds(q)
    <3>1. ASSUME NEW q \in Proc, Holds(q) PROVE FALSE
      <4>1. Busy(q)
        BY <3>1 DEF Busy, Holds, Quiet, LockedPoints, SharedPoints
      <4>2. QED
        BY <2>1, <3>1, <4>1, AtPoint
    <3>2. QED
      BY <3>1
  <2>4. active # NoGen => HasRecord(active, {"Published"})
    BY <2>1 DEF IInv, ActiveInv
  <2>5. AtItsPoint(p)' /\ "writeLock" \in Point \ Quiet
    BY <1>2, <2>1, <2>2 DEF AtItsPoint, PublishPoints, RollbackPoints, Point, Quiet
  <2>6. Progress(p)'
    BY <1>1, <1>2, <2>1, <2>2, AtPoint DEF Progress, PublishInv, RollbackInv, OwnHas,
          HasRecord, Own, OwnTxn, Committing, VerifyPublishedGeneration, VerifyGeneration
  <2>7. QED
    BY <1>1, <2>1, <2>2, <2>3, <2>4, <2>5, <2>6, AtPoint, LockWritten
<1>5. QED
  BY <1>3, <1>4

\* Writing the operation id into the lock file just created keeps the invariant.
LEMMA WriteLockInv ==
    ASSUME IInv, NEW p \in Proc, WriteLock(p)
    PROVE  IInv'
<1>1. Busy(p) /\ pc[p] = "writeLock" /\ Holds(p)
  BY DEF WriteLock, Busy, Quiet, Holds
<1>2. call[p].op \in {"publish", "rollback"}
  BY <1>1, AtPoint DEF AtItsPoint, RecoverCallPoints, RecoverPoints, SharedPoints
<1>3. /\ lock = TornGen /\ lock' = Own(p) /\ lock' \in Generation
      /\ \A q \in Proc : Holds(q) => q = p
      /\ UNCHANGED <<record, dir, active, temps, retained, call>>
  BY <1>1, AtPoint DEF WriteLock, IInv, LockExcludes
<1>4. active # NoGen => HasRecord(active, {"Published"})
  BY <1>3 DEF IInv, ActiveInv
<1>5. CASE call[p].op = "rollback"
  <2>1. /\ Goto(p, "recheck") /\ pc'[p] = "recheck"
        /\ work' = [work EXCEPT ![p] = work[p]]
    BY <1>5 DEF WriteLock, Goto, IInv, TypeOK
  <2>2. AtItsPoint(p)' /\ "recheck" \in Point \ Quiet
    BY <1>3, <1>5, <2>1 DEF AtItsPoint, RollbackPoints, Point, LockedPoints, Quiet
  <2>3. Progress(p)'
    BY <1>1, <1>3, <1>5, <2>1, AtPoint DEF Progress, RollbackInv, OwnHas, HasRecord, Own,
          VerifyPublishedGeneration, VerifyGeneration
  <2>4. QED
    BY <1>1, <1>3, <1>4, <2>1, <2>2, <2>3, AtPoint, LockWritten
<1>6. CASE call[p].op = "publish"
  <2> DEFINE w == [work[p] EXCEPT !.goal = "Preparing"]
  <2>1. /\ Goto(p, "create") /\ pc'[p] = "create"
        /\ work' = [work EXCEPT ![p] = w]
    BY <1>6, AtPoint DEF WriteLock, Goto, IInv, TypeOK
  <2>2. w \in Work /\ w.goal = "Preparing"
    <3>1. work[p] \in Work
      BY DEF IInv, TypeOK
    <3>2. QED
      BY <3>1 DEF Work, RecordState
  <2>3. work'[p] = w
    BY <2>1, AtPoint DEF IInv, TypeOK
  <2> HIDE DEF w
  <2>4. AtItsPoint(p)' /\ "create" \in Point \ Quiet
    BY <1>3, <1>6, <2>1 DEF AtItsPoint, PublishPoints, SharedPoints, Point, Quiet
  <2>5. PublishInv(p)'
    BY <1>3, <2>1, <2>2, <2>3 DEF PublishInv, Committing
  <2>6. Progress(p)'
    BY <1>3, <1>6, <2>5 DEF Progress
  <2>7. QED
    BY <1>1, <1>3, <1>4, <2>1, <2>2, <2>4, <2>6, LockWritten
<1>7. QED
  BY <1>2, <1>5, <1>6

\* Removing the lock, at the end of a call or on the error path of a rollback.
LEMMA RemoveLockInv ==
    ASSUME IInv, NEW p \in Proc, RemoveLock(p) \/ DiscardLock(p)
    PROVE  IInv'
<1>1. /\ Busy(p) /\ pc[p] \in {"unlink", "discard"} /\ Holds(p) /\ lock' = NoGen
      /\ UNCHANGED <<record, dir, active, retained>>
      /\ End(p, "done") \/ End(p, "error")
  BY DEF RemoveLock, DiscardLock, Busy, Quiet, Holds
<1>2. lock = Own(p)
  BY <1>1, AtPoint
<1>3. active = Own(p) => HasRecord(active, {"Published"})
  <2>1. CASE call[p].op = "publish"
    BY <1>1, <2>1, AtPoint DEF Progress, PublishInv, OwnHas, AtItsPoint, PublishPoints,
          SharedPoints
  <2>2. CASE call[p].op = "recover"
    <3>1. pc[p] = "unlink"
      BY <1>1, <2>2, AtPoint DEF AtItsPoint, RecoverCallPoints, RecoverPoints,
            SharedPoints
    <3>2. record[OwnTxn(p)].state \in {"Published", "Failed"}
      BY <1>1, <2>2, <3>1, AtPoint DEF Progress, RecoverInv
    <3>3. QED
      BY <1>1, <3>2, AtPoint DEF IInv, ActiveInv, HasRecord, OwnTxn, Own
  <2>3. CASE call[p].op = "rollback"
    BY <1>1, <2>3, AtPoint DEF Progress, RollbackInv, OwnHas
  <2>4. QED
    BY <1>1, <2>1, <2>2, <2>3, AtPoint DEF AtItsPoint
<1>4. QED
  BY <1>1, <1>2, <1>3, EndsInv DEF Quiet

-----------------------------------------------------------------------------
(* Records and directories: only the transaction of the call changes.      *)

\* A state allows a step that writes the record of the operation of process p
\* and leaves the rest: what is to be shown of the new record is enough.
LEMMA OwnTransactionWritten ==
    ASSUME IInv, NEW p \in Proc, Busy(p), call[p].op \in {"publish", "recover"},
           NEW point \in Point \ Quiet, NEW w \in Work,
           Goto(p, point), work' = [work EXCEPT ![p] = w],
           UNCHANGED <<lock, active, temps, retained, call>>,
           record' \in [Txn -> [state : RecordState \cup {"Absent", "Torn"},
                                gen : Generation \cup {NoGen}]],
           dir' \in [Txn -> [phase : {"absent", "partial", "sealed"},
                             gen : Generation \cup {NoGen}]],
           \A t \in Txn \ {OwnTxn(p)} : record'[t] = record[t] /\ dir'[t] = dir[t],
           AtItsPoint(p)', Progress(p)',
           Holds(p)' => Holds(p) /\ pc[p] # "writeLock" /\ point # "writeLock",
           record'[OwnTxn(p)].state \in RecordState => record'[OwnTxn(p)].gen = Own(p),
           record'[OwnTxn(p)].state = "Published" => VerifyGeneration(Own(p))',
           (active # NoGen /\ active.txn = OwnTxn(p)) =>
               VerifyGeneration(active)' /\ HasRecord(active, {"Published"})'
    PROVE  IInv'
<1>1. /\ \A q \in Proc \ {p} : pc'[q] = pc[q] /\ work'[q] = work[q]
      /\ pc'[p] = point /\ work'[p] = w /\ call' = call
  BY DEF Goto, IInv, TypeOK
<1>2. TypeOK'
  BY DEF Goto, IInv, TypeOK
<1>3. CallsInv'
  BY <1>1 DEF IInv, CallsInv, Busy, AtItsPoint
<1>4. ApartInv'
  BY <1>1 DEF IInv, ApartInv, Busy, Uses, OwnTxn
<1>5. \A q \in Proc \ {p} : Holds(q)' <=> Holds(q)
  BY <1>1 DEF Holds
<1>6. LockExcludes'
  BY <1>1, <1>5 DEF IInv, LockExcludes, Own
<1>7. RecordsInv'
  BY AtPoint DEF IInv, RecordsInv
<1>8. PublishedInv'
  <2>1. ASSUME NEW t \in Txn, record'[t].state = "Published"
        PROVE  VerifyGeneration(record[t].gen)'
    <3>1. CASE t = OwnTxn(p)
      BY <2>1, <3>1 DEF VerifyGeneration, RecordState, Own
    <3>2. CASE t # OwnTxn(p)
      <4>1. record'[t] = record[t] /\ dir'[t] = dir[t]
        BY <3>2
      <4>2. VerifyGeneration(record[t].gen) /\ record[t].gen.txn = t
        BY <2>1, <4>1 DEF IInv, RecordsInv, PublishedInv, RecordState
      <4>3. QED
        BY <4>1, <4>2 DEF VerifyGeneration
    <3>3. QED
      BY <3>1, <3>2
  <2>2. QED
    BY <2>1 DEF PublishedInv
<1>9. ActiveInv'
  <2>1. CASE active # NoGen /\ active.txn # OwnTxn(p)
    <3>1. active \in Generation /\ active.txn \in Txn
      BY <2>1 DEF IInv, ActiveInv, Generation
    <3>2. record'[active.txn] = record[active.txn] /\ dir'[active.txn] = dir[active.txn]
      BY <2>1, <3>1
    <3>3. QED
      BY <2>1, <3>1, <3>2 DEF IInv, ActiveInv, VerifyGeneration, HasRecord
  <2>2. CASE active # NoGen /\ active.txn = OwnTxn(p)
    BY <2>2 DEF IInv, ActiveInv
  <2>3. QED
    BY <2>1, <2>2 DEF ActiveInv
<1>10. ASSUME NEW q \in Proc \ {p} PROVE Progress(q)'
  <2>1. CASE Busy(q)
    <3>1. /\ call[q].own.txn # OwnTxn(p) /\ call[q].target.txn # OwnTxn(p)
          /\ call[q].own.txn \in Txn /\ call[q].target.txn \in Txn
      BY <2>1, AtPoint DEF IInv, ApartInv, Uses, Busy, Own, Generation
    <3>2. QED
      BY <1>1, <3>1, OtherProgress DEF IInv, ProgressInv
  <2>2. CASE ~Busy(q)
    BY <1>1, <2>2 DEF IInv, CallsInv, NoCall, Progress
  <2>3. QED
    BY <2>1, <2>2
<1>11. QED
  BY <1>2, <1>3, <1>4, <1>6, <1>7, <1>8, <1>9, <1>10 DEF IInv, ProgressInv

\* Creating the record file of an operation keeps the invariant.
LEMMA CreateRecordInv ==
    ASSUME IInv, NEW p \in Proc, CreateRecord(p)
    PROVE  IInv'
<1>1. Busy(p) /\ pc[p] = "create"
  BY DEF CreateRecord, Busy, Quiet
<1>2. call[p].op \in {"publish", "recover"} /\ OwnTxn(p) \in Txn
  BY <1>1, AtPoint DEF AtItsPoint, RollbackPoints, EndPoints
<1>3. CASE Fail(p)
  BY <1>3, FailInv
<1>4. CASE ~Fail(p)
  <2> DEFINE t == OwnTxn(p)
  <2>1. /\ record[t].state = "Absent"
        /\ record' = [record EXCEPT ![t].state = "Torn"]
        /\ Goto(p, "writeRecord")
        /\ UNCHANGED <<lock, dir, active, temps, retained, call, work>>
    BY <1>4 DEF CreateRecord
  <2>2. pc'[p] = "writeRecord" /\ work' = [work EXCEPT ![p] = work[p]]
    BY <2>1 DEF Goto, IInv, TypeOK
  <2>3. /\ record' \in [Txn -> [state : RecordState \cup {"Absent", "Torn"},
                                gen : Generation \cup {NoGen}]]
        /\ \A u \in Txn \ {t} : record'[u] = record[u]
        /\ record'[t].state = "Torn"
    BY <1>2, <2>1 DEF IInv, TypeOK
  <2>4. active = NoGen \/ active.txn # t
    BY <2>1 DEF IInv, ActiveInv, HasRecord
  <2>5. AtItsPoint(p)' /\ "writeRecord" \in Point \ Quiet /\ (Holds(p)' => Holds(p))
    BY <1>1, <1>2, <2>1, <2>2 DEF AtItsPoint, PublishPoints, RecoverCallPoints,
          SharedPoints, Point, Quiet, Holds, LockedPoints
  <2>6. Progress(p)'
    <3>1. UNCHANGED <<active, call>> /\ work'[p] = work[p] /\ record[OwnTxn(p)]'.state = "Torn"
      BY <2>1, <2>2, <2>3 DEF OwnTxn
    <3>2. CASE call[p].op = "publish"
      BY <1>1, <2>2, <3>1, <3>2, AtPoint DEF Progress, PublishInv, Committing, OwnTxn
    <3>3. CASE call[p].op = "recover"
      BY <1>1, <2>2, <3>1, <3>3, AtPoint DEF Progress, RecoverInv, Failing, Unnamed, OwnTxn
    <3>4. QED
      BY <1>2, <3>2, <3>3
  <2>7. dir' \in [Txn -> [phase : {"absent", "partial", "sealed"},
                          gen : Generation \cup {NoGen}]]
    BY <2>1 DEF IInv, TypeOK
  <2>8. /\ work[p] \in Work /\ UNCHANGED <<lock, active, temps, retained, call>>
        /\ Goto(p, "writeRecord")
        /\ Holds(p)' => Holds(p) /\ pc[p] # "writeLock" /\ "writeRecord" # "writeLock"
        /\ \A u \in Txn \ {t} : record'[u] = record[u] /\ dir'[u] = dir[u]
        /\ record'[t].state \in RecordState => record'[t].gen = Own(p)
        /\ record'[t].state # "Published"
    BY <1>1, <2>1, <2>3, <2>5, AtPoint DEF RecordState
  <2>9. QED
    BY <1>1, <1>2, <2>2, <2>3, <2>4, <2>5, <2>6, <2>7, <2>8, OwnTransactionWritten
<1>5. QED
  BY <1>3, <1>4

\* Advancing the record of an operation keeps the invariant.
LEMMA WriteRecordInv ==
    ASSUME IInv, NEW p \in Proc, WriteRecord(p)
    PROVE  IInv'
<1>1. Busy(p) /\ pc[p] = "writeRecord"
  BY DEF WriteRecord, Busy, Quiet
<1>2. call[p].op \in {"publish", "recover"} /\ OwnTxn(p) \in Txn
  BY <1>1, AtPoint DEF AtItsPoint, RollbackPoints, EndPoints
<1> DEFINE t == OwnTxn(p)
           point == AfterRecord(work[p].goal)
<1>3. /\ record[t].state = "Torn"
      /\ \/ call[p].op = "publish" /\ work[p].goal = "Preparing" /\ point = "mkdir"
         \/ call[p].op = "recover" /\ work[p].goal = "Failed" /\ point = "cleanTemps"
  BY <1>1, <1>2, AtPoint DEF Progress, PublishInv, RecoverInv, AfterRecord
<1>4. /\ record' = [record EXCEPT ![t] = [state |-> work[p].goal, gen |-> Own(p)]]
      /\ Goto(p, point)
      /\ UNCHANGED <<lock, dir, active, temps, retained, call, work>>
  BY DEF WriteRecord
<1>5. pc'[p] = point /\ work' = [work EXCEPT ![p] = work[p]]
  BY <1>4 DEF Goto, IInv, TypeOK
<1>6. /\ record' \in [Txn -> [state : RecordState \cup {"Absent", "Torn"},
                              gen : Generation \cup {NoGen}]]
      /\ \A u \in Txn \ {t} : record'[u] = record[u]
      /\ record'[t] = [state |-> work[p].goal, gen |-> Own(p)]
  BY <1>1, <1>2, <1>3, <1>4, AtPoint DEF IInv, TypeOK, RecordState
<1>7. active = NoGen \/ active.txn # t
  BY <1>3 DEF IInv, ActiveInv, HasRecord
<1>8. AtItsPoint(p)' /\ point \in Point \ Quiet /\ (Holds(p)' => Holds(p))
  BY <1>1, <1>3, <1>4, <1>5 DEF AtItsPoint, PublishPoints, RecoverCallPoints,
        RecoverPoints, SharedPoints, Point, Quiet, Holds, LockedPoints
<1>9. Progress(p)'
  BY <1>3, <1>4, <1>5, <1>6 DEF Progress, PublishInv, RecoverInv, Committing,
        Failing, OwnHas, HasRecord, Own, OwnTxn
<1>10. dir' \in [Txn -> [phase : {"absent", "partial", "sealed"},
                        gen : Generation \cup {NoGen}]]
  BY <1>4 DEF IInv, TypeOK
<1>11. /\ work[p] \in Work /\ UNCHANGED <<lock, active, temps, retained, call>>
       /\ Holds(p)' => Holds(p) /\ pc[p] # "writeLock" /\ point # "writeLock"
       /\ \A u \in Txn \ {t} : record'[u] = record[u] /\ dir'[u] = dir[u]
       /\ record'[t].gen = Own(p) /\ record'[t].state # "Published"
  BY <1>1, <1>3, <1>4, <1>6, <1>8, AtPoint
<1>12. QED
  BY <1>1, <1>2, <1>4, <1>5, <1>6, <1>7, <1>8, <1>9, <1>10, <1>11,
     OwnTransactionWritten

\* The step that makes a transition visible.  Only a committed transaction
\* becomes Published, and a transaction the active record names never becomes
\* anything else.
LEMMA ReplaceRecordInv ==
    ASSUME IInv, NEW p \in Proc, ReplaceRecord(p)
    PROVE  IInv'
<1>1. Busy(p) /\ pc[p] = "replace"
  BY DEF ReplaceRecord, Busy, Quiet
<1>2. call[p].op \in {"publish", "recover"} /\ OwnTxn(p) \in Txn
  BY <1>1, AtPoint DEF AtItsPoint, RollbackPoints, EndPoints
<1> DEFINE t == OwnTxn(p)
<1>3. /\ Before(p)
      /\ \/ call[p].op = "publish" /\ work[p].goal \in {"Materialized", "Verified", "Published"}
         \/ call[p].op = "recover" /\ work[p].goal \in {"Published", "Failed"}
  BY <1>1, <1>2, AtPoint DEF Progress, PublishInv, RecoverInv
<1>4. /\ record' = [record EXCEPT ![t] = [state |-> work[p].goal, gen |-> Own(p)]]
      /\ Goto(p, "confirmRecord")
      /\ UNCHANGED <<lock, dir, active, temps, retained, call, work>>
  BY DEF ReplaceRecord
<1>5. pc'[p] = "confirmRecord" /\ work' = [work EXCEPT ![p] = work[p]]
  BY <1>4 DEF Goto, IInv, TypeOK
<1>6. /\ record' \in [Txn -> [state : RecordState \cup {"Absent", "Torn"},
                              gen : Generation \cup {NoGen}]]
      /\ \A u \in Txn \ {t} : record'[u] = record[u]
      /\ record'[t] = [state |-> work[p].goal, gen |-> Own(p)]
  BY <1>1, <1>2, <1>3, <1>4, AtPoint DEF IInv, TypeOK, RecordState
<1>7. work[p].goal = "Published" =>
          active = Own(p) /\ active # NoGen /\ VerifyGeneration(Own(p))
  BY <1>1, <1>2, AtPoint DEF Progress, PublishInv, RecoverInv, Committing, IInv, ActiveInv
<1>8. (active # NoGen /\ active.txn = t) => work[p].goal = "Published"
  <2>1. CASE call[p].op = "publish"
    BY <1>3, <2>1, AtPoint DEF IInv, ActiveInv, Before, OwnHas, HasRecord, OwnTxn, Own
  <2>2. CASE call[p].op = "recover"
    BY <1>1, <1>3, <2>2, AtPoint DEF Progress, RecoverInv, Failing, Unnamed
  <2>3. QED
    BY <1>2, <2>1, <2>2
<1>9. AtItsPoint(p)' /\ "confirmRecord" \in Point \ Quiet /\ (Holds(p)' => Holds(p))
  BY <1>1, <1>2, <1>4, <1>5 DEF AtItsPoint, PublishPoints, RecoverCallPoints,
        SharedPoints, Point, Quiet, Holds, LockedPoints
<1>10. Progress(p)'
  <2>1. CASE call[p].op = "publish"
    BY <1>1, <1>3, <1>4, <1>5, <1>6, <2>1, AtPoint DEF Progress, PublishInv,
          Committing, OwnHas, HasRecord, Own, OwnTxn, VerifyGeneration
  <2>2. CASE call[p].op = "recover"
    BY <1>1, <1>3, <1>4, <1>5, <1>6, <2>2, AtPoint DEF Progress, RecoverInv,
          Failing, Unnamed, OwnHas, HasRecord, Own, OwnTxn
  <2>3. QED
    BY <1>2, <2>1, <2>2
<1>11. dir' \in [Txn -> [phase : {"absent", "partial", "sealed"},
                        gen : Generation \cup {NoGen}]]
  BY <1>4 DEF IInv, TypeOK
<1>12. VerifyGeneration(Own(p))' <=> VerifyGeneration(Own(p))
  BY <1>4 DEF VerifyGeneration, Own
<1>13. (active # NoGen /\ active.txn = t) =>
           VerifyGeneration(active)' /\ HasRecord(active, {"Published"})'
  <2>1. SUFFICES ASSUME active # NoGen, active.txn = t
                 PROVE  VerifyGeneration(active)' /\ HasRecord(active, {"Published"})'
    OBVIOUS
  <2>2. active = Own(p) /\ work[p].goal = "Published"
    BY <1>7, <1>8, <2>1
  <2>3. QED
    BY <1>1, <1>4, <1>6, <1>7, <2>1, <2>2, AtPoint DEF HasRecord, VerifyGeneration
<1>14. /\ record'[t].state \in RecordState => record'[t].gen = Own(p)
       /\ record'[t].state = "Published" => VerifyGeneration(Own(p))'
  BY <1>6, <1>7, <1>12
<1>15. work[p] \in Work /\ UNCHANGED <<lock, active, temps, retained, call>>
       /\ (Holds(p)' => Holds(p) /\ pc[p] # "writeLock" /\ "confirmRecord" # "writeLock")
       /\ \A u \in Txn \ {t} : record'[u] = record[u] /\ dir'[u] = dir[u]
  BY <1>1, <1>4, <1>6, <1>9, AtPoint
<1>16. QED
  BY <1>1, <1>2, <1>4, <1>5, <1>6, <1>9, <1>10, <1>11, <1>13, <1>14, <1>15,
     OwnTransactionWritten

\* Creating a generation's directory keeps the invariant.
LEMMA CreateDirectoryInv ==
    ASSUME IInv, NEW p \in Proc, CreateDirectory(p)
    PROVE  IInv'
<1>1. Busy(p) /\ pc[p] = "mkdir" /\ Holds(p)
  BY DEF CreateDirectory, Busy, Quiet, Holds, LockedPoints
<1>2. call[p].op = "publish" /\ OwnTxn(p) \in Txn
  BY <1>1, AtPoint DEF AtItsPoint, RecoverCallPoints, RecoverPoints, RollbackPoints,
        EndPoints, SharedPoints
<1>3. CASE Fail(p)
  BY <1>3, FailInv
<1>4. CASE ~Fail(p)
  <2> DEFINE t == OwnTxn(p)
  <2>1. /\ dir[t].phase = "absent"
        /\ dir' = [dir EXCEPT ![t] = [phase |-> "partial", gen |-> Own(p)]]
        /\ Goto(p, "fill")
        /\ UNCHANGED <<lock, record, active, temps, retained, call, work>>
    BY <1>4 DEF CreateDirectory
  <2>2. pc'[p] = "fill" /\ work' = [work EXCEPT ![p] = work[p]]
    BY <2>1 DEF Goto, IInv, TypeOK
  <2>3. /\ dir' \in [Txn -> [phase : {"absent", "partial", "sealed"},
                             gen : Generation \cup {NoGen}]]
        /\ \A u \in Txn \ {t} : dir'[u] = dir[u]
        /\ dir'[t] = [phase |-> "partial", gen |-> Own(p)]
    BY <1>1, <1>2, <2>1, AtPoint DEF IInv, TypeOK
  <2>4. /\ record' \in [Txn -> [state : RecordState \cup {"Absent", "Torn"},
                                gen : Generation \cup {NoGen}]]
        /\ work[p] \in Work
    BY <1>1, <2>1, AtPoint DEF IInv, TypeOK
  <2>5. active = NoGen \/ active.txn # t
    BY <2>1 DEF IInv, ActiveInv, VerifyGeneration
  <2>6. AtItsPoint(p)' /\ "fill" \in Point \ Quiet
    BY <1>2, <2>1, <2>2 DEF AtItsPoint, PublishPoints, LockedPoints, Point, Quiet
  <2>7. OwnHas(p, {"Preparing"})
    BY <1>1, <1>2, AtPoint DEF Progress, PublishInv
  <2>8. PublishInv(p)'
    BY <2>1, <2>2, <2>3, <2>7 DEF PublishInv, Committing, OwnHas, HasRecord, Own, OwnTxn
  <2>9. /\ record'[t].gen = Own(p) /\ record'[t].state # "Published"
        /\ \A u \in Txn \ {t} : record'[u] = record[u] /\ dir'[u] = dir[u]
    BY <1>1, <2>1, <2>3, <2>7, AtPoint DEF OwnHas, HasRecord
  <2>10. Progress(p)'
    BY <1>2, <2>1, <2>8 DEF Progress
  <2>11. QED
    BY <1>1, <1>2, <2>1, <2>2, <2>3, <2>4, <2>5, <2>6, <2>9, <2>10,
       OwnTransactionWritten
<1>5. QED
  BY <1>3, <1>4

\* Writing a generation's contents keeps the invariant.
LEMMA FillDirectoryInv ==
    ASSUME IInv, NEW p \in Proc, FillDirectory(p)
    PROVE  IInv'
<1>1. Busy(p) /\ pc[p] = "fill" /\ Holds(p)
  BY DEF FillDirectory, Busy, Quiet, Holds, LockedPoints
<1>2. call[p].op = "publish" /\ OwnTxn(p) \in Txn
  BY <1>1, AtPoint DEF AtItsPoint, RecoverCallPoints, RecoverPoints, RollbackPoints,
        EndPoints, SharedPoints
<1> DEFINE t == OwnTxn(p)
           w == [work[p] EXCEPT !.goal = "Materialized"]
<1>3. /\ dir' = [dir EXCEPT ![t].phase = "sealed"]
      /\ Goto(p, "transition") /\ pc'[p] = "transition"
      /\ work' = [work EXCEPT ![p] = w] /\ work'[p] = w
      /\ w \in Work /\ w.goal = "Materialized"
      /\ UNCHANGED <<lock, record, active, temps, retained, call>>
  BY <1>1, AtPoint DEF FillDirectory, Goto, IInv, TypeOK, Work, RecordState
<1>4. OwnHas(p, {"Preparing"}) /\ dir[t].gen = Own(p)
  BY <1>1, <1>2, AtPoint DEF Progress, PublishInv
<1>5. /\ dir' \in [Txn -> [phase : {"absent", "partial", "sealed"},
                           gen : Generation \cup {NoGen}]]
      /\ \A u \in Txn \ {t} : dir'[u] = dir[u]
      /\ dir'[t] = [phase |-> "sealed", gen |-> Own(p)]
  BY <1>1, <1>2, <1>3, <1>4 DEF IInv, TypeOK
<1>6. record' \in [Txn -> [state : RecordState \cup {"Absent", "Torn"},
                           gen : Generation \cup {NoGen}]]
  BY <1>3 DEF IInv, TypeOK
<1>7. active = NoGen \/ active.txn # t
  BY <1>1, <1>4, AtPoint DEF IInv, ActiveInv, OwnHas, HasRecord
<1>8. AtItsPoint(p)' /\ "transition" \in Point \ Quiet
  BY <1>2, <1>3 DEF AtItsPoint, PublishPoints, SharedPoints, Point, Quiet
<1>9. PublishInv(p)'
  BY <1>1, <1>3, <1>4, <1>5, AtPoint DEF PublishInv, Before, Committing, OwnHas,
     HasRecord, VerifyGeneration, Own, OwnTxn
<1>10. /\ record'[t].gen = Own(p) /\ record'[t].state # "Published"
       /\ \A u \in Txn \ {t} : record'[u] = record[u] /\ dir'[u] = dir[u]
  BY <1>1, <1>3, <1>4, <1>5, AtPoint DEF OwnHas, HasRecord
<1>11. Progress(p)'
  BY <1>2, <1>3, <1>9 DEF Progress
<1>12. QED
  BY <1>1, <1>2, <1>3, <1>5, <1>6, <1>7, <1>8, <1>10, <1>11, OwnTransactionWritten

-----------------------------------------------------------------------------
(* The commit point.                                                       *)

\* The rename changes the active record only, and the other calls know nothing
\* about it that it could falsify: a publication or rollback that does holds
\* the lock, and a recovery about to complete or abandon its transaction is
\* for another transaction than the one renamed into place.
LEMMA RenameTempInv ==
    ASSUME IInv, NEW p \in Proc, RenameTemp(p)
    PROVE  IInv'
<1>1. /\ Busy(p) /\ pc[p] = "rename" /\ pc[p] \in LockedPoints /\ Holds(p)
  BY DEF RenameTemp, Busy, Quiet, Holds, LockedPoints
<1>2. /\ call[p].op \in {"publish", "rollback"}
      /\ call[p].target \in Generation /\ Own(p) \in Generation
      /\ lock = Own(p)
      /\ \A q \in Proc : Holds(q) => q = p
      /\ call[p].op = "publish" => call[p].target = Own(p)
  BY <1>1, AtPoint DEF AtItsPoint, RecoverCallPoints, RecoverPoints, SharedPoints,
        IInv, LockExcludes, CallsInv, Own
<1>3. CASE Refuse(p)
  BY <1>1, <1>3, RefuseInv
<1>4. CASE ~Refuse(p)
  <2> DEFINE g == call[p].target
  <2>1. /\ active' = g /\ Goto(p, "reread")
        /\ temps' = temps \ {<<p, g>>}
        /\ UNCHANGED <<lock, record, dir, retained, call, work>>
    BY <1>4 DEF RenameTemp
  <2>2. /\ \A q \in Proc \ {p} : pc'[q] = pc[q]
        /\ pc'[p] = "reread"
    BY <2>1 DEF Goto, IInv, TypeOK
  <2>3. TypeOK'
    BY <1>2, <2>1 DEF Goto, IInv, TypeOK, Point, LockedPoints
  <2>4. CallsInv'
    <3>1. AtItsPoint(p)'
      BY <1>2, <2>1, <2>2 DEF AtItsPoint, PublishPoints, RollbackPoints
    <3>2. QED
      BY <1>1, <2>1, <2>2, <3>1 DEF IInv, CallsInv, Busy, AtItsPoint, Quiet
  <2>5. ApartInv'
    BY <1>1, <2>1, <2>2 DEF IInv, ApartInv, Busy, Uses, OwnTxn
  <2>6. LockExcludes'
    <3>1. \A q \in Proc \ {p} : ~Holds(q)'
      BY <1>2, <2>1, <2>2 DEF Holds
    <3>2. QED
      BY <1>2, <2>1, <2>2, <3>1 DEF LockExcludes, Own
  <2>7. RecordsInv' /\ PublishedInv'
    BY <2>1 DEF IInv, RecordsInv, PublishedInv, VerifyGeneration
  <2>8. /\ VerifyGeneration(g)
        /\ \/ HasRecord(g, {"Published"})
           \/ HasRecord(g, {"Verified"}) /\ g = Own(p)
    BY <1>1, <1>2, AtPoint DEF Progress, PublishInv, RollbackInv, OwnHas,
          VerifyPublishedGeneration
  <2>9. ActiveInv'
    BY <1>2, <2>1, <2>8 DEF ActiveInv, VerifyGeneration, HasRecord
  <2>10. Progress(p)'
    <3>1. CASE call[p].op = "publish"
      BY <1>1, <1>2, <2>1, <2>2, <3>1, AtPoint DEF Progress, PublishInv, Committing,
            OwnHas, HasRecord, VerifyGeneration, Own, OwnTxn
    <3>2. CASE call[p].op = "rollback"
      BY <1>1, <2>1, <2>2, <3>2, AtPoint DEF Progress, RollbackInv, OwnHas, HasRecord,
            VerifyPublishedGeneration, VerifyGeneration, Own
    <3>3. QED
      BY <1>2, <3>1, <3>2
  <2>11. ASSUME NEW q \in Proc \ {p} PROVE Progress(q)'
    <3>1. ~Holds(q) /\ Progress(q)
      BY <1>2 DEF IInv, ProgressInv
    <3>2. CASE ~Busy(q)
      BY <2>1, <3>2 DEF IInv, CallsInv, NoCall, Progress
    <3>3. CASE Busy(q) /\ call[q].op = "publish"
      <4>1. pc[q] = "acquire"
        BY <3>1, <3>3, AtPoint DEF AtItsPoint, Holds, PublishPoints, LockedPoints,
              SharedPoints
      <4>2. QED
        BY <2>1, <2>2, <3>3, <4>1 DEF Progress, PublishInv, Committing
    <3>4. CASE Busy(q) /\ call[q].op = "recover"
      <4>1. OwnTxn(q) # Own(p).txn /\ OwnTxn(q) # g.txn
        BY <1>1, <3>4 DEF IInv, ApartInv, Uses, Busy, Own
      <4>2. ~(active = Own(q) /\ OwnHas(q, {"Verified"}))
        BY <1>2, <3>4, <4>1, AtPoint DEF IInv, ActiveInv, OwnHas, HasRecord
      <4>3. pc[q] = "verifyActive" => work[q].found # "Verified"
        <5>1. SUFFICES ASSUME pc[q] = "verifyActive", work[q].found = "Verified"
                       PROVE  FALSE
          OBVIOUS
        <5>2. active = Own(q) /\ record[OwnTxn(q)].state = "Verified"
          BY <3>1, <3>4, <5>1 DEF Progress, RecoverInv
        <5>3. OwnHas(q, {"Verified"})
          BY <3>4, <5>2, AtPoint DEF IInv, ActiveInv, OwnHas, HasRecord, Own, OwnTxn
        <5>4. QED
          BY <4>2, <5>2, <5>3
      <4>4. pc[q] \in {"transition", "replace"} => work[q].goal # "Published"
        BY <3>1, <3>4, <4>2 DEF Progress, RecoverInv
      <4>5. RecoverInv(q)'
        BY <2>1, <2>2, <3>1, <3>4, <4>1, <4>3, <4>4 DEF Progress, RecoverInv, Failing,
              Unnamed, Before, OwnHas, HasRecord, Own, OwnTxn
      <4>6. QED
        BY <2>1, <3>4, <4>5 DEF Progress
    <3>5. CASE Busy(q) /\ call[q].op = "rollback"
      <4>1. pc[q] \in {"checkBoth", "acquire", "unlock"} /\ pc[q] # "unlock"
        BY <3>1, <3>5, AtPoint DEF AtItsPoint, Holds, RollbackPoints, LockedPoints,
              SharedPoints, EndPoints
      <4>2. QED
        BY <2>1, <2>2, <3>1, <3>5, <4>1 DEF Progress, RollbackInv, OwnHas, HasRecord,
              VerifyPublishedGeneration, VerifyGeneration, Own
    <3>6. QED
      BY <3>2, <3>3, <3>4, <3>5, AtPoint DEF AtItsPoint
  <2>12. QED
    BY <2>3, <2>4, <2>5, <2>6, <2>7, <2>9, <2>10, <2>11 DEF IInv, ProgressInv
<1>5. QED
  BY <1>3, <1>4

-----------------------------------------------------------------------------
(* Starting a call.                                                        *)

\* The start of any call keeps the invariant.
LEMMA BeginInv ==
    ASSUME IInv, NEW p \in Proc, NEW op \in Op \ {"none"},
           NEW own \in Generation, NEW target \in Generation, NEW point,
           Begin(p, op, own, target, point),
           \/ op = "publish" /\ point = "acquire" /\ own = target
           \/ op = "recover" /\ point = "readTxn" /\ own = target
           \/ op = "rollback" /\ point = "checkBoth",
           \A q \in Proc :
               (op # "rollback" \/ call[q].op # "rollback") =>
                   {own.txn, target.txn} \cap Uses(q) = {}
    PROVE  IInv'
<1>1. /\ \A q \in Proc \ {p} : pc'[q] = pc[q] /\ call'[q] = call[q]
      /\ pc'[p] = point /\ call'[p] = [op |-> op, own |-> own, target |-> target]
      /\ ~Busy(p) /\ UNCHANGED <<disk, work>>
      /\ point \in {"acquire", "readTxn", "checkBoth"}
  BY DEF Begin, Goto, IInv, TypeOK, Busy
<1>2. TypeOK'
  BY <1>1 DEF Begin, Goto, IInv, TypeOK, Point, RecoverPoints, disk, Op
<1>3. CallsInv'
  <2>1. AtItsPoint(p)'
    BY <1>1 DEF AtItsPoint, PublishPoints, RecoverCallPoints, RecoverPoints,
          RollbackPoints
  <2>2. QED
    BY <1>1, <2>1 DEF IInv, CallsInv, Busy, AtItsPoint, Quiet
<1>4. ApartInv'
  <2>1. ASSUME NEW r \in Proc, NEW s \in Proc, r # s, Busy(r)',
               call'[r].op \in {"publish", "recover"}
        PROVE  OwnTxn(r)' \notin Uses(s)'
    <3>1. CASE r = p
      <4>1. OwnTxn(r)' = own.txn
        BY <1>1, <3>1 DEF OwnTxn
      <4>2. Uses(s)' = Uses(s)
        BY <1>1, <2>1, <3>1 DEF Uses
      <4>3. {own.txn, target.txn} \cap Uses(s) = {}
        BY <1>1, <2>1, <3>1
      <4>4. QED
        BY <4>1, <4>2, <4>3
    <3>2. CASE s = p
      <4>1. OwnTxn(r) \in Uses(r) /\ call[r].op # "rollback"
        BY <1>1, <2>1, <3>2 DEF Uses, OwnTxn, Busy
      <4>2. OwnTxn(r) \notin {own.txn, target.txn}
        BY <4>1
      <4>3. QED
        BY <1>1, <2>1, <3>2, <4>2 DEF Uses, OwnTxn, Quiet
    <3>3. CASE r # p /\ s # p
      BY <1>1, <2>1, <3>3 DEF IInv, ApartInv, Uses, OwnTxn, Busy
    <3>4. QED
      BY <3>1, <3>2, <3>3
  <2>2. QED
    BY <2>1 DEF ApartInv
<1>5. ~Holds(p)' /\ \A q \in Proc \ {p} : Holds(q)' <=> Holds(q)
  BY <1>1 DEF Holds, LockedPoints, SharedPoints
<1>6. LockExcludes'
  BY <1>1, <1>5 DEF IInv, LockExcludes, Own, disk
<1>7. RecordsInv' /\ PublishedInv' /\ ActiveInv'
  BY <1>1 DEF IInv, RecordsInv, PublishedInv, ActiveInv, VerifyGeneration, HasRecord, disk
<1>8. Progress(p)'
  BY <1>1 DEF Progress, PublishInv, RecoverInv, RollbackInv, Committing, Failing
<1>9. \A q \in Proc \ {p} : Progress(q) => Progress(q)'
  BY <1>1, OtherProgress DEF disk
<1>10. QED
  BY <1>2, <1>3, <1>4, <1>6, <1>7, <1>8, <1>9 DEF IInv, ProgressInv

\* Every call a process may start keeps the invariant.
LEMMA CallsStartInv ==
    ASSUME IInv, NEW p \in Proc,
           CallPublish(p) \/ CallRollback(p) \/ (\E g \in Generation : CallRecover(p, g))
    PROVE  IInv'
<1>1. \A q \in Proc : call[q].op \in Op
  BY DEF IInv, TypeOK
<1>2. CASE CallPublish(p)
  <2>1. PICK g \in Generation : Idle({g.txn}, Op) /\ Publish(p, g)
    BY <1>2 DEF CallPublish
  <2>2. \A q \in Proc : {g.txn, g.txn} \cap Uses(q) = {}
    BY <1>1, <2>1 DEF Idle
  <2>3. QED
    BY <2>1, <2>2, BeginInv DEF Publish, Op
<1>3. CASE \E g \in Generation : CallRecover(p, g)
  <2>1. PICK g \in Generation : Idle({g.txn}, Op) /\ Recover(p, g)
    BY <1>3 DEF CallRecover
  <2>2. \A q \in Proc : {g.txn, g.txn} \cap Uses(q) = {}
    BY <1>1, <2>1 DEF Idle
  <2>3. QED
    BY <2>1, <2>2, BeginInv DEF Recover, Op
<1>4. CASE CallRollback(p)
  <2>1. PICK current \in Generation, other \in Generation :
            /\ Idle({current.txn, other.txn}, {"publish", "recover"})
            /\ RollbackActiveGeneration(p, current, other)
    BY <1>4 DEF CallRollback
  <2>2. ASSUME NEW q \in Proc, call[q].op # "rollback"
        PROVE  {current.txn, other.txn} \cap Uses(q) = {}
    <3>1. CASE Busy(q)
      BY <2>1, <2>2, <3>1, AtPoint DEF Idle, AtItsPoint
    <3>2. CASE ~Busy(q)
      BY <3>2 DEF Busy, Uses
    <3>3. QED
      BY <3>1, <3>2
  <2>3. QED
    BY <2>1, <2>2, BeginInv DEF RollbackActiveGeneration, Op
<1>5. QED
  BY <1>2, <1>3, <1>4

\* A call may stop anywhere.
LEMMA StopsInv ==
    ASSUME IInv, NEW p \in Proc, Crash(p) \/ StepFails(p)
    PROVE  IInv'
<1>1. CASE Crash(p)
  BY <1>1, EndsInv DEF Crash, Quiet
<1>2. CASE StepFails(p)
  BY <1>2, FailInv, RefuseInv DEF StepFails, LockedPoints
<1>3. QED
  BY <1>1, <1>2

\* Every step of a process inside a call keeps the invariant.
LEMMA StepInv ==
    ASSUME IInv, NEW p \in Proc, Step(p)
    PROVE  IInv'
BY AcquireLockInv, WriteLockInv, CheckLockInv, RemoveLockInv, GiveUpInv,
   CreateRecordInv, WriteRecordInv, CheckTransitionInv, ReplaceRecordInv,
   ConfirmRecordInv, CreateDirectoryInv, FillDirectoryInv, VerifyMaterializedInv,
   CreateTempInv, RenameTempInv, RereadActiveInv, RetainedInv, ReadTransactionInv,
   ReadActiveInv, CompleteActiveInv, CleanTempsInv, CheckBothInv, RecheckBothInv,
   ConfirmRollbackInv DEF Step

\* The invariant is inductive.
LEMMA NextInv == IInv /\ [Next]_vars => IInv'
<1> SUFFICES ASSUME IInv, [Next]_vars PROVE IInv'
  OBVIOUS
<1>1. CASE Next
  BY <1>1, CallsStartInv, StopsInv, StepInv DEF Next
<1>2. CASE UNCHANGED vars
  <2>1. \A q \in Proc : pc'[q] = pc[q] /\ call'[q] = call[q] /\ work'[q] = work[q]
    BY <1>2 DEF vars
  <2>2. /\ TypeOK' /\ RecordsInv' /\ PublishedInv' /\ ActiveInv'
    BY <1>2 DEF vars, IInv, TypeOK, RecordsInv, PublishedInv, ActiveInv,
          VerifyGeneration, HasRecord
  <2>3. CallsInv' /\ ApartInv' /\ LockExcludes'
    BY <1>2 DEF vars, IInv, CallsInv, ApartInv, LockExcludes, Holds, Busy, AtItsPoint,
          Uses, Own, OwnTxn
  <2>4. ProgressInv'
    BY <1>2, <2>1, OtherProgress DEF vars, IInv, ProgressInv
  <2>5. QED
    BY <2>2, <2>3, <2>4 DEF IInv
<1>3. QED
  BY <1>1, <1>2

-----------------------------------------------------------------------------
(* Which steps write a record or the active record.                        *)

\* Only these three kinds of steps of a process write a record, and only the
\* rename writes the active record.
LEMMA OwnWriters ==
    ASSUME NEW p \in Proc,
           \/ CallPublish(p) \/ CallRollback(p)
           \/ \E g \in Generation : CallRecover(p, g)
           \/ Step(p) \/ Crash(p) \/ StepFails(p),
           record' # record \/ active' # active
    PROVE  \/ /\ (CreateRecord(p) /\ ~Fail(p)) \/ WriteRecord(p) \/ ReplaceRecord(p)
              /\ active' = active
           \/ RenameTemp(p) /\ ~Refuse(p) /\ record' = record
<1>2. \A q \in Proc : Fail(q) \/ Refuse(q) => record' = record /\ active' = active
  BY DEF Fail, Refuse, disk
<1>3. Step(p)
  BY <1>2 DEF CallPublish, CallRollback, CallRecover, Publish, Recover,
     RollbackActiveGeneration, Begin, disk, Crash, StepFails
<1>4. ~(AcquireLock(p) \/ WriteLock(p) \/ CheckLock(p) \/ RemoveLock(p) \/ GiveUp(p)
        \/ DiscardLock(p) \/ CheckTransition(p) \/ ConfirmRecord(p))
  BY <1>2 DEF disk, AcquireLock, WriteLock, CheckLock, RemoveLock, GiveUp, DiscardLock,
     CheckTransition, ConfirmRecord
<1>5. ~(CreateDirectory(p) \/ FillDirectory(p) \/ VerifyMaterialized(p) \/ CreateTemp(p)
        \/ RereadActive(p) \/ ReadRetained(p) \/ WriteRetained(p) \/ ConfirmRetained(p))
  BY <1>2 DEF disk, CreateDirectory, FillDirectory, VerifyMaterialized, GotoTransition,
     CreateTemp, RereadActive, ReadRetained, WriteRetained, ConfirmRetained
<1>6. ~(ReadTransaction(p) \/ ReadActive(p) \/ CompleteActive(p) \/ CleanTemps(p)
        \/ CheckBoth(p) \/ RecheckBoth(p) \/ ConfirmRollback(p))
  BY <1>2 DEF disk, ReadTransaction, ReadActive, CompleteActive, GotoTransition,
     CleanTemps, CheckBoth, RecheckBoth, ConfirmRollback
<1>7. CreateRecord(p) \/ WriteRecord(p) \/ ReplaceRecord(p) \/ RenameTemp(p)
  BY <1>3, <1>4, <1>5, <1>6 DEF Step
<1>8. QED
  BY <1>2, <1>7 DEF CreateRecord, WriteRecord, ReplaceRecord, RenameTemp

\* Whichever process takes the step.
LEMMA Writers ==
    ASSUME Next, record' # record \/ active' # active
    PROVE  \E p \in Proc :
               \/ /\ (CreateRecord(p) /\ ~Fail(p)) \/ WriteRecord(p) \/ ReplaceRecord(p)
                  /\ active' = active
               \/ RenameTemp(p) /\ ~Refuse(p) /\ record' = record
BY OwnWriters DEF Next

\* The states a record is in when a call writes it, and what it becomes.
LEMMA RecordWriters ==
    ASSUME IInv, NEW p \in Proc,
           (CreateRecord(p) /\ ~Fail(p)) \/ WriteRecord(p) \/ ReplaceRecord(p)
    PROVE  /\ Busy(p) /\ OwnTxn(p) \in Txn
           /\ record' = [record EXCEPT ![OwnTxn(p)] = record'[OwnTxn(p)]]
           /\ record[OwnTxn(p)].state \notin {"Published", "Failed"}
           /\ record'[OwnTxn(p)].state = "Published" =>
                  record'[OwnTxn(p)].gen = Own(p) /\ active = Own(p)
           /\ record'[OwnTxn(p)].state = "Failed" => Unnamed(OwnTxn(p))
<1> DEFINE t == OwnTxn(p)
<1>1. Busy(p) /\ pc[p] \in {"create", "writeRecord", "replace"}
  BY DEF CreateRecord, WriteRecord, ReplaceRecord, Busy, Quiet
<1>2. call[p].op \in {"publish", "recover"} /\ t \in Txn
  BY <1>1, AtPoint DEF AtItsPoint, RollbackPoints, EndPoints
<1>3. CASE CreateRecord(p) /\ ~Fail(p)
  <2>1. record[t].state = "Absent" /\ record' = [record EXCEPT ![t].state = "Torn"]
    BY <1>3 DEF CreateRecord
  <2>2. record'[t].state = "Torn" /\ record' = [record EXCEPT ![t] = record'[t]]
    BY <1>2, <2>1 DEF IInv, TypeOK
  <2>3. QED
    BY <1>1, <1>2, <2>1, <2>2
<1>4. CASE WriteRecord(p) \/ ReplaceRecord(p)
  <2>1. record' = [record EXCEPT ![t] = [state |-> work[p].goal, gen |-> Own(p)]]
    BY <1>4 DEF WriteRecord, ReplaceRecord
  <2>2. /\ record'[t] = [state |-> work[p].goal, gen |-> Own(p)]
        /\ record' = [record EXCEPT ![t] = record'[t]]
    BY <1>2, <2>1 DEF IInv, TypeOK
  <2>3. /\ record[t].state \notin {"Published", "Failed"}
        /\ work[p].goal = "Published" => active = Own(p)
        /\ work[p].goal = "Failed" => Unnamed(t)
    <3>1. CASE WriteRecord(p)
      BY <1>1, <1>2, <3>1, AtPoint DEF WriteRecord, Progress, PublishInv, RecoverInv,
         Failing
    <3>2. CASE ReplaceRecord(p) /\ call[p].op = "publish"
      BY <1>1, <3>2, AtPoint DEF ReplaceRecord, Progress, PublishInv, Before, OwnHas,
         HasRecord, Committing
    <3>3. CASE ReplaceRecord(p) /\ call[p].op = "recover"
      BY <1>1, <3>3, AtPoint DEF ReplaceRecord, Progress, RecoverInv, Before, OwnHas,
         HasRecord, Failing
    <3>4. QED
      BY <1>2, <1>4, <3>1, <3>2, <3>3
  <2>4. QED
    BY <1>1, <1>2, <2>2, <2>3
<1>5. QED
  BY <1>3, <1>4

\* A call reports success only by removing its lock, or, a recovery, by finding
\* no lock.
LEMMA Finishers ==
    ASSUME IInv, Next, NEW p \in Proc, call[p].op \in {"publish", "rollback"},
           pc'[p] = "done"
    PROVE  RemoveLock(p) /\ lock # NoGen
<1>1. call'[p] = NoCall /\ call'[p] # call[p]
  BY NextInv DEF IInv, CallsInv, Busy, Quiet, NoCall
<1>2. PICK q \in Proc : \/ CallPublish(q) \/ CallRollback(q)
                        \/ \E g \in Generation : CallRecover(q, g)
                        \/ Step(q) \/ Crash(q) \/ StepFails(q)
  BY DEF Next
<1>3. call \in [Proc -> [op : Op, own : Generation \cup {NoGen},
                         target : Generation \cup {NoGen}]]
      /\ pc \in [Proc -> Point]
  BY DEF IInv, TypeOK
<1>4. \A how : End(q, how) => q = p /\ how = "done"
  BY <1>1, <1>3 DEF End, Goto
<1>5. ~Fail(q) /\ ~Refuse(q) /\ ~Crash(q) /\ ~StepFails(q)
  BY <1>1, <1>4 DEF Fail, Refuse, Crash, StepFails
<1>6. \A op, own, target, point : Begin(q, op, own, target, point) => op = "none"
  BY <1>1, <1>3 DEF Begin, NoCall
<1>7. Step(q)
  BY <1>2, <1>5, <1>6 DEF CallPublish, CallRollback, CallRecover, Publish, Recover,
     RollbackActiveGeneration
<1>8. ~(AcquireLock(q) \/ WriteLock(q) \/ GiveUp(q) \/ DiscardLock(q) \/ CreateRecord(q)
        \/ WriteRecord(q) \/ CheckTransition(q) \/ ReplaceRecord(q) \/ ConfirmRecord(q))
  BY <1>1, <1>4, <1>5 DEF AcquireLock, WriteLock, GiveUp, DiscardLock, CreateRecord,
     WriteRecord, CheckTransition, ReplaceRecord, ConfirmRecord
<1>9. ~(CreateDirectory(q) \/ FillDirectory(q) \/ VerifyMaterialized(q) \/ CreateTemp(q)
        \/ RenameTemp(q) \/ RereadActive(q) \/ ReadRetained(q) \/ WriteRetained(q)
        \/ ConfirmRetained(q))
  BY <1>1, <1>5 DEF CreateDirectory, FillDirectory, VerifyMaterialized, GotoTransition,
     CreateTemp, RenameTemp, RereadActive, ReadRetained, WriteRetained, ConfirmRetained
<1>10. ~(ReadTransaction(q) \/ ReadActive(q) \/ CompleteActive(q) \/ CleanTemps(q)
         \/ CheckBoth(q) \/ RecheckBoth(q) \/ ConfirmRollback(q))
  BY <1>1, <1>5 DEF ReadTransaction, ReadActive, CompleteActive, GotoTransition,
     CleanTemps, CheckBoth, RecheckBoth, ConfirmRollback
<1>11. CheckLock(q) \/ RemoveLock(q)
  BY <1>7, <1>8, <1>9, <1>10 DEF Step
<1>12. ~CheckLock(q)
  <2>1. SUFFICES ASSUME CheckLock(q) PROVE FALSE
    OBVIOUS
  <2>2. lock # Own(q)
    BY <1>1, <2>1 DEF CheckLock
  <2>3. PICK how \in Quiet : End(q, how) /\ (how = "done" => call[q].op = "recover")
    BY <2>1, <2>2 DEF CheckLock, Quiet
  <2>4. QED
    BY <1>4, <2>3
<1>13. PICK how : End(q, how) /\ how = IF lock = NoGen THEN "error" ELSE "done"
  BY <1>11, <1>12 DEF RemoveLock
<1>14. q = p /\ lock # NoGen
  BY <1>4, <1>13
<1>15. QED
  BY <1>11, <1>12, <1>14

-----------------------------------------------------------------------------
(* What follows for every number of processes, transactions and contents,  *)
(* wherever calls crash or fail, and whether or not recoveries run alone.  *)

\* The invariant holds in every reachable state: Init establishes it and every
\* file operation, call, crash and error preserves it.
THEOREM Invariant == Spec => []IInv
<1>1. Init => IInv
  BY InitInv
<1>2. IInv /\ [Next]_vars => IInv'
  BY NextInv
<1>3. QED
  BY <1>1, <1>2, PTL DEF Spec

\* Every variable and control point of the manager keeps its type.
THEOREM TypeCorrect == Spec => []TypeOK
<1>1. IInv => TypeOK
  BY DEF IInv
<1>2. QED
  BY <1>1, Invariant, PTL

\* The active record never names a generation that is not complete on disk or
\* whose record is not verified or published: overlapping calls, crashes and
\* errors included.
THEOREM ActiveComplete == Spec => []ActiveIsComplete
<1>1. IInv => ActiveIsComplete
  BY DEF IInv, ActiveInv, ActiveIsComplete, HasRecord
<1>2. QED
  BY <1>1, Invariant, PTL

\* The compare-then-remove of the project lock never lets a second call past
\* it, and the lock file always names the call that is past it.
THEOREM LockIsExclusive == Spec => []LockExcludes
<1>1. IInv => LockExcludes
  BY DEF IInv
<1>2. QED
  BY <1>1, Invariant, PTL

\* A Published or Failed record is never changed again, although transition
\* checks the record in one step and replaces it in another.
THEOREM TerminalRecordsStay == Spec => TerminalRecords
<1> DEFINE Final == \A t \in Txn :
        record[t].state \in {"Published", "Failed"} => record'[t] = record[t]
<1>1. IInv /\ [Next]_vars => [Final]_vars
  <2> SUFFICES ASSUME IInv, Next, NEW t \in Txn, record' # record,
                      record[t].state \in {"Published", "Failed"}
               PROVE  record'[t] = record[t]
    BY DEF vars
  <2>1. PICK p \in Proc : \/ CreateRecord(p) /\ ~Fail(p)
                          \/ WriteRecord(p)
                          \/ ReplaceRecord(p)
    BY Writers
  <2>2. /\ record' = [record EXCEPT ![OwnTxn(p)] = record'[OwnTxn(p)]]
        /\ t # OwnTxn(p)
    BY <2>1, RecordWriters
  <2>3. QED
    BY <2>2 DEF IInv, TypeOK
<1>2. QED
  BY <1>1, Invariant, PTL DEF Spec, TerminalRecords

\* A publication or rollback that reports success leaves its target active,
\* published and the lock gone, whatever ran since its rename.
THEOREM SuccessMeansActive == Spec => SuccessIsActive
<1> DEFINE Good == \A p \in Proc :
        (call[p].op \in {"publish", "rollback"} /\ pc'[p] = "done") =>
            /\ active' = call[p].target
            /\ HasRecord(call[p].target, {"Published"})
            /\ lock' = NoGen
<1>1. IInv /\ [Next]_vars => [Good]_vars
  <2> SUFFICES ASSUME IInv, Next, NEW p \in Proc,
                      call[p].op \in {"publish", "rollback"}, pc'[p] = "done"
               PROVE  /\ active' = call[p].target
                      /\ HasRecord(call[p].target, {"Published"})
                      /\ lock' = NoGen
    OBVIOUS
  <2>1. pc[p] = "unlink" /\ Busy(p) /\ lock' = NoGen /\ active' = active
    BY Finishers DEF RemoveLock, Busy, Quiet
  <2>2. CASE call[p].op = "publish"
    BY <2>1, <2>2, AtPoint DEF Progress, PublishInv, Committing, OwnHas, IInv, CallsInv,
       Own
  <2>3. CASE call[p].op = "rollback"
    BY <2>1, <2>3, AtPoint DEF Progress, RollbackInv, VerifyPublishedGeneration
  <2>4. QED
    BY <2>1, <2>2, <2>3
<1>2. QED
  BY <1>1, Invariant, PTL DEF Spec, SuccessIsActive

-----------------------------------------------------------------------------
(* The manager implements ActiveGeneration.                                *)

\* A write of a record aborts its transaction or changes nothing that
\* ActiveGeneration sees.
LEMMA RecordStepRefines ==
    ASSUME IInv, NEW p \in Proc,
           (CreateRecord(p) /\ ~Fail(p)) \/ WriteRecord(p) \/ ReplaceRecord(p),
           active' = active
    PROVE  Promise!Next \/ UNCHANGED <<active, Committed, Aborted>>
<1> DEFINE t == OwnTxn(p)
<1>1. /\ t \in Txn
      /\ record' = [record EXCEPT ![t] = record'[t]]
      /\ record[t].state \notin {"Published", "Failed"}
      /\ record'[t].state = "Published" => record'[t].gen = Own(p) /\ active = Own(p)
      /\ record'[t].state = "Failed" => Unnamed(t)
  BY RecordWriters
<1>2. record \in [Txn -> [state : RecordState \cup {"Absent", "Torn"},
                          gen : Generation \cup {NoGen}]]
  BY DEF IInv, TypeOK
<1>3. \A u \in Txn \ {t} : record'[u] = record[u]
  BY <1>1, <1>2
<1>4. Committed' = Committed
  <2>1. ASSUME NEW g \in Generation
        PROVE  HasRecord(g, {"Published"})' \/ active' = g
                 <=> HasRecord(g, {"Published"}) \/ active = g
    <3>1. g.txn \in Txn
      BY DEF Generation
    <3>2. CASE g.txn = t
      BY <1>1, <3>2 DEF HasRecord
    <3>3. CASE g.txn # t
      BY <1>3, <3>1, <3>3 DEF HasRecord
    <3>4. QED
      BY <3>2, <3>3
  <2>2. QED
    BY <2>1 DEF Committed
<1>5. CASE record'[t].state = "Failed"
  <2>1. Aborted' = Aborted \cup {t} /\ t \notin Aborted
    BY <1>1, <1>2, <1>3, <1>5 DEF Aborted
  <2>2. \A g \in Committed : g.txn # t
    BY <1>1, <1>5 DEF Committed, HasRecord, Unnamed, IInv, ActiveInv
  <2>3. Promise!Abort(t)
    BY <1>4, <2>1, <2>2 DEF Promise!Abort, Promise!Open
  <2>4. QED
    BY <1>1, <2>3 DEF Promise!Next
<1>6. CASE record'[t].state # "Failed"
  <2>1. Aborted' = Aborted
    BY <1>1, <1>2, <1>3, <1>6 DEF Aborted
  <2>2. QED
    BY <1>4, <2>1
<1>7. QED
  BY <1>5, <1>6

\* The rename commits the transaction of a publication, or restores the
\* committed generation a rollback asked for.
LEMMA RenameRefines ==
    ASSUME IInv, NEW p \in Proc, RenameTemp(p), ~Refuse(p), record' = record
    PROVE  Promise!Next \/ UNCHANGED <<active, Committed, Aborted>>
<1> DEFINE g == call[p].target
<1>1. /\ Busy(p) /\ pc[p] = "rename" /\ Holds(p) /\ active' = g
  BY DEF RenameTemp, Busy, Quiet, Holds, LockedPoints
<1>2. /\ g \in Generation /\ lock = Own(p) /\ call[p].op \in {"publish", "rollback"}
      /\ call[p].op = "publish" => g = Own(p)
  BY <1>1, AtPoint DEF AtItsPoint, RecoverCallPoints, RecoverPoints, SharedPoints, IInv,
     CallsInv, Own
<1>3. Aborted' = Aborted
  BY DEF Aborted
<1>4. \A h \in Generation : HasRecord(h, {"Published"})' <=> HasRecord(h, {"Published"})
  BY DEF HasRecord
<1>5. CASE active = g
  BY <1>1, <1>3, <1>4, <1>5 DEF Committed
<1>6. CASE active # g /\ call[p].op = "publish"
  <2>1. HasRecord(g, {"Verified"})
    BY <1>1, <1>2, <1>6, AtPoint DEF Progress, PublishInv, OwnHas
  <2>2. active # NoGen => HasRecord(active, {"Published"}) /\ active \in Generation
    BY <1>2, <1>6 DEF IInv, ActiveInv
  <2>3. Committed' = Committed \cup {g}
    BY <1>1, <1>2, <1>4, <2>2 DEF Committed, IInv, TypeOK
  <2>4. g.txn \notin Aborted /\ \A h \in Committed : h.txn # g.txn
    BY <2>1, <2>2 DEF Committed, Aborted, HasRecord
  <2>5. Promise!Commit(g)
    BY <1>1, <1>3, <2>3, <2>4 DEF Promise!Commit, Promise!Open
  <2>6. QED
    BY <1>2, <2>5 DEF Promise!Next, Promise!Generation, Generation
<1>7. CASE active # g /\ call[p].op = "rollback"
  <2>1. HasRecord(g, {"Published"}) /\ HasRecord(Own(p), {"Published"})
    BY <1>1, <1>7, AtPoint DEF Progress, RollbackInv, OwnHas, VerifyPublishedGeneration
  <2>2. active # NoGen => HasRecord(active, {"Published"})
    BY <1>2, <2>1 DEF IInv, ActiveInv
  <2>3. Committed' = Committed /\ g \in Committed
    BY <1>1, <1>2, <1>4, <2>1, <2>2 DEF Committed
  <2>4. Promise!Restore(g)
    BY <1>1, <1>3, <2>3 DEF Promise!Restore
  <2>5. QED
    BY <1>2, <2>4 DEF Promise!Next, Promise!Generation, Generation
<1>8. QED
  BY <1>2, <1>5, <1>6, <1>7

\* Every file operation of every call commits a transaction, aborts one,
\* restores a committed generation or changes nothing that counts: a
\* transaction can never be both active and failed, nor become active twice.
THEOREM ManagerKeepsPromise == Spec => KeepsPromise
<1>1. Init => Promise!Init
  BY DEF Init, Promise!Init, Committed, Aborted, HasRecord, Generation
<1>2. IInv /\ [Next]_vars => [Promise!Next]_(Promise!promiseVars)
  <2> SUFFICES ASSUME IInv, [Next]_vars
               PROVE  Promise!Next \/ UNCHANGED <<active, Committed, Aborted>>
    BY DEF Promise!promiseVars
  <2>1. CASE record' = record /\ active' = active
    BY <2>1 DEF Committed, Aborted, HasRecord
  <2>2. CASE record' # record \/ active' # active
    <3>1. Next
      BY <2>2 DEF vars
    <3>2. QED
      BY <2>2, <3>1, Writers, RecordStepRefines, RenameRefines
  <2>3. QED
    BY <2>1, <2>2
<1>3. QED
  BY <1>1, <1>2, Invariant, PTL DEF Spec, KeepsPromise, Promise!Spec

-----------------------------------------------------------------------------
(* The manager as its callers use it: no other call overlaps a recovery    *)
(* (RecoverAlone).  A recovery then settles its transaction, and           *)
(* retained.record has the edges of every published generation.            *)

\* The invariant holds before any call.
LEMMA AInitInv == Init => AInv
BY DEF Init, AInv, AloneInv, Busy, Quiet, Knows, Settling, Retaining, HasEdges, EdgesInv,
   NoCall, Holds, LockedPoints, SharedPoints

-----------------------------------------------------------------------------
(* What a step of one call changes of the memory of the calls.             *)

OnlyOf(p) ==
    /\ \A q \in Proc \ {p} : pc'[q] = pc[q] /\ call'[q] = call[q] /\ work'[q] = work[q]
    /\ \/ call'[p] = call[p]
       \/ call'[p] = NoCall /\ pc'[p] \in Quiet

\* A call that ends changes its own memory only.
LEMMA EndIsOwn ==
    ASSUME IInv, NEW p \in Proc, NEW how \in Quiet, End(p, how)
    PROVE  OnlyOf(p)
BY DEF IInv, TypeOK, End, Goto, OnlyOf

\* A call that goes on changes its own memory only.
LEMMA GotoIsOwn ==
    ASSUME IInv, NEW p \in Proc, NEW point, Goto(p, point), call' = call,
           \/ work' = work
           \/ \E w : work' = [work EXCEPT ![p] = w]
    PROVE  OnlyOf(p) /\ pc'[p] = point
BY DEF IInv, TypeOK, Goto, OnlyOf

\* What the other calls know is not lost: nobody else runs beside a recovery,
\* and a rollback that holds the lock is beside no write of a record.
LEMMA OthersKnow ==
    ASSUME IInv, AInv, NEW p \in Proc, Busy(p), OnlyOf(p),
           retained \subseteq retained',
           retained' # retained => pc[p] = "writeRetained",
           record' # record => pc[p] \in {"create", "writeRecord", "replace"},
           NEW q \in Proc, q # p
    PROVE  Knows(q)'
<1>1. Knows(q) /\ pc'[q] = pc[q] /\ call'[q] = call[q] /\ work'[q] = work[q]
  BY DEF AInv, OnlyOf
<1>2. CASE ~Busy(q)
  BY <1>1, <1>2 DEF IInv, CallsInv, NoCall, Knows, Retaining, Busy, Quiet
<1>3. CASE Busy(q)
  <2>1. call[q].op # "recover" /\ call[p].op # "recover"
    BY <1>3 DEF AInv, AloneInv
  <2>2. Holds(q) /\ Holds(p) => FALSE
    BY DEF IInv, LockExcludes
  <2>3. record' # record \/ retained' # retained => Holds(p)
    BY <2>1 DEF Holds, SharedPoints
  <2>4. pc[q] = "writeRetained" => Holds(q)
    BY <2>1 DEF Holds, SharedPoints
  <2>5. Holds(q)' <=> Holds(q)
    BY <1>1 DEF Holds
  <2>6. Retaining(q)'
    <3>1. Holds(q) => \A t \in Txn : HasEdges(t) => HasEdges(t)'
      BY <2>2, <2>3 DEF HasEdges
    <3>2. QED
      BY <1>1, <2>1, <2>2, <2>3, <2>4, <2>5, <3>1 DEF Knows, Retaining, Own
  <2>7. QED
    BY <1>1, <2>1, <2>6 DEF Knows
<1>4. QED
  BY <1>2, <1>3

\* No call begins in a step of a call.
LEMMA StaysAlone ==
    ASSUME AInv, NEW p \in Proc, Busy(p), OnlyOf(p)
    PROVE  AloneInv'
BY DEF AInv, AloneInv, OnlyOf, Busy, Quiet

\* A call that ends keeps the invariant, if the lock it may remove is not the
\* only trace of a generation without its edges.
LEMMA EndsAlone ==
    ASSUME IInv, AInv, NEW p \in Proc, Busy(p), NEW how \in Quiet, End(p, how),
           UNCHANGED <<record, active, retained>>,
           \/ lock' = lock
           \/ lock' = NoGen /\ \A t \in Txn : lock = record[t].gen => HasEdges(t)
    PROVE  AInv'
<1>1. OnlyOf(p) /\ call'[p] = NoCall /\ pc'[p] \in Quiet
  BY EndIsOwn DEF End, Goto, IInv, TypeOK
<1>2. Knows(p)'
  BY <1>1 DEF Knows, Retaining, NoCall, Quiet
<1>3. EdgesInv'
  BY DEF AInv, EdgesInv, HasEdges
<1>4. QED
  BY <1>1, <1>2, <1>3, OthersKnow, StaysAlone DEF AInv

\* An error keeps it.
LEMMA FailAlone ==
    ASSUME IInv, AInv, NEW p \in Proc, Busy(p), Fail(p)
    PROVE  AInv'
BY EndsAlone DEF Fail, Quiet

\* A call that goes on without writing anything but its temporary files.
LEMMA GoesOnAlone ==
    ASSUME IInv, AInv, NEW p \in Proc, Busy(p), NEW point, Goto(p, point),
           UNCHANGED <<lock, record, active, retained, call>>,
           \/ work' = work
           \/ \E w : work' = [work EXCEPT ![p] = w],
           Knows(p)'
    PROVE  AInv'
<1>1. OnlyOf(p)
  BY GotoIsOwn
<1>2. EdgesInv'
  BY DEF AInv, EdgesInv, HasEdges
<1>3. QED
  BY <1>1, <1>2, OthersKnow, StaysAlone DEF AInv

\* A rollback that is refused still holds the lock, and goes on to drop it.
LEMMA RefuseAlone ==
    ASSUME IInv, AInv, NEW p \in Proc, Refuse(p), pc[p] \in LockedPoints
    PROVE  AInv'
<1>1. Busy(p) /\ Holds(p)
  BY DEF Busy, Quiet, LockedPoints, Holds
<1>2. CASE call[p].op = "rollback"
  <2>1. Goto(p, "giveUp") /\ UNCHANGED <<disk, call, work>>
    BY <1>2 DEF Refuse
  <2>2. pc'[p] = "giveUp" /\ call'[p] = call[p]
    BY <2>1, GotoIsOwn
  <2>3. Knows(p)'
    BY <1>1, <1>2, <2>1, <2>2 DEF AInv, Knows, Retaining, HasEdges, disk
  <2>4. QED
    BY <1>1, <2>1, <2>3, GoesOnAlone DEF disk
<1>3. CASE call[p].op # "rollback"
  BY <1>1, <1>3, FailAlone DEF Refuse
<1>4. QED
  BY <1>2, <1>3

-----------------------------------------------------------------------------
(* The project lock.                                                       *)

\* An unlocked project has the edges of all its published generations.
LEMMA UnlockedHasEdges ==
    ASSUME IInv, AInv, lock \in {NoGen, TornGen}
    PROVE  \A t \in Txn : HasEdges(t)
BY DEF IInv, RecordsInv, RecordState, AInv, EdgesInv, HasEdges

\* A call that takes the lock, or writes its bytes, keeps the invariant.
LEMMA LocksAlone ==
    ASSUME IInv, AInv, NEW p \in Proc, AcquireLock(p) \/ WriteLock(p)
    PROVE  AInv'
<1>1. Busy(p) /\ pc[p] \in {"acquire", "writeLock"} /\ call[p].op # "recover"
  <2>1. Busy(p) /\ pc[p] \in {"acquire", "writeLock"}
    BY DEF AcquireLock, WriteLock, Busy, Quiet
  <2>2. QED
    BY <2>1, AtPoint DEF AtItsPoint, RecoverCallPoints, RecoverPoints, SharedPoints
<1>2. CASE Fail(p)
  BY <1>1, <1>2, FailAlone
<1>3. CASE ~Fail(p)
  <2>1. PICK point \in {"writeLock", "recheck", "create"} :
          /\ Goto(p, point)
          /\ UNCHANGED <<record, dir, active, temps, retained, call>>
          /\ work' = work \/ \E w : work' = [work EXCEPT ![p] = w]
    BY <1>3 DEF AcquireLock, WriteLock
  <2>2. OnlyOf(p) /\ pc'[p] = point /\ call'[p] = call[p]
    BY <2>1, GotoIsOwn
  <2>3. lock \in {NoGen, TornGen}
    <3>1. pc[p] = "writeLock" => Holds(p)
      BY DEF Holds
    <3>2. QED
      BY <1>1, <1>3, <3>1 DEF AcquireLock, IInv, LockExcludes, WriteLock
  <2>4. \A t \in Txn : HasEdges(t)'
    BY <2>1, <2>3, UnlockedHasEdges DEF HasEdges
  <2>5. Knows(p)'
    BY <1>1, <2>2, <2>4 DEF Knows, Retaining
  <2>6. QED
    BY <1>1, <2>1, <2>2, <2>4, <2>5, OthersKnow, StaysAlone DEF AInv, EdgesInv
<1>4. QED
  BY <1>2, <1>3

\* What a call knows about the edges of its generation when it releases the lock.
LEMMA LockIsNoTrace ==
    ASSUME IInv, AInv, NEW p \in Proc, Busy(p),
           \/ pc[p] = "unlink"
           \/ pc[p] = "discard",
           NEW t \in Txn, lock = record[t].gen
    PROVE  HasEdges(t)
<1>1. Knows(p) /\ AtItsPoint(p) /\ Own(p) \in Generation /\ OwnTxn(p) = Own(p).txn
  BY AtPoint DEF AInv
<1>2. pc[p] = "discard" => call[p].op = "rollback"
  BY <1>1 DEF AtItsPoint, PublishPoints, RecoverCallPoints, RecoverPoints, SharedPoints
<1>3. call[p].op # "recover" => Holds(p)
  BY DEF Holds
<1>4. lock = Own(p)
  BY <1>1, <1>2, <1>3, AtPoint DEF Knows, Settling, AtItsPoint
<1>5. record[t].state = "Published" => t = OwnTxn(p)
  BY <1>1, <1>4 DEF IInv, RecordsInv, RecordState
<1>6. CASE call[p].op = "rollback"
  BY <1>1, <1>3, <1>6 DEF Knows, Retaining
<1>7. CASE call[p].op = "publish"
  BY <1>1, <1>2, <1>4, <1>7 DEF Knows, Retaining, HasEdges
<1>8. CASE call[p].op = "recover"
  BY <1>1, <1>2, <1>5, <1>8 DEF Knows, Retaining, HasEdges
<1>9. QED
  BY <1>1, <1>6, <1>7, <1>8 DEF AtItsPoint

\* Releasing the lock keeps the invariant.
LEMMA UnlocksAlone ==
    ASSUME IInv, AInv, NEW p \in Proc,
           CheckLock(p) \/ RemoveLock(p) \/ GiveUp(p) \/ DiscardLock(p)
    PROVE  AInv'
<1>1. Busy(p) /\ pc[p] \in {"unlock", "unlink", "giveUp", "discard"}
  BY DEF CheckLock, RemoveLock, GiveUp, DiscardLock, Busy, Quiet
<1>2. CASE RemoveLock(p) \/ DiscardLock(p)
  <2>1. PICK how \in Quiet : End(p, how)
    BY <1>2 DEF RemoveLock, DiscardLock, Quiet
  <2>2. QED
    BY <1>1, <1>2, <2>1, LockIsNoTrace, EndsAlone DEF RemoveLock, DiscardLock
<1>3. CASE (CheckLock(p) \/ GiveUp(p)) /\ lock # Own(p)
  <2>1. PICK how \in Quiet : End(p, how)
    BY <1>3 DEF CheckLock, GiveUp, Fail, Quiet
  <2>2. QED
    BY <1>1, <1>3, <2>1, EndsAlone DEF CheckLock, GiveUp, Fail
<1>4. CASE CheckLock(p) /\ lock = Own(p)
  <2>1. Goto(p, "unlink") /\ UNCHANGED <<disk, call, work>> /\ pc[p] = "unlock"
    BY <1>4 DEF CheckLock
  <2>2. pc'[p] = "unlink" /\ call' = call
    BY <2>1, GotoIsOwn
  <2>3. call[p].op = "rollback" => Holds(p)
    BY <2>1 DEF Holds
  <2>4. Knows(p)'
    BY <1>4, <2>1, <2>2, <2>3 DEF AInv, Knows, Settling, Retaining, HasEdges, Own, OwnTxn,
       disk
  <2>5. QED
    BY <1>1, <2>1, <2>4, GoesOnAlone DEF disk
<1>5. CASE GiveUp(p) /\ lock = Own(p)
  <2>1. Goto(p, "discard") /\ UNCHANGED <<disk, call, work>> /\ pc[p] = "giveUp"
    BY <1>5 DEF GiveUp
  <2>2. pc'[p] = "discard" /\ call' = call
    BY <2>1, GotoIsOwn
  <2>3. Holds(p)
    BY <2>1 DEF Holds
  <2>4. Knows(p)'
    BY <2>1, <2>2, <2>3 DEF AInv, Knows, Settling, Retaining, HasEdges, disk
  <2>5. QED
    BY <1>1, <2>1, <2>4, GoesOnAlone DEF disk
<1>6. QED
  BY <1>2, <1>3, <1>4, <1>5

-----------------------------------------------------------------------------
(* Steps that neither read nor write what the invariant is about.          *)

\* A call that goes on to a point about which the invariant says nothing new.
LEMMA PlainAlone ==
    ASSUME IInv, AInv, NEW p \in Proc, Busy(p),
           NEW point \in Point \ {"writeRetained", "confirmRetained", "unlink"},
           Goto(p, point),
           UNCHANGED <<lock, record, active, retained, call>>,
           \/ work' = work
           \/ \E w : work' = [work EXCEPT ![p] = w],
           point \in {"confirmRecord", "verifyActive", "readRetained", "unlock"} => call[p].op = "rollback",
           Holds(p)' => Holds(p) \/ call[p].op # "rollback"
    PROVE  AInv'
<1>1. OnlyOf(p) /\ pc'[p] = point /\ call'[p] = call[p]
  BY GotoIsOwn
<1>2. Knows(p)'
  BY <1>1 DEF AInv, Knows, Settling, Retaining, HasEdges
<1>3. QED
  BY <1>2, GoesOnAlone

\* The steps of a publication before its record is published.
LEMMA PublishingAlone ==
    ASSUME IInv, AInv, NEW p \in Proc,
           CheckTransition(p) \/ CreateDirectory(p) \/ FillDirectory(p)
               \/ VerifyMaterialized(p) \/ CreateTemp(p)
    PROVE  AInv'
<1>1. Busy(p) /\ pc[p] \in {"transition", "mkdir", "fill", "verify", "temp"}
  BY DEF CheckTransition, CreateDirectory, FillDirectory, VerifyMaterialized, CreateTemp,
     Busy, Quiet
<1>2. CASE Fail(p)
  BY <1>1, <1>2, FailAlone
<1>3. CASE ~Fail(p)
  <2>1. PICK point \in {"replace", "fill", "transition", "rename"} :
          /\ Goto(p, point)
          /\ UNCHANGED <<lock, record, active, retained, call>>
          /\ work' = work \/ \E w : work' = [work EXCEPT ![p] = w]
    BY <1>3 DEF CheckTransition, CreateDirectory, FillDirectory, VerifyMaterialized,
       CreateTemp, GotoTransition, disk
  <2>2. Holds(p)' => Holds(p) \/ call[p].op # "rollback"
    BY <1>1, <2>1, GotoIsOwn DEF Holds, LockedPoints, SharedPoints
  <2>3. point \in Point
    BY DEF Point, LockedPoints, SharedPoints
  <2>4. QED
    BY <1>1, <2>1, <2>2, <2>3, PlainAlone
<1>4. QED
  BY <1>2, <1>3

\* The checks of a rollback.
LEMMA RollbackAlone ==
    ASSUME IInv, AInv, NEW p \in Proc,
           CheckBoth(p) \/ RecheckBoth(p) \/ ConfirmRollback(p) \/ RereadActive(p)
    PROVE  AInv'
<1>1. Busy(p) /\ pc[p] \in {"checkBoth", "recheck", "confirmActive", "reread"}
  BY DEF CheckBoth, RecheckBoth, ConfirmRollback, RereadActive, Busy, Quiet
<1>2. CASE Fail(p)
  BY <1>1, <1>2, FailAlone
<1>3. CASE Refuse(p) /\ pc[p] # "checkBoth"
  BY <1>1, <1>3, RefuseAlone DEF LockedPoints
<1>4. CASE ~Fail(p) /\ (Refuse(p) => pc[p] = "checkBoth")
  <2>1. PICK point \in {"acquire", "temp", "unlock", "confirmActive", "transition"} :
          /\ Goto(p, point)
          /\ UNCHANGED <<lock, record, active, retained, call>>
          /\ work' = work \/ \E w : work' = [work EXCEPT ![p] = w]
          /\ pc[p] = "checkBoth" => point = "acquire"
          /\ point = "unlock" => pc[p] = "confirmActive"
    BY <1>4 DEF CheckBoth, RecheckBoth, ConfirmRollback, RereadActive, GotoTransition, disk
  <2>2. pc[p] # "checkBoth" => Holds(p)
    BY <1>1 DEF Holds, LockedPoints
  <2>3. ~Holds(p)' \/ point # "acquire"
    BY <2>1, GotoIsOwn DEF Holds, LockedPoints, SharedPoints
  <2>4. pc[p] = "confirmActive" => call[p].op = "rollback"
    BY <1>1, AtPoint DEF AtItsPoint, PublishPoints, RecoverCallPoints, RecoverPoints,
       SharedPoints
  <2>5. point \in Point
    BY DEF Point, LockedPoints, SharedPoints, EndPoints
  <2>6. QED
    BY <1>1, <2>1, <2>2, <2>3, <2>4, <2>5, PlainAlone
<1>5. QED
  BY <1>2, <1>3, <1>4

-----------------------------------------------------------------------------
(* Records, the active record and retained.record.                         *)

\* A write of a record leaves no published generation without its edges: the
\* one it publishes is still locked.
LEMMA RecordsAlone ==
    ASSUME IInv, AInv, NEW p \in Proc,
           CreateRecord(p) \/ WriteRecord(p) \/ ReplaceRecord(p)
    PROVE  AInv'
<1>1. Busy(p) /\ pc[p] \in {"create", "writeRecord", "replace"}
  BY DEF CreateRecord, WriteRecord, ReplaceRecord, Busy, Quiet
<1>2. CASE Fail(p)
  BY <1>1, <1>2, FailAlone
<1>3. CASE ~Fail(p)
  <2> DEFINE t == OwnTxn(p)
  <2>1. /\ t \in Txn /\ Own(p) \in Generation
        /\ record' = [record EXCEPT ![t] = record'[t]]
        /\ record'[t].state = "Published" => record'[t].gen = Own(p) /\ active = Own(p)
    BY <1>1, <1>3, AtPoint, RecordWriters
  <2>2. call[p].op \in {"publish", "recover"}
    BY <1>1, AtPoint DEF AtItsPoint, RollbackPoints, EndPoints
  <2>3. pc[p] = "writeRecord" => work[p].goal \in {"Preparing", "Failed"}
    BY <1>1, <2>2, AtPoint DEF Progress, PublishInv, RecoverInv
  <2>4. PICK point \in {"writeRecord", "mkdir", "cleanTemps", "confirmRecord"} :
          /\ Goto(p, point)
          /\ UNCHANGED <<lock, active, retained, call, work>>
          /\ point = "confirmRecord" => ReplaceRecord(p)
    BY <1>3, <2>3 DEF CreateRecord, WriteRecord, ReplaceRecord, AfterRecord
  <2>5. OnlyOf(p) /\ pc'[p] = point /\ call'[p] = call[p]
    BY <2>4, GotoIsOwn
  <2>6. Knows(p)'
    <3>1. point = "confirmRecord" /\ work[p].goal = "Published" => active = Own(p)
      BY <1>1, <2>1, <2>4 DEF ReplaceRecord, IInv, TypeOK
    <3>2. QED
      BY <2>2, <2>4, <2>5, <3>1 DEF Knows, Settling, Retaining, Own
  <2>7. record'[t].state = "Published" => lock = Own(p)
    <3>1. SUFFICES ASSUME record'[t].state = "Published" PROVE lock = Own(p)
      OBVIOUS
    <3>2. record[t].state # "Published"
      BY <1>1, <1>3, RecordWriters
    <3>3. QED
      BY <2>1, <3>1, <3>2, AtPoint, <1>1 DEF IInv, ActiveInv, HasRecord
  <2>8. EdgesInv'
    BY <2>1, <2>4, <2>7 DEF AInv, EdgesInv, HasEdges, IInv, TypeOK
  <2>9. QED
    BY <1>1, <2>4, <2>5, <2>6, <2>8, OthersKnow, StaysAlone DEF AInv
<1>4. QED
  BY <1>2, <1>3

\* A recovery goes on to the edges only of the generation that is active.
LEMMA ConfirmRecordAlone ==
    ASSUME IInv, AInv, NEW p \in Proc, ConfirmRecord(p)
    PROVE  AInv'
<1>1. Busy(p) /\ pc[p] = "confirmRecord"
  BY DEF ConfirmRecord, Busy, Quiet
<1>2. CASE Fail(p)
  BY <1>1, <1>2, FailAlone
<1>3. CASE ~Fail(p)
  <2> DEFINE point == AfterRecord(work[p].goal)
  <2>1. /\ Goto(p, point) /\ UNCHANGED <<disk, call, work>>
        /\ HasRecord(Own(p), {work[p].goal})
    BY <1>3 DEF ConfirmRecord
  <2>2. /\ call[p].op \in {"publish", "recover"}
        /\ work[p].goal \in {"Materialized", "Verified", "Published", "Failed"}
        /\ call[p].op = "publish" => work[p].goal # "Failed"
        /\ call[p].op = "recover" => work[p].goal \in {"Published", "Failed"}
    BY <1>1, AtPoint DEF AtItsPoint, RollbackPoints, EndPoints, Progress, PublishInv, RecoverInv
  <2>3. OnlyOf(p) /\ pc'[p] = point /\ call'[p] = call[p]
    BY <2>1, GotoIsOwn
  <2>4. CASE call[p].op = "recover" /\ point = "readRetained"
    <3>1. work[p].goal = "Published" /\ active = Own(p)
      BY <1>1, <2>2, <2>4 DEF AfterRecord, AInv, Knows, Settling
    <3>2. QED
      BY <1>1, <2>1, <2>3, <2>4, <3>1, GoesOnAlone DEF Knows, Settling, Retaining, disk, Own
  <2>5. CASE ~(call[p].op = "recover" /\ point = "readRetained")
    <3>1. Knows(p)'
      BY <2>2, <2>3, <2>5 DEF Knows, Settling, Retaining, AfterRecord
    <3>2. QED
      BY <1>1, <2>1, <3>1, GoesOnAlone DEF disk
  <2>6. QED
    BY <2>4, <2>5
<1>4. QED
  BY <1>2, <1>3

\* The commit point.
LEMMA RenameAlone ==
    ASSUME IInv, AInv, NEW p \in Proc, RenameTemp(p)
    PROVE  AInv'
<1>1. Busy(p) /\ pc[p] = "rename" /\ pc[p] \in LockedPoints /\ Holds(p)
  BY DEF RenameTemp, Busy, Quiet, LockedPoints, Holds
<1>2. CASE Refuse(p)
  BY <1>1, <1>2, RefuseAlone
<1>3. CASE ~Refuse(p)
  <2>1. Goto(p, "reread") /\ UNCHANGED <<lock, record, dir, retained, call, work>>
    BY <1>3 DEF RenameTemp
  <2>2. OnlyOf(p) /\ pc'[p] = "reread" /\ call'[p] = call[p]
    BY <2>1, GotoIsOwn
  <2>3. call[p].op # "recover"
    BY <1>1, AtPoint DEF AtItsPoint, RecoverCallPoints, RecoverPoints, SharedPoints
  <2>4. Knows(p)' /\ EdgesInv'
    BY <1>1, <2>1, <2>2, <2>3 DEF AInv, Knows, Retaining, HasEdges, EdgesInv
  <2>5. QED
    BY <1>1, <2>1, <2>2, <2>4, OthersKnow, StaysAlone DEF AInv
<1>4. QED
  BY <1>2, <1>3

\* Edges are only added: what is read is still there when it is replaced.
LEMMA RetainedAlone ==
    ASSUME IInv, AInv, NEW p \in Proc,
           ReadRetained(p) \/ WriteRetained(p) \/ ConfirmRetained(p)
    PROVE  AInv'
<1>1. /\ Busy(p) /\ pc[p] \in {"readRetained", "writeRetained", "confirmRetained"}
      /\ Knows(p) /\ Own(p) \in Generation /\ OwnTxn(p) = Own(p).txn
  BY AtPoint DEF ReadRetained, WriteRetained, ConfirmRetained, Busy, Quiet, AInv
<1>2. call[p].op \in {"publish", "recover"}
  BY <1>1, AtPoint DEF AtItsPoint, RollbackPoints, EndPoints
<1>3. CASE ReadRetained(p)
  <2>1. /\ Goto(p, "writeRetained") /\ UNCHANGED <<disk, call>>
        /\ work' = [work EXCEPT ![p].seen = retained] /\ pc[p] = "readRetained"
    BY <1>3 DEF ReadRetained
  <2>2. /\ pc'[p] = "writeRetained" /\ call'[p] = call[p]
        /\ work' = [work EXCEPT ![p] = work'[p]] /\ work'[p].seen = retained
    BY <1>1, <2>1, AtPoint DEF Goto, IInv, TypeOK, Work
  <2>3. Knows(p)'
    BY <1>1, <1>2, <2>1, <2>2 DEF Knows, Settling, Retaining, Own, disk
  <2>4. QED
    BY <1>1, <2>1, <2>2, <2>3, GoesOnAlone DEF disk
<1>4. CASE WriteRetained(p)
  <2>1. /\ Goto(p, "confirmRetained") /\ UNCHANGED <<lock, record, active, call, work>>
        /\ retained' = work[p].seen \cup {Own(p)} /\ pc[p] = "writeRetained"
    BY <1>4 DEF WriteRetained
  <2>2. OnlyOf(p) /\ pc'[p] = "confirmRetained" /\ call'[p] = call[p]
    BY <2>1, GotoIsOwn
  <2>3. retained' = retained \cup {Own(p)}
    BY <1>1, <2>1 DEF Knows, Retaining
  <2>4. Knows(p)' /\ EdgesInv'
    BY <1>1, <1>2, <2>1, <2>2, <2>3 DEF AInv, Knows, Settling, Retaining, EdgesInv, HasEdges,
       Own
  <2>5. QED
    BY <1>1, <2>1, <2>2, <2>3, <2>4, OthersKnow, StaysAlone DEF AInv
<1>5. CASE ConfirmRetained(p) /\ Fail(p)
  BY <1>1, <1>5, FailAlone
<1>6. CASE ConfirmRetained(p) /\ ~Fail(p)
  <2>1. Goto(p, "unlock") /\ UNCHANGED <<disk, call, work>> /\ pc[p] = "confirmRetained"
    BY <1>6 DEF ConfirmRetained
  <2>2. pc'[p] = "unlock" /\ call'[p] = call[p]
    BY <2>1, GotoIsOwn
  <2>3. call[p].op = "recover" => HasEdges(OwnTxn(p))
    BY <1>1, <2>1 DEF Knows, Settling, Retaining, HasEdges, IInv, ActiveInv, HasRecord
  <2>4. Knows(p)'
    BY <1>1, <1>2, <2>1, <2>2, <2>3 DEF Knows, Settling, Retaining, HasEdges, Own, OwnTxn,
       disk
  <2>5. QED
    BY <1>1, <2>1, <2>4, GoesOnAlone DEF disk
<1>7. QED
  BY <1>3, <1>4, <1>5, <1>6

\* The steps of a recovery: it goes on to the edges only of what is active, and
\* to the end only when nothing is left to be renamed.
LEMMA RecoveringAlone ==
    ASSUME IInv, AInv, NEW p \in Proc,
           ReadTransaction(p) \/ ReadActive(p) \/ CompleteActive(p) \/ CleanTemps(p)
    PROVE  AInv'
<1>1. /\ Busy(p) /\ call[p].op = "recover" /\ Knows(p) /\ Own(p) \in Generation
      /\ OwnTxn(p) = Own(p).txn
  <2>1. pc[p] \in RecoverPoints
    BY DEF ReadTransaction, ReadActive, CompleteActive, CleanTemps, RecoverPoints
  <2>2. QED
    BY <2>1, RecoverPoint, AtPoint DEF AInv
<1>2. CASE Fail(p)
  BY <1>1, <1>2, FailAlone
<1>3. CASE ~Fail(p) /\ ~CleanTemps(p)
  <2>1. PICK point \in {"readActive", "verifyActive", "cleanTemps", "create", "transition",
                        "readRetained"} :
          /\ Goto(p, point)
          /\ UNCHANGED <<lock, record, active, retained, call>>
          /\ work' = work \/ \E w : work' = [work EXCEPT ![p] = w]
          /\ point = "verifyActive" => active = Own(p)
          /\ point = "readRetained" => pc[p] = "verifyActive"
    BY <1>3 DEF ReadTransaction, ReadActive, CompleteActive, GotoTransition, disk
  <2>2. pc'[p] = point /\ call'[p] = call[p]
    BY <2>1, GotoIsOwn
  <2>3. Knows(p)'
    BY <1>1, <2>1, <2>2 DEF Knows, Settling, Retaining, Own
  <2>4. QED
    BY <1>1, <2>1, <2>3, GoesOnAlone
<1>4. CASE CleanTemps(p)
  <2>1. /\ Goto(p, "unlock") /\ UNCHANGED <<lock, record, active, retained, call, work>>
        /\ temps' = {t \in temps : t[2] # Own(p)} /\ pc[p] = "cleanTemps"
    BY <1>4 DEF CleanTemps
  <2>2. pc'[p] = "unlock" /\ call'[p] = call[p]
    BY <2>1, GotoIsOwn
  <2>3. record[OwnTxn(p)].state = "Failed"
    BY <1>1, <2>1, AtPoint DEF Progress, RecoverInv
  <2>4. Knows(p)'
    BY <1>1, <2>1, <2>2, <2>3 DEF Knows, Settling, Retaining, HasEdges, Own, OwnTxn
  <2>5. QED
    BY <1>1, <2>1, <2>4, GoesOnAlone
<1>5. QED
  BY <1>2, <1>3, <1>4

\* A call may stop anywhere.
LEMMA StopsAlone ==
    ASSUME IInv, AInv, NEW p \in Proc, Crash(p) \/ StepFails(p)
    PROVE  AInv'
<1>1. Busy(p)
  BY DEF Crash, StepFails, Busy
<1>2. CASE Crash(p)
  BY <1>1, <1>2, EndsAlone DEF Crash, Quiet
<1>3. CASE StepFails(p)
  BY <1>1, <1>3, FailAlone, RefuseAlone DEF StepFails, LockedPoints
<1>4. QED
  BY <1>2, <1>3

-----------------------------------------------------------------------------
(* Calls that start.                                                       *)

\* A call begins beside no recovery, and a recovery beside no call.
LEMMA BeginsAlone ==
    ASSUME RecoverAlone, IInv, AInv, NEW p \in Proc,
           CallPublish(p) \/ CallRollback(p) \/ (\E g \in Generation : CallRecover(p, g))
    PROVE  AInv'
<1>1. PICK op \in {"publish", "recover", "rollback"}, own \in Generation,
           target \in Generation, point \in {"acquire", "readTxn", "checkBoth"} :
        /\ Begin(p, op, own, target, point)
        /\ op = "recover" => \A q \in Proc : ~Busy(q)
        /\ op # "recover" => ~Running("recover")
  BY DEF CallPublish, CallRollback, CallRecover, Publish, Recover, RollbackActiveGeneration,
     Busy
<1>2. /\ \A q \in Proc \ {p} : pc'[q] = pc[q] /\ call'[q] = call[q] /\ work'[q] = work[q]
      /\ pc'[p] = point /\ call'[p] = [op |-> op, own |-> own, target |-> target]
      /\ ~Busy(p) /\ UNCHANGED disk
  BY <1>1 DEF Begin, Goto, IInv, TypeOK, Busy
<1>3. AloneInv'
  BY <1>1, <1>2 DEF AInv, AloneInv, Busy, Running
<1>4. Knows(p)'
  BY <1>2 DEF Knows, Settling, Retaining, Holds, LockedPoints, SharedPoints
<1>5. \A q \in Proc \ {p} : Knows(q)'
  BY <1>2 DEF AInv, Knows, Settling, Retaining, HasEdges, Holds, Own, OwnTxn, disk
<1>6. EdgesInv'
  BY <1>2 DEF AInv, EdgesInv, HasEdges, disk
<1>7. QED
  BY <1>3, <1>4, <1>5, <1>6 DEF AInv

\* The invariant is inductive.
LEMMA ANextInv == RecoverAlone /\ IInv /\ AInv /\ [Next]_vars => AInv'
<1> SUFFICES ASSUME RecoverAlone, IInv, AInv, [Next]_vars PROVE AInv'
  OBVIOUS
<1>1. ASSUME NEW p \in Proc, Step(p) PROVE AInv'
  BY <1>1, LocksAlone, UnlocksAlone, RecordsAlone, ConfirmRecordAlone, PublishingAlone,
     RollbackAlone, RenameAlone, RetainedAlone, RecoveringAlone DEF Step
<1>2. CASE Next
  BY <1>1, <1>2, BeginsAlone, StopsAlone DEF Next
<1>3. CASE UNCHANGED vars
  BY <1>3 DEF vars, AInv, AloneInv, Busy, Knows, Settling, Retaining, HasEdges, Holds, Own,
     OwnTxn, EdgesInv
<1>4. QED
  BY <1>2, <1>3

-----------------------------------------------------------------------------
(* What follows for every number of processes, transactions and contents.  *)

\* The invariant holds in every reachable state.
LEMMA AloneInvariant == ASSUME RecoverAlone PROVE Spec => [](IInv /\ AInv)
<1>1. Init => AInv
  BY AInitInv
<1>2. IInv /\ AInv /\ [Next]_vars => AInv'
  BY ANextInv
<1>3. QED
  BY <1>1, <1>2, Invariant, PTL DEF Spec

\* A recovery reports success only at the end of its last two points.
LEMMA RecoverFinishers ==
    ASSUME IInv, Next, NEW p \in Proc, call[p].op = "recover", pc'[p] = "done"
    PROVE  (CheckLock(p) /\ lock = NoGen) \/ RemoveLock(p)
<1>1. Busy(p) /\ call'[p] = NoCall /\ call'[p] # call[p]
  BY NextInv DEF IInv, CallsInv, Busy, Quiet, NoCall
<1>2. PICK q \in Proc : \/ CallPublish(q) \/ CallRollback(q)
                        \/ \E g \in Generation : CallRecover(q, g)
                        \/ Step(q) \/ Crash(q) \/ StepFails(q)
  BY DEF Next
<1>3. call \in [Proc -> [op : Op, own : Generation \cup {NoGen},
                         target : Generation \cup {NoGen}]]
      /\ pc \in [Proc -> Point]
  BY DEF IInv, TypeOK
<1>4. \A how : End(q, how) => q = p /\ how = "done"
  BY <1>1, <1>3 DEF End, Goto
<1>5. ~Fail(q) /\ ~Refuse(q) /\ ~Crash(q) /\ ~StepFails(q)
  BY <1>1, <1>4 DEF Fail, Refuse, Crash, StepFails
<1>6. \A op, own, target, point : Begin(q, op, own, target, point) => op = "none"
  BY <1>1, <1>3 DEF Begin, NoCall
<1>7. Step(q)
  BY <1>2, <1>5, <1>6 DEF CallPublish, CallRollback, CallRecover, Publish, Recover,
     RollbackActiveGeneration
<1>8. ~(AcquireLock(q) \/ WriteLock(q) \/ GiveUp(q) \/ DiscardLock(q) \/ CreateRecord(q)
        \/ WriteRecord(q) \/ CheckTransition(q) \/ ReplaceRecord(q) \/ ConfirmRecord(q))
  BY <1>1, <1>4, <1>5 DEF AcquireLock, WriteLock, GiveUp, DiscardLock, CreateRecord,
     WriteRecord, CheckTransition, ReplaceRecord, ConfirmRecord
<1>9. ~(CreateDirectory(q) \/ FillDirectory(q) \/ VerifyMaterialized(q) \/ CreateTemp(q)
        \/ RenameTemp(q) \/ RereadActive(q) \/ ReadRetained(q) \/ WriteRetained(q)
        \/ ConfirmRetained(q))
  BY <1>1, <1>5 DEF CreateDirectory, FillDirectory, VerifyMaterialized, GotoTransition,
     CreateTemp, RenameTemp, RereadActive, ReadRetained, WriteRetained, ConfirmRetained
<1>10. ~(ReadTransaction(q) \/ ReadActive(q) \/ CompleteActive(q) \/ CleanTemps(q)
         \/ CheckBoth(q) \/ RecheckBoth(q) \/ ConfirmRollback(q))
  BY <1>1, <1>5 DEF ReadTransaction, ReadActive, CompleteActive, GotoTransition,
     CleanTemps, CheckBoth, RecheckBoth, ConfirmRollback
<1>11. CheckLock(q) \/ RemoveLock(q)
  BY <1>7, <1>8, <1>9, <1>10 DEF Step
<1>12. ASSUME CheckLock(q) PROVE q = p /\ lock = NoGen
  <2>1. lock # Own(q)
    BY <1>1, <1>12 DEF CheckLock
  <2>2. PICK how : End(q, how) /\ (how = "done" => lock = NoGen)
    BY <1>12, <2>1 DEF CheckLock
  <2>3. QED
    BY <1>4, <2>2
<1>13. ASSUME RemoveLock(q) PROVE q = p
  <2>1. PICK how : End(q, how)
    BY <1>13 DEF RemoveLock
  <2>2. QED
    BY <1>4, <2>1
<1>14. QED
  BY <1>11, <1>12, <1>13

\* What a recovery that is about to report success knows.
LEMMA RecoveryKnows ==
    ASSUME IInv, AInv, NEW p \in Proc, Busy(p), call[p].op = "recover",
           pc[p] \in {"unlock", "unlink"}
    PROVE  LET g == Own(p)
           IN  \/ record[g.txn].state = "Published" /\ record[g.txn].gen = g /\ active = g
               \/ record[g.txn].state = "Failed" /\ \A t \in temps : t[2] # g
<1> DEFINE g == Own(p)
<1>1. g \in Generation /\ OwnTxn(p) = g.txn /\ Progress(p) /\ Knows(p)
  BY AtPoint DEF AInv
<1>2. record[g.txn].state \in {"Published", "Failed"}
  BY <1>1 DEF Progress, RecoverInv
<1>3. active = g => record[g.txn].gen = g /\ record[g.txn].state # "Failed"
  BY <1>1 DEF IInv, ActiveInv, HasRecord
<1>4. \/ active = g
      \/ record[g.txn].state = "Failed" /\ \A t \in temps : t[2] # g
  BY <1>1 DEF Knows, Settling
<1>5. QED
  BY <1>2, <1>3, <1>4

\* A recovery that reports success has settled its transaction: it is published
\* and active, or failed with no temporary record of it left, and its lock is
\* gone, wherever the recoveries before it stopped.
THEOREM RecoveriesSettle == ASSUME RecoverAlone PROVE Spec => RecoverySettles
<1> DEFINE Settled ==
        \A p \in Proc :
            (call[p].op = "recover" /\ pc'[p] = "done" /\ pc[p] # "done") =>
                LET g == Own(p)
                IN  /\ lock' # g
                    /\ \/ record'[g.txn].state = "Published" /\ active' = g
                       \/ record'[g.txn].state = "Failed" /\ \A t \in temps' : t[2] # g
<1>1. IInv /\ AInv /\ [Next]_vars => [Settled]_vars
  <2> SUFFICES ASSUME IInv, AInv, Next, NEW p \in Proc,
                      call[p].op = "recover", pc'[p] = "done"
               PROVE  LET g == Own(p)
                      IN  /\ lock' # g
                          /\ \/ record'[g.txn].state = "Published" /\ active' = g
                             \/ record'[g.txn].state = "Failed" /\ \A t \in temps' : t[2] # g
    OBVIOUS
  <2>1. (CheckLock(p) /\ lock = NoGen) \/ RemoveLock(p)
    BY RecoverFinishers
  <2>2. Busy(p) /\ pc[p] \in {"unlock", "unlink"}
    BY <2>1 DEF CheckLock, RemoveLock, Busy, Quiet
  <2>3. Own(p) \in Generation
    BY <2>2, AtPoint
  <2>4. /\ lock' = NoGen /\ record' = record /\ active' = active
        /\ \E how : End(p, how)
    BY <2>1, <2>3 DEF CheckLock, RemoveLock
  <2>5. \A t \in temps' : \E u \in temps : t[2] = u[2]
    BY <2>4 DEF End
  <2>6. QED
    BY <2>2, <2>3, <2>4, <2>5, RecoveryKnows
<1>2. QED
  BY <1>1, AloneInvariant, PTL DEF Spec, RecoverySettles

\* When all calls have ended and no lock is left behind, retained.record has the
\* edges of every published generation, although it is read in one step and
\* replaced in another and any of the calls may have stopped between the two.
THEOREM EdgesAreRetained == ASSUME RecoverAlone PROVE Spec => []RetainedIsComplete
<1>1. IInv /\ AInv => RetainedIsComplete
  BY UnlockedHasEdges DEF RetainedIsComplete, HasEdges
<1>2. QED
  BY <1>1, AloneInvariant, PTL
=============================================================================
