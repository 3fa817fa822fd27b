------------------------ MODULE GenerationManagerInv ------------------------
(***************************************************************************)
(* The inductive invariant of GenerationManager: what every file of the    *)
(* state directory and every caller's memory satisfy between two file      *)
(* operations.  It is checked by TLC as an invariant of the runs and       *)
(* proved inductive in GenerationManager_proofs.                           *)
(***************************************************************************)
EXTENDS GenerationManager

PublishPoints ==
    {"acquire", "writeLock", "mkdir", "fill", "verify", "temp", "rename",
     "reread", "unlock", "unlink"} \cup SharedPoints

RecoverCallPoints == RecoverPoints \cup SharedPoints \cup {"unlock", "unlink"}

RollbackPoints ==
    {"checkBoth", "acquire", "writeLock", "recheck", "temp", "rename",
     "reread", "confirmActive"} \cup EndPoints

Busy(p) == pc[p] \notin Quiet

\* A running call has the arguments of its operation and stands at one of its
\* control points; a call that has ended has none.
AtItsPoint(p) ==
    \/ call[p].op = "publish" /\ pc[p] \in PublishPoints
    \/ call[p].op = "recover" /\ pc[p] \in RecoverCallPoints
    \/ call[p].op = "rollback" /\ pc[p] \in RollbackPoints

CallsInv ==
    \A p \in Proc :
        /\ ~Busy(p) => call[p] = NoCall
        /\ Busy(p) =>
            /\ call[p].own \in Generation
            /\ call[p].target \in Generation
            /\ call[p].op # "rollback" => call[p].target = call[p].own
            /\ AtItsPoint(p)

\* The transaction of a publication or a recovery is in no other call.
ApartInv ==
    \A p, q \in Proc :
        (p # q /\ Busy(p) /\ call[p].op \in {"publish", "recover"}) =>
            OwnTxn(p) \notin Uses(q)

\* A record that was written carries its own transaction.
RecordsInv ==
    \A t \in Txn :
        record[t].state \in RecordState =>
            record[t].gen \in Generation /\ record[t].gen.txn = t

\* A generation that was renamed into place but not yet marked Published is
\* still locked, so no other call can replace it before it is marked.
ActiveInv ==
    active # NoGen =>
        /\ active \in Generation
        /\ VerifyGeneration(active)
        /\ \/ HasRecord(active, {"Published"})
           \/ HasRecord(active, {"Verified"}) /\ lock = active

\* A published generation is complete on disk.
PublishedInv ==
    \A t \in Txn :
        record[t].state = "Published" => VerifyGeneration(record[t].gen)

OwnHas(p, states) == HasRecord(Own(p), states)

\* Before each write of a record: what the record holds.
Before(p) ==
    CASE work[p].goal = "Materialized" -> OwnHas(p, {"Preparing"})
      [] work[p].goal = "Verified" -> OwnHas(p, {"Materialized"})
      [] work[p].goal = "Published" -> OwnHas(p, {"Verified"})
      [] OTHER -> OwnHas(p, {"Preparing", "Materialized", "Verified"})

\* After its rename and until it drops the lock.
Committing(p) ==
    \/ pc[p] \in {"reread", "readRetained", "writeRetained", "confirmRetained",
                  "unlock", "unlink"}
    \/ /\ pc[p] \in {"transition", "replace", "confirmRecord"}
       /\ work[p].goal = "Published"

\* What a publication knows at each of its control points.
PublishInv(p) ==
    /\ pc[p] = "writeRecord" =>
            record[OwnTxn(p)].state = "Torn" /\ work[p].goal = "Preparing"
    /\ pc[p] = "create" => work[p].goal = "Preparing"
    /\ pc[p] \in {"mkdir", "fill"} => OwnHas(p, {"Preparing"})
    /\ pc[p] = "fill" => dir[OwnTxn(p)].gen = Own(p)
    /\ pc[p] \in {"transition", "replace", "confirmRecord"} =>
            work[p].goal \in {"Materialized", "Verified", "Published"}
    /\ pc[p] \in {"transition", "replace"} => Before(p)
    /\ pc[p] = "confirmRecord" => OwnHas(p, {work[p].goal})
    /\ pc[p] = "verify" => OwnHas(p, {"Materialized"})
    /\ pc[p] \in {"temp", "rename", "reread"} => OwnHas(p, {"Verified"})
    /\ pc[p] \in {"transition", "replace", "confirmRecord", "verify", "temp",
                  "rename", "reread", "readRetained", "writeRetained",
                  "confirmRetained", "unlock", "unlink"} =>
            VerifyGeneration(Own(p))
    /\ Committing(p) => active = Own(p)
    /\ pc[p] \in {"readRetained", "writeRetained", "confirmRetained",
                  "unlock", "unlink"} => OwnHas(p, {"Published"})

\* A recovery that is about to write Failed.
Failing(p) ==
    \/ pc[p] \in {"create", "writeRecord"}
    \/ /\ pc[p] \in {"transition", "replace", "confirmRecord"}
       /\ work[p].goal = "Failed"

Unnamed(t) == active # NoGen => active.txn # t

\* What a recovery knows: its transaction is in no other call, so the record
\* it read is still there, and the active record cannot come to name it.
RecoverInv(p) ==
    /\ pc[p] = "readActive" => work[p].found = record[OwnTxn(p)].state
    /\ pc[p] = "verifyActive" =>
            /\ work[p].found = record[OwnTxn(p)].state
            /\ work[p].found = "Verified" => active = Own(p)
    /\ pc[p] = "create" => work[p].goal = "Failed"
    /\ pc[p] = "writeRecord" =>
            record[OwnTxn(p)].state = "Torn" /\ work[p].goal = "Failed"
    /\ pc[p] \in {"transition", "replace", "confirmRecord"} =>
            work[p].goal \in {"Published", "Failed"}
    /\ pc[p] = "replace" => Before(p)
    /\ pc[p] = "confirmRecord" => OwnHas(p, {work[p].goal})
    /\ Failing(p) => Unnamed(OwnTxn(p))
    /\ (pc[p] \in {"transition", "replace"} /\ work[p].goal = "Published") =>
            active = Own(p) /\ OwnHas(p, {"Verified"})
    /\ pc[p] = "cleanTemps" => record[OwnTxn(p)].state = "Failed"
    /\ pc[p] \in {"readRetained", "writeRetained", "confirmRetained"} =>
            record[OwnTxn(p)].state = "Published"
    /\ pc[p] \in {"unlock", "unlink"} =>
            record[OwnTxn(p)].state \in {"Published", "Failed"}

\* What a rollback knows after its first check: both generations are published
\* and complete, which they stay; after its rename the other one is active.
RollbackInv(p) ==
    /\ pc[p] # "checkBoth" =>
            OwnHas(p, {"Published"}) /\ VerifyPublishedGeneration(call[p].target)
    /\ pc[p] \in {"reread", "confirmActive", "unlock", "unlink"} =>
            active = call[p].target

Progress(p) ==
    /\ call[p].op = "publish" => PublishInv(p)
    /\ call[p].op = "recover" => RecoverInv(p)
    /\ call[p].op = "rollback" => RollbackInv(p)

ProgressInv == \A p \in Proc : Progress(p)

\* The conjunction that each file operation preserves.
IInv ==
    /\ TypeOK
    /\ CallsInv
    /\ ApartInv
    /\ LockExcludes
    /\ RecordsInv
    /\ ActiveInv
    /\ PublishedInv
    /\ ProgressInv

-----------------------------------------------------------------------------
(* What holds besides, when the callers let a recovery run alone           *)
(* (RecoverAlone): the read of retained.record and its replacement are not *)
(* torn apart by another call, and what a recovery found stays so.         *)

\* While a recovery runs, no other call does.
AloneInv ==
    \A p, q \in Proc :
        (p # q /\ Busy(p) /\ Busy(q)) => call[p].op # "recover"

\* A recovery that is about to complete its transaction found it active; one
\* that is about to end has completed it, or has removed what could still be
\* renamed; one that is about to remove the lock found it its own.
Settling(p) ==
    /\ pc[p] \in {"verifyActive", "readRetained", "writeRetained", "confirmRetained"} =>
            active = Own(p)
    /\ (pc[p] = "confirmRecord" /\ work[p].goal = "Published") => active = Own(p)
    /\ pc[p] \in {"unlock", "unlink"} =>
            \/ active = Own(p)
            \/ record[OwnTxn(p)].state = "Failed" /\ \A t \in temps : t[2] # Own(p)
    /\ pc[p] = "unlink" => lock = Own(p)

HasEdges(t) == record[t].state = "Published" => record[t].gen \in retained

\* Where the call of a process stands with the edges of its generation.
Retaining(p) ==
    /\ pc[p] = "writeRetained" => work[p].seen = retained
    /\ pc[p] = "confirmRetained" => Own(p) \in retained
    /\ (call[p].op = "publish" /\ pc[p] \in {"unlock", "unlink"}) => Own(p) \in retained
    /\ (call[p].op = "recover" /\ pc[p] \in {"unlock", "unlink"}) => HasEdges(OwnTxn(p))
    /\ (call[p].op = "rollback" /\ Holds(p)) => \A t \in Txn : HasEdges(t)

Knows(p) == (call[p].op = "recover" => Settling(p)) /\ Retaining(p)

\* A published generation without its edges is still locked.
EdgesInv ==
    \A t \in Txn : HasEdges(t) \/ lock = record[t].gen

AInv ==
    /\ AloneInv
    /\ \A p \in Proc : Knows(p)
    /\ EdgesInv
=============================================================================
