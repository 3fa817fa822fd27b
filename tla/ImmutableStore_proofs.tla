------------------------ MODULE ImmutableStore_proofs ------------------------
(***************************************************************************)
(* Proofs about ImmutableStore, for every number of threads, processes,    *)
(* requests, keys, trees and retained tasks, whatever fails, crashes or is *)
(* damaged.                                                                *)
(*                                                                         *)
(* Almost every step is a thread moving from one control point to the      *)
(* next.  RunnerMoves says once what such a step must respect of the       *)
(* others (DiskMoves) and establish for itself (AtPoint); each action has  *)
(* then only these two to show.                                            *)
(***************************************************************************)
EXTENDS ImmutableStore, TLAPS

\* What the invariant says of one caller and the disk.
AtPoint(c) ==
    /\ call[c] # NoCall
    /\ pc[c] \notin {"verify", "verifyRecord"} => call[c].op = "fetch"
    /\ pc[c] \in {"lease", "verifyRecord", "renameRecord"} => HasKey(c)
    /\ pc[c] \in {"record", "renameRecord"} => work[c] \in Success
    /\ pc[c] \in {"cleanup", "release", "settle"} => work[c] # "none"
    /\ c \in slots <=> pc[c] \in SlotPoints
    /\ IsRunner(c) /\ HasKey(c) /\ pc[c] \in LeasedPoints \ {"release"}
           => lease[TheKey(c)] = c
    /\ pc[c] \in (SlotPoints \cup {"slot"}) \ {"cleanup"} /\ HasKey(c)
           => source[TheKey(c)] = "absent"

\* What a step of one caller may do to the disk under the feet of the others.
DiskMoves(c) ==
    /\ object' \in [Tree -> {"absent", "open", "sealed", "drifted"}]
    /\ source' \in [Key -> {"absent", "written", "drifted"}]
    /\ lease' \in [Key -> Caller \cup {Orphan}]
    /\ slots' \subseteq Caller \cup {Orphan}
    /\ \A k \in Key : source[k] = "absent" =>
           \/ source'[k] = "absent"
           \/ pc[c] = "renameRecord" /\ k = TheKey(c)
    /\ \A k \in Key, d \in Caller \ {c} : lease[k] = d => lease'[k] = d
    /\ \A d \in Caller \ {c} : d \in slots' <=> d \in slots

-----------------------------------------------------------------------------
(* Types of the values the steps compute.                                  *)

\* The names of tasks.
LEMMA TaskOfType == \A r \in Request : TaskOf(r) \in Task
  BY StoreAssumption DEF TaskOf, Task

\* A caller inside a call has a request, a host, and a source if it is keyed.
LEMMA CallerTypes ==
    ASSUME TypeOK, NEW c \in Caller, call[c] # NoCall
    PROVE  /\ call[c] \in [op : {"fetch", "verify"}, req : Request, stale : BOOLEAN]
           /\ Req(c) \in Request
           /\ Host[c] \in Instance
           /\ TaskOf(Req(c)) \in Task
           /\ TheTree(c) \in Tree
           /\ HasKey(c) => TheKey(c) \in Key
  BY StoreAssumption, TaskOfType DEF TypeOK, Req, TheTree, HasKey, TheKey

\* Outcomes, and how results are told from the marks of the task table.
LEMMA Outcomes ==
    /\ Terminal \cap {NoTask, Running} = {}
    /\ NoTask # Running
    /\ "none" \notin Success \cup Failure
    /\ \A r \in Request, o \in Success \cup Failure : [outcome |-> o, of |-> r] \in Terminal
    /\ \A x \in Terminal : [x EXCEPT !.outcome = "Deduplicated"] \in Terminal
  BY DEF Terminal, NoTask, Running, Success, Failure

-----------------------------------------------------------------------------
(* Moving from one control point to the next.                              *)

\* The invariant holds before any call.
LEMMA InitInv == Init => StoreInv
  BY StoreAssumption
  DEF Init, StoreInv, TypeOK, CallsAreKnown, WorkIsKnown, SlotsAreOwned, LeaseIsHeld,
      OneRunnerPerTask, FetchesOnlyWhatIsMissing, IsRunner, NoTask, Running, NoCall,
      NoAnswer, Point, RunnerPoints, LeasedPoints, SlotPoints, Terminal, Success, Failure

\* A step of a thread between two points of its work keeps the invariant, if it
\* respects the others and is entitled to be where it arrives.
LEMMA RunnerMoves ==
    ASSUME StoreInv, NEW c \in Caller, pc[c] \in RunnerPoints,
           NEW point \in RunnerPoints, NEW w \in Success \cup Failure \cup {"none"},
           pc' = [pc EXCEPT ![c] = point], work' = [work EXCEPT ![c] = w],
           UNCHANGED <<task, call, cancelled, answer>>,
           DiskMoves(c), AtPoint(c)'
    PROVE  StoreInv'
<1> USE DEF StoreInv
<1>1. TypeOK'
  BY DEF TypeOK, DiskMoves, Point
<1>2. /\ pc'[c] = point
      /\ \A d \in Caller \ {c} : pc'[d] = pc[d] /\ work'[d] = work[d]
      /\ \A d \in Caller : call'[d] = call[d]
  BY DEF TypeOK
<1>3. CallsAreKnown' /\ WorkIsKnown' /\ SlotsAreOwned'
  <2> SUFFICES ASSUME NEW d \in Caller
               PROVE  /\ pc'[d] # "idle" => call'[d] # NoCall
                      /\ pc'[d] \notin {"idle", "verify", "verifyRecord"}
                             => call'[d].op = "fetch"
                      /\ pc'[d] \in {"lease", "verifyRecord", "renameRecord"} => HasKey(d)'
                      /\ pc'[d] \in {"record", "renameRecord"} => work'[d] \in Success
                      /\ pc'[d] \in {"cleanup", "release", "settle"} => work'[d] # "none"
                      /\ d \in slots' <=> pc'[d] \in SlotPoints
    BY DEF CallsAreKnown, WorkIsKnown, SlotsAreOwned, HasKey, TheKey, Req
  <2>1. CASE d = c
    BY <2>1, <1>2 DEF AtPoint
  <2>2. CASE d # c
    BY <2>2, <1>2
    DEF CallsAreKnown, WorkIsKnown, SlotsAreOwned, DiskMoves, HasKey, TheKey, Req
  <2> QED BY <2>1, <2>2
<1>4. LeaseIsHeld'
  <2> SUFFICES ASSUME NEW d \in Caller, IsRunner(d)', HasKey(d)',
                      pc'[d] \in LeasedPoints \ {"release"}
               PROVE  lease'[TheKey(d)'] = d
    BY DEF LeaseIsHeld
  <2>1. CASE d = c
    BY <2>1 DEF AtPoint
  <2>2. CASE d # c
    <3>1. IsRunner(d) /\ HasKey(d) /\ TheKey(d)' = TheKey(d) /\ pc[d] = pc'[d]
      BY <2>2, <1>2 DEF IsRunner, HasKey, TheKey, Req
    <3>2. TheKey(d) \in Key /\ lease[TheKey(d)] = d
      BY <3>1, CallerTypes DEF LeaseIsHeld, IsRunner, CallsAreKnown, NoCall
    <3> QED BY <3>1, <3>2, <2>2 DEF DiskMoves
  <2> QED BY <2>1, <2>2
<1>5. OneRunnerPerTask'
  <2>1. \A d \in Caller : /\ IsRunner(d)' <=> IsRunner(d)
                          /\ TheTask(d)' = TheTask(d) /\ Req(d)' = Req(d)
                          /\ pc'[d] = "wait" => pc[d] = "wait"
    BY <1>2 DEF IsRunner, TheTask, Req, RunnerPoints, LeasedPoints, SlotPoints
  <2> QED BY <2>1 DEF OneRunnerPerTask, SameTask
<1>6. FetchesOnlyWhatIsMissing'
  <2> DEFINE Fetching == (SlotPoints \cup {"slot"}) \ {"cleanup"}
  <2> SUFFICES ASSUME NEW d \in Caller, pc'[d] \in Fetching, HasKey(d)'
               PROVE  source'[TheKey(d)'] = "absent"
    BY DEF FetchesOnlyWhatIsMissing
  <2>1. CASE d = c
    BY <2>1 DEF AtPoint
  <2>2. CASE d # c
    <3>1. pc[d] \in Fetching /\ HasKey(d) /\ TheKey(d)' = TheKey(d)
      BY <2>2, <1>2 DEF HasKey, TheKey, Req
    <3>2. source[TheKey(d)] = "absent"
      BY <3>1 DEF FetchesOnlyWhatIsMissing
    <3>3. /\ IsRunner(d) /\ TheKey(d) \in Key
          /\ pc[d] \in LeasedPoints \ {"release"}
      BY <3>1, CallerTypes
      DEF CallsAreKnown, IsRunner, RunnerPoints, LeasedPoints, SlotPoints
    <3>4. lease[TheKey(d)] = d
      BY <3>1, <3>3 DEF LeaseIsHeld
    <3>5. ASSUME pc[c] = "renameRecord", TheKey(d) = TheKey(c) PROVE FALSE
      <4>1. IsRunner(c) /\ HasKey(c) /\ pc[c] \in LeasedPoints \ {"release"}
        BY <3>5 DEF CallsAreKnown, IsRunner, RunnerPoints, LeasedPoints, SlotPoints
      <4> QED BY <4>1, <3>5, <3>4, <2>2 DEF LeaseIsHeld
    <3> QED BY <3>1, <3>2, <3>3, <3>5 DEF DiskMoves
  <2> QED BY <2>1, <2>2
<1> QED BY <1>1, <1>3, <1>4, <1>5, <1>6

\* The same for a step that only moves on.
LEMMA ProceedInv ==
    ASSUME StoreInv, NEW c \in Caller, pc[c] \in RunnerPoints, NEW point \in RunnerPoints,
           Proceed(c, point), DiskMoves(c), AtPoint(c)'
    PROVE  StoreInv'
<1>1. work[c] \in Success \cup Failure \cup {"none"} /\ work' = [work EXCEPT ![c] = work[c]]
  BY DEF StoreInv, TypeOK, Proceed
<1> QED BY <1>1, RunnerMoves DEF Proceed, Goto

\* A thread that runs no task may return at any point, with any result.
LEMMA ReturnInv ==
    ASSUME StoreInv, NEW c \in Caller, ~IsRunner(c), pc[c] # "idle",
           NEW result \in Terminal, Return(c, result), UNCHANGED <<disk, task, call, work>>
    PROVE  StoreInv'
<1> USE DEF StoreInv
<1>1. /\ pc'[c] = "idle" /\ c \notin slots
      /\ \A d \in Caller \ {c} : pc'[d] = pc[d]
  BY DEF TypeOK, Return, Goto, SlotsAreOwned, CallsAreKnown, IsRunner, RunnerPoints,
         LeasedPoints, SlotPoints
<1>2. \A d \in Caller : /\ IsRunner(d)' <=> IsRunner(d)
                        /\ TheTask(d)' = TheTask(d) /\ Req(d)' = Req(d)
                        /\ HasKey(d)' = HasKey(d) /\ TheKey(d)' = TheKey(d)
  BY <1>1 DEF IsRunner, TheTask, Req, HasKey, TheKey, RunnerPoints, LeasedPoints, SlotPoints
<1>3. TypeOK'
  BY DEF TypeOK, Return, Goto, disk, Point
<1>4. CallsAreKnown' /\ WorkIsKnown' /\ SlotsAreOwned' /\ LeaseIsHeld'
  BY <1>1, <1>2
  DEF CallsAreKnown, WorkIsKnown, SlotsAreOwned, LeaseIsHeld, disk, SlotPoints, LeasedPoints
<1>5. OneRunnerPerTask'
  BY <1>1, <1>2 DEF OneRunnerPerTask, SameTask
<1>6. FetchesOnlyWhatIsMissing'
  BY <1>1, <1>2 DEF FetchesOnlyWhatIsMissing, disk, SlotPoints
<1> QED BY <1>3, <1>4, <1>5, <1>6

\* Having a result keeps the invariant: a runner still holds its lease when
\* it has a slot to clean up.
LEMMA ConcludeInv ==
    ASSUME StoreInv, NEW c \in Caller,
           pc[c] \in RunnerPoints \ {"cleanup", "release", "settle"},
           NEW outcome \in Success \cup Failure, Conclude(c, outcome), DiskMoves(c),
           lease' = lease, c \in slots' <=> c \in slots,
           call[c].op = "verify" => UNCHANGED disk
    PROVE  StoreInv'
<1> USE DEF StoreInv
<1>0. call[c] # NoCall /\ call[c].op \in {"fetch", "verify"}
  BY CallerTypes DEF CallsAreKnown, RunnerPoints, LeasedPoints, SlotPoints
<1>1. CASE call[c].op = "verify"
  BY <1>0, <1>1, ReturnInv, Outcomes, CallerTypes
  DEF Conclude, IsRunner, RunnerPoints, LeasedPoints, SlotPoints
<1>2. CASE call[c].op = "fetch"
  <2> DEFINE point == IF c \in slots THEN "cleanup" ELSE "release"
  <2>1. /\ pc' = [pc EXCEPT ![c] = point] /\ work' = [work EXCEPT ![c] = outcome]
        /\ UNCHANGED <<task, call, cancelled, answer>>
        /\ point \in RunnerPoints
    BY <1>2 DEF Conclude, Goto, RunnerPoints, LeasedPoints, SlotPoints
  <2>2. /\ pc'[c] = point /\ work'[c] = outcome
        /\ HasKey(c)' = HasKey(c) /\ TheKey(c)' = TheKey(c)
    BY <2>1 DEF TypeOK, HasKey, TheKey, Req
  <2>3. c \in slots => pc[c] \in SlotPoints /\ IsRunner(c) /\ pc[c] \in LeasedPoints \ {"release"}
    BY <1>2 DEF SlotsAreOwned, IsRunner, RunnerPoints, LeasedPoints, SlotPoints
  <2>4. AtPoint(c)'
    BY <1>0, <1>2, <2>1, <2>2, <2>3, Outcomes DEF AtPoint, LeaseIsHeld, SlotPoints, LeasedPoints
  <2> QED BY <2>1, <2>4, RunnerMoves
<1> QED BY <1>0, <1>1, <1>2

\* A step that leaves the disk alone respects the others.
LEMMA DiskStays ==
    ASSUME TypeOK, NEW c \in Caller, UNCHANGED disk PROVE DiskMoves(c)
  BY DEF TypeOK, DiskMoves, disk

\* What is known at the control point of a runner.
LEMMA KnownAt ==
    ASSUME StoreInv, NEW c \in Caller, pc[c] \in RunnerPoints
    PROVE  AtPoint(c)
  BY DEF StoreInv, AtPoint, CallsAreKnown, WorkIsKnown, SlotsAreOwned, LeaseIsHeld,
         FetchesOnlyWhatIsMissing, RunnerPoints, LeasedPoints, SlotPoints

-----------------------------------------------------------------------------
(* The steps of a runner.                                                  *)

\* Waiting for a terminal result keeps the invariant.
LEMMA WaitForTerminalInv ==
    ASSUME StoreInv, NEW c \in Caller, WaitForTerminal(c) PROVE StoreInv'
<1>1. /\ ~IsRunner(c) /\ pc[c] # "idle" /\ call[c] # NoCall /\ TheTask(c) # NoTask
      /\ TheTask(c) \in Terminal \cup {NoTask, Running}
  BY CallerTypes DEF StoreInv, TypeOK, WaitForTerminal, IsRunner, RunnerPoints, LeasedPoints,
         SlotPoints, CallsAreKnown, OneRunnerPerTask, TheTask
<1>2. \E result \in Terminal : Return(c, result)
  <2>1. CASE TheTask(c) # Running
    BY <1>1, <2>1, Outcomes DEF WaitForTerminal
  <2>2. CASE TheTask(c) = Running
    BY <1>1, <2>2, Outcomes, CallerTypes DEF WaitForTerminal, StoreInv, Failure
  <2> QED BY <2>1, <2>2
<1> QED BY <1>1, <1>2, ReturnInv DEF WaitForTerminal

\* Taking the lease of a source keeps the invariant: it was free.
LEMMA AcquireSourceLeaseInv ==
    ASSUME StoreInv, NEW c \in Caller, AcquireSourceLease(c) PROVE StoreInv'
<1>1. AtPoint(c) /\ pc[c] \in RunnerPoints
  BY KnownAt DEF AcquireSourceLease, RunnerPoints
<1>2. DiskMoves(c)
  BY <1>1, CallerTypes, StoreAssumption DEF StoreInv, TypeOK, AcquireSourceLease, DiskMoves, AtPoint
<1>3. AtPoint(c)'
  BY <1>1, CallerTypes DEF StoreInv, TypeOK, AcquireSourceLease, Proceed, Goto, AtPoint, HasKey, TheKey, Req,
         SlotPoints
<1> QED BY <1>1, <1>2, <1>3, ProceedInv
        DEF AcquireSourceLease, RunnerPoints, LeasedPoints

\* Giving up the wait for a lease keeps the invariant.
LEMMA CancelLeaseWaitInv ==
    ASSUME StoreInv, NEW c \in Caller, CancelLeaseWait(c) PROVE StoreInv'
  BY ConcludeInv, DiskStays DEF StoreInv, CancelLeaseWait, RunnerPoints, Failure, disk

\* The look at what is there keeps the invariant: a runner that finds no
\* record holds the lease that keeps it so.
LEMMA LookUpInv ==
    ASSUME StoreInv, NEW c \in Caller, LookUp(c) PROVE StoreInv'
<1>1. AtPoint(c) /\ pc[c] \in RunnerPoints /\ DiskMoves(c)
  BY KnownAt, DiskStays DEF StoreInv, LookUp, RunnerPoints, LeasedPoints
<1>2. source[TheKey(c)] \in {"absent", "written", "drifted"} \/ ~HasKey(c)
  BY <1>1, CallerTypes DEF StoreInv, TypeOK, AtPoint
<1> DEFINE point == IF IF HasKey(c) THEN source[TheKey(c)] # "absent"
                       ELSE object[TheTree(c)] # "absent" THEN "verify" ELSE "slot"
<1>3. Proceed(c, point) /\ point \in RunnerPoints
  BY DEF LookUp, RunnerPoints, LeasedPoints
<1>4. AtPoint(c)'
  <2>1. pc'[c] = point /\ pc[c] = "lookup"
    BY <1>3 DEF LookUp, Proceed, Goto, StoreInv, TypeOK
  <2>2. HasKey(c)' = HasKey(c) /\ TheKey(c)' = TheKey(c) /\ (IsRunner(c)' => IsRunner(c))
    BY <1>3, <2>1 DEF HasKey, TheKey, Req, Proceed, IsRunner, RunnerPoints, LeasedPoints
  <2> QED BY <1>1, <1>3, <2>1, <2>2
          DEF AtPoint, LookUp, Proceed, SlotPoints, LeasedPoints, disk
<1> QED BY <1>1, <1>3, <1>4, ProceedInv

\* A verification of the object keeps the invariant.
LEMMA VerifyExistingObjectInv ==
    ASSUME StoreInv, NEW c \in Caller, VerifyExistingObject(c) PROVE StoreInv'
<1>1. AtPoint(c) /\ pc[c] = "verify" /\ pc[c] \in RunnerPoints /\ DiskMoves(c)
  BY KnownAt, DiskStays DEF StoreInv, VerifyExistingObject, RunnerPoints, LeasedPoints
<1>2. CASE Conclude(c, "Reused") \/ Conclude(c, "TreeDrift")
  BY <1>1, <1>2, ConcludeInv
  DEF VerifyExistingObject, RunnerPoints, LeasedPoints, Success, Failure, disk
<1>3. CASE Proceed(c, "verifyRecord") /\ HasKey(c)
  <2>1. /\ pc'[c] = "verifyRecord" /\ UNCHANGED <<disk, call, work>>
        /\ HasKey(c)' = HasKey(c) /\ TheKey(c)' = TheKey(c) /\ IsRunner(c)' = IsRunner(c)
    BY <1>1, <1>3 DEF VerifyExistingObject, Proceed, Goto, HasKey, TheKey, Req, StoreInv,
                      TypeOK, IsRunner, RunnerPoints, LeasedPoints
  <2>2. AtPoint(c)'
    BY <1>1, <1>3, <2>1 DEF AtPoint, SlotPoints, LeasedPoints, disk
  <2> QED BY <1>1, <1>3, <2>2, ProceedInv DEF RunnerPoints, LeasedPoints
<1> QED BY <1>2, <1>3 DEF VerifyExistingObject

\* A verification of the record keeps the invariant.
LEMMA VerifySourceRecordInv ==
    ASSUME StoreInv, NEW c \in Caller, VerifySourceRecord(c) PROVE StoreInv'
  BY ConcludeInv, DiskStays
  DEF StoreInv, VerifySourceRecord, RunnerPoints, LeasedPoints, Success, Failure, disk

\* Creating a slot keeps the invariant.
LEMMA CreateSlotInv ==
    ASSUME StoreInv, NEW c \in Caller, CreateSlot(c) PROVE StoreInv'
<1>1. AtPoint(c) /\ pc[c] \in RunnerPoints
  BY KnownAt DEF CreateSlot, RunnerPoints, LeasedPoints
<1>2. DiskMoves(c)
  BY DEF StoreInv, TypeOK, CreateSlot, DiskMoves
<1>3. AtPoint(c)'
  BY <1>1 DEF StoreInv, TypeOK, CreateSlot, Proceed, Goto, AtPoint, HasKey, TheKey, Req,
              IsRunner, RunnerPoints, SlotPoints, LeasedPoints
<1> QED BY <1>1, <1>2, <1>3, ProceedInv
        DEF CreateSlot, RunnerPoints, LeasedPoints, SlotPoints

\* A thread that goes on inside its slot, to a point that asks for no more
\* than the one it leaves, keeps the invariant.
LEMMA WithinSlot ==
    ASSUME StoreInv, NEW c \in Caller,
           pc[c] \in SlotPoints \ {"record", "renameRecord", "cleanup"},
           NEW point \in SlotPoints \ {"renameRecord", "cleanup"},
           NEW w \in Success \cup Failure \cup {"none"},
           pc' = [pc EXCEPT ![c] = point], work' = [work EXCEPT ![c] = w],
           point = "record" => w \in Success,
           object' \in [Tree -> {"absent", "open", "sealed", "drifted"}],
           UNCHANGED <<source, lease, slots, task, call, cancelled, answer>>
    PROVE  StoreInv'
<1>1. AtPoint(c) /\ pc[c] \in RunnerPoints /\ point \in RunnerPoints /\ DiskMoves(c)
  BY KnownAt DEF StoreInv, TypeOK, DiskMoves, RunnerPoints, LeasedPoints
<1>2. /\ pc'[c] = point /\ work'[c] = w
      /\ HasKey(c)' = HasKey(c) /\ TheKey(c)' = TheKey(c) /\ IsRunner(c)' = IsRunner(c)
  BY <1>1 DEF StoreInv, TypeOK, HasKey, TheKey, Req, IsRunner
<1>3. AtPoint(c)'
  BY <1>1, <1>2 DEF AtPoint, SlotPoints, LeasedPoints
<1> QED BY <1>1, <1>3, RunnerMoves

\* Where a thread that only moves on keeps its pending result.
LEMMA ProceedKeepsWork ==
    ASSUME StoreInv, NEW c \in Caller, NEW point, Proceed(c, point)
    PROVE  /\ pc' = [pc EXCEPT ![c] = point]
           /\ work[c] \in Success \cup Failure \cup {"none"}
           /\ work' = [work EXCEPT ![c] = work[c]]
           /\ UNCHANGED <<task, call, cancelled, answer>>
  BY DEF StoreInv, TypeOK, Proceed, Goto

\* Fetching keeps the invariant, whether or not it is cancelled.
LEMMA FetchAndPlanInv ==
    ASSUME StoreInv, NEW c \in Caller, FetchAndPlan(c) PROVE StoreInv'
<1>1. CASE Proceed(c, "materialize")
  BY <1>1, ProceedKeepsWork, WithinSlot DEF FetchAndPlan, SlotPoints, disk, StoreInv, TypeOK
<1>2. CASE Conclude(c, "Cancelled")
  BY <1>2, ConcludeInv, DiskStays
  DEF StoreInv, FetchAndPlan, RunnerPoints, LeasedPoints, SlotPoints, Failure, disk
<1> QED BY <1>1, <1>2 DEF FetchAndPlan

\* Writing the object into the slot keeps the invariant.
LEMMA MaterializeTreeInv ==
    ASSUME StoreInv, NEW c \in Caller, MaterializeTree(c) PROVE StoreInv'
<1>1. pc[c] = "materialize" /\ Proceed(c, "rename") /\ UNCHANGED <<source, object, lease, slots>>
  BY DEF MaterializeTree, disk
<1>2. /\ pc[c] \in SlotPoints \ {"record", "renameRecord", "cleanup"}
      /\ "rename" \in SlotPoints \ {"renameRecord", "cleanup"}
      /\ object' \in [Tree -> {"absent", "open", "sealed", "drifted"}]
  BY <1>1 DEF SlotPoints, StoreInv, TypeOK
<1> QED
  BY <1>1, <1>2, ProceedKeepsWork, WithinSlot

\* Publishing the object, or finding one there, keeps the invariant.
LEMMA RenameObjectInv ==
    ASSUME StoreInv, NEW c \in Caller, RenameObject(c) PROVE StoreInv'
<1> DEFINE point == IF object[TheTree(c)] = "absent" THEN "seal" ELSE "exists"
<1>1. Proceed(c, point) /\ point \in SlotPoints \ {"record", "renameRecord", "cleanup"}
  BY DEF RenameObject, SlotPoints
<1>2. object' \in [Tree -> {"absent", "open", "sealed", "drifted"}]
  BY DEF RenameObject, StoreInv, TypeOK
<1> QED BY <1>1, <1>2, ProceedKeepsWork, WithinSlot DEF RenameObject, SlotPoints

\* Looking for the winner keeps the invariant.
LEMMA FindWinnerInv ==
    ASSUME StoreInv, NEW c \in Caller, FindWinner(c) PROVE StoreInv'
<1>1. CASE Proceed(c, "verifyWinner")
  BY <1>1, ProceedKeepsWork, WithinSlot DEF FindWinner, SlotPoints, disk, StoreInv, TypeOK
<1>2. CASE Conclude(c, "RenameFailed")
  BY <1>2, ConcludeInv, DiskStays
  DEF StoreInv, FindWinner, RunnerPoints, LeasedPoints, SlotPoints, Failure, disk
<1> QED BY <1>1, <1>2 DEF FindWinner

\* Verifying the winner keeps the invariant.
LEMMA VerifyWinnerInv ==
    ASSUME StoreInv, NEW c \in Caller, VerifyWinner(c) PROVE StoreInv'
<1>1. CASE Intact(TheTree(c))
  BY <1>1, WithinSlot DEF VerifyWinner, Goto, SlotPoints, Success, disk, StoreInv, TypeOK
<1>2. CASE Conclude(c, "TreeDrift")
  BY <1>2, ConcludeInv, DiskStays
  DEF StoreInv, VerifyWinner, RunnerPoints, LeasedPoints, SlotPoints, Failure, disk
<1> QED BY <1>1, <1>2 DEF VerifyWinner

\* Sealing the object, or failing to, keeps the invariant.
LEMMA SealObjectInv ==
    ASSUME StoreInv, NEW c \in Caller, SealObject(c) \/ SealFails(c) PROVE StoreInv'
<1>1. TheTree(c) \in Tree
  BY CallerTypes DEF StoreInv, CallsAreKnown, SealObject, SealFails
<1>2. object' \in [Tree -> {"absent", "open", "sealed", "drifted"}]
  BY <1>1 DEF SealObject, SealFails, Sealed, StoreInv, TypeOK
<1>3. CASE SealObject(c)
  BY <1>2, <1>3, WithinSlot DEF SealObject, Goto, SlotPoints, Success
<1>4. CASE SealFails(c)
  BY <1>2, <1>4, WithinSlot, ProceedKeepsWork DEF SealFails, SlotPoints
<1> QED BY <1>3, <1>4

\* Renaming the object back, or failing to, keeps the invariant.
LEMMA RollBackObjectInv ==
    ASSUME StoreInv, NEW c \in Caller, RollBackObject(c) PROVE StoreInv'
<1>1. DiskMoves(c)
  BY DEF StoreInv, TypeOK, RollBackObject, DiskMoves
<1>2. call[c].op = "fetch"
  BY DEF StoreInv, CallsAreKnown, RollBackObject
<1> QED BY <1>1, <1>2, ConcludeInv
        DEF RollBackObject, RunnerPoints, LeasedPoints, SlotPoints, Failure

\* The look at the record's path keeps the invariant: it is still empty.
LEMMA PublishSourceRecordInv ==
    ASSUME StoreInv, NEW c \in Caller, PublishSourceRecord(c) PROVE StoreInv'
<1>1. AtPoint(c) /\ pc[c] = "record" /\ pc[c] \in RunnerPoints /\ DiskMoves(c)
  BY KnownAt, DiskStays
  DEF StoreInv, PublishSourceRecord, RunnerPoints, LeasedPoints, SlotPoints
<1>2. CASE Conclude(c, work[c]) \/ Conclude(c, "SourceRecordDrift")
  BY <1>1, <1>2, ConcludeInv
  DEF PublishSourceRecord, RunnerPoints, LeasedPoints, SlotPoints, Failure, disk, AtPoint
<1>3. CASE Proceed(c, "renameRecord") /\ HasKey(c)
  <2>1. /\ pc'[c] = "renameRecord" /\ UNCHANGED <<disk, call, work>>
        /\ HasKey(c)' = HasKey(c) /\ TheKey(c)' = TheKey(c) /\ IsRunner(c)' = IsRunner(c)
    BY <1>1, <1>3 DEF PublishSourceRecord, Proceed, Goto, HasKey, TheKey, Req, StoreInv,
                      TypeOK, IsRunner, RunnerPoints, LeasedPoints, SlotPoints
  <2>2. AtPoint(c)'
    BY <1>1, <1>3, <2>1 DEF AtPoint, SlotPoints, LeasedPoints, disk
  <2> QED BY <1>1, <1>3, <2>2, ProceedInv DEF RunnerPoints, LeasedPoints, SlotPoints
<1> QED BY <1>2, <1>3 DEF PublishSourceRecord

\* Renaming the record into place keeps the invariant: its runner is the only
\* one that holds the lease of the key.
LEMMA RenameRecordInv ==
    ASSUME StoreInv, NEW c \in Caller, RenameRecord(c) PROVE StoreInv'
<1>1. AtPoint(c) /\ pc[c] = "renameRecord"
  BY KnownAt DEF RenameRecord, RunnerPoints, LeasedPoints, SlotPoints
<1>2. DiskMoves(c)
  BY <1>1 DEF StoreInv, TypeOK, RenameRecord, DiskMoves
<1>3. call[c].op = "fetch" /\ work[c] \in Success /\ "Failed" \in Failure
  BY <1>1 DEF AtPoint, Failure
<1> QED BY <1>1, <1>2, <1>3, ConcludeInv
        DEF RenameRecord, RunnerPoints, LeasedPoints, SlotPoints

\* An operation that reports an error keeps the invariant.
LEMMA StepFailsInv ==
    ASSUME StoreInv, NEW c \in Caller, StepFails(c) PROVE StoreInv'
<1>1. DiskMoves(c) /\ (c \in slots' <=> c \in slots) /\ call[c].op = "fetch"
  BY StoreAssumption DEF StoreInv, TypeOK, CallsAreKnown, StepFails, DiskMoves
<1>2. /\ pc[c] \in RunnerPoints \ {"cleanup", "release", "settle"}
      /\ lease' = lease
      /\ \E outcome \in Failure : Conclude(c, outcome)
  BY DEF StepFails, RunnerPoints, LeasedPoints, SlotPoints, Failure
<1> QED BY <1>1, <1>2, ConcludeInv

\* Removing the slot keeps the invariant.
LEMMA CleanupSlotInv ==
    ASSUME StoreInv, NEW c \in Caller, CleanupSlot(c) PROVE StoreInv'
<1>1. AtPoint(c) /\ pc[c] \in RunnerPoints
  BY KnownAt DEF CleanupSlot, RunnerPoints, LeasedPoints, SlotPoints
<1>2. DiskMoves(c)
  BY StoreAssumption DEF StoreInv, TypeOK, CleanupSlot, DiskMoves
<1>3. AtPoint(c)'
  BY <1>1, StoreAssumption
  DEF StoreInv, TypeOK, CleanupSlot, Proceed, Goto, AtPoint, HasKey, TheKey, Req, SlotPoints
<1> QED BY <1>1, <1>2, <1>3, ProceedInv DEF CleanupSlot, RunnerPoints, LeasedPoints

\* Dropping the lease keeps the invariant: nobody else's is dropped.
LEMMA ReleaseLeaseInv ==
    ASSUME StoreInv, NEW c \in Caller, ReleaseLease(c) PROVE StoreInv'
<1>1. AtPoint(c) /\ pc[c] \in RunnerPoints
  BY KnownAt DEF ReleaseLease, RunnerPoints, LeasedPoints
<1>2. DiskMoves(c)
  BY DEF StoreInv, TypeOK, ReleaseLease, DiskMoves
<1>3. AtPoint(c)'
  BY <1>1
  DEF StoreInv, TypeOK, ReleaseLease, Proceed, Goto, AtPoint, HasKey, TheKey, Req,
      SlotPoints, LeasedPoints
<1> QED BY <1>1, <1>2, <1>3, ProceedInv DEF ReleaseLease, RunnerPoints

-----------------------------------------------------------------------------
(* Entering and leaving the task table.                                    *)

\* Reporting the result to the table keeps the invariant: no other thread
\* runs the task that stops being marked as running.
LEMMA SettleInv ==
    ASSUME StoreInv, NEW c \in Caller, Settle(c) PROVE StoreInv'
<1> USE DEF StoreInv
<1> DEFINE result == [outcome |-> work[c], of |-> Req(c)]
           t == TaskOf(Req(c))
<1>1. /\ AtPoint(c) /\ IsRunner(c) /\ result \in Terminal
      /\ t \in Task /\ Host[c] \in Instance /\ result \notin {NoTask, Running}
  <2>1. AtPoint(c) /\ IsRunner(c)
    BY KnownAt DEF Settle, AtPoint, IsRunner, RunnerPoints
  <2>2. work[c] \in Success \cup Failure
    BY <2>1 DEF AtPoint, Settle, TypeOK
  <2> QED BY <2>1, <2>2, CallerTypes, Outcomes DEF AtPoint
<1>2. /\ pc'[c] = "idle" /\ c \notin slots
      /\ \A d \in Caller \ {c} : pc'[d] = pc[d] /\ work'[d] = work[d]
      /\ UNCHANGED <<disk, call>>
  BY <1>1 DEF Settle, Return, Goto, TypeOK, AtPoint, SlotPoints
<1>3. TypeOK'
  BY <1>1 DEF TypeOK, Settle, Return, Goto, disk, Point
<1>4. \A d \in Caller : /\ Req(d)' = Req(d) /\ HasKey(d)' = HasKey(d) /\ TheKey(d)' = TheKey(d)
                        /\ IsRunner(d)' <=> IsRunner(d) /\ d # c
  BY <1>2 DEF Req, HasKey, TheKey, IsRunner, RunnerPoints, LeasedPoints, SlotPoints
<1>5. CallsAreKnown' /\ WorkIsKnown' /\ SlotsAreOwned'
  BY <1>2, <1>4 DEF CallsAreKnown, WorkIsKnown, SlotsAreOwned, disk, SlotPoints
<1>6. LeaseIsHeld' /\ FetchesOnlyWhatIsMissing'
  BY <1>2, <1>4 DEF LeaseIsHeld, FetchesOnlyWhatIsMissing, disk, SlotPoints, LeasedPoints
<1>7. \A i \in Instance, u \in Task :
          task'[i][u] = IF i = Host[c] /\ u = t THEN result ELSE task[i][u]
  BY <1>1 DEF Settle, TypeOK
<1>8. OneRunnerPerTask'
  <2>1. ASSUME NEW d \in Caller, IsRunner(d)' PROVE TheTask(d)' = Running
    <3>1. IsRunner(d) /\ d # c /\ TheTask(d) = Running /\ ~SameTask(c, d)
      BY <1>1, <1>4, <2>1 DEF OneRunnerPerTask
    <3>2. TaskOf(Req(d)) \in Task /\ Host[d] \in Instance /\ Req(d)' = Req(d)
      BY <3>1, <1>4, CallerTypes, KnownAt DEF IsRunner, AtPoint
    <3> QED BY <3>1, <3>2, <1>7 DEF SameTask, TheTask
  <2>2. ASSUME NEW d \in Caller, pc'[d] = "wait" PROVE TheTask(d)' # NoTask
    <3>1. pc[d] = "wait" /\ call[d] # NoCall /\ TheTask(d) # NoTask
      BY <1>2, <2>2 DEF OneRunnerPerTask, CallsAreKnown
    <3>2. TaskOf(Req(d)) \in Task /\ Host[d] \in Instance /\ Req(d)' = Req(d)
      BY <3>1, <1>4, CallerTypes
    <3> QED BY <3>1, <3>2, <1>1, <1>7 DEF TheTask
  <2>3. ASSUME NEW i \in Instance, NEW u \in Task, task'[i][u] = Running
        PROVE  \E d \in Caller : IsRunner(d)' /\ Host[d] = i /\ TaskOf(Req(d)') = u
    <3>1. task[i][u] = Running /\ ~(i = Host[c] /\ u = t)
      BY <1>1, <1>7, <2>3
    <3>2. PICK d \in Caller : IsRunner(d) /\ Host[d] = i /\ TaskOf(Req(d)) = u
      BY <3>1 DEF OneRunnerPerTask
    <3> QED BY <3>1, <3>2, <1>4
  <2>4. \A d, f \in Caller : IsRunner(d)' /\ IsRunner(f)' /\ SameTask(d, f)' => d = f
    BY <1>4 DEF OneRunnerPerTask, SameTask
  <2> QED BY <2>1, <2>2, <2>3, <2>4 DEF OneRunnerPerTask
<1> QED BY <1>3, <1>5, <1>6, <1>8

\* What every way into a call leaves to be shown: that the table agrees.
LEMMA EnterInv ==
    ASSUME StoreInv, NEW c \in Caller, NEW r \in Request, NEW op \in {"fetch", "verify"},
           Enter(c, op, r), NEW point \in {"idle", "wait", "verify", "lease", "lookup"},
           pc' = [pc EXCEPT ![c] = point], UNCHANGED <<disk, work>>,
           point # "idle" => (op = "verify" <=> point = "verify"),
           point = "lease" => KeyOf[r] # NoKey,
           point = "lookup" => KeyOf[r] = NoKey,
           task' \in [Instance -> [Task -> Terminal \cup {NoTask, Running}]],
           cancelled' \in [Caller -> BOOLEAN],
           answer' \in [Caller -> Terminal \cup {NoAnswer}],
           OneRunnerPerTask'
    PROVE  StoreInv'
<1> USE DEF StoreInv
<1>1. Damaged(r) \in BOOLEAN
  BY DEF Damaged
<1>2. call'[c] \in [op : {"fetch", "verify"}, req : Request, stale : BOOLEAN]
  BY <1>1 DEF Enter, TypeOK
<1>3. /\ call' \in [Caller -> {NoCall} \cup
                               [op : {"fetch", "verify"}, req : Request, stale : BOOLEAN]]
      /\ pc' \in [Caller -> Point]
  BY <1>2 DEF Enter, TypeOK, Point, RunnerPoints, LeasedPoints
<1>4. TypeOK'
  BY <1>3 DEF TypeOK, disk
<1>5. /\ pc'[c] = point /\ call'[c].op = op /\ Req(c)' = r /\ call'[c] # NoCall
      /\ c \notin slots
      /\ \A d \in Caller \ {c} : pc'[d] = pc[d] /\ call'[d] = call[d]
      /\ UNCHANGED <<disk, work>>
  BY <1>2 DEF Enter, TypeOK, Req, NoCall, SlotsAreOwned, SlotPoints
<1>6. \A d \in Caller \ {c} : /\ HasKey(d)' = HasKey(d) /\ TheKey(d)' = TheKey(d)
                              /\ IsRunner(d)' <=> IsRunner(d)
  BY <1>5 DEF Req, HasKey, TheKey, IsRunner
<1>7. HasKey(c)' <=> KeyOf[r] # NoKey
  BY <1>5 DEF HasKey, TheKey
<1>8. CallsAreKnown' /\ WorkIsKnown' /\ SlotsAreOwned'
  BY <1>5, <1>6, <1>7 DEF CallsAreKnown, WorkIsKnown, SlotsAreOwned, disk, SlotPoints
<1>9. LeaseIsHeld' /\ FetchesOnlyWhatIsMissing'
  BY <1>5, <1>6, <1>7
  DEF LeaseIsHeld, FetchesOnlyWhatIsMissing, disk, SlotPoints, LeasedPoints, IsRunner
<1> QED BY <1>4, <1>8, <1>9

\* An idle caller runs nothing, and entering a call disturbs no other.
LEMMA OthersStay ==
    ASSUME StoreInv, NEW c \in Caller, NEW r \in Request,
           Enter(c, "fetch", r) \/ Enter(c, "verify", r),
           \A d \in Caller \ {c} : pc'[d] = pc[d]
    PROVE  /\ Req(c)' = r /\ ~IsRunner(c)
           /\ call'[c].op = IF Enter(c, "fetch", r) THEN "fetch" ELSE "verify"
           /\ \A d \in Caller \ {c} :
                  Req(d)' = Req(d) /\ (IsRunner(d)' <=> IsRunner(d))
           /\ \A d \in Caller :
                  pc[d] # "idle" =>
                      TaskOf(Req(d)) \in Task /\ Host[d] \in Instance
  BY CallerTypes
  DEF StoreInv, TypeOK, Enter, Req, IsRunner, RunnerPoints, LeasedPoints, SlotPoints,
      CallsAreKnown

\* Leading a task keeps the invariant: nobody ran it.
LEMMA LeadInv ==
    ASSUME StoreInv, NEW c \in Caller, NEW r \in Request, Lead(c, r) PROVE StoreInv'
<1> DEFINE point == IF KeyOf[r] # NoKey THEN "lease" ELSE "lookup"
           t == TaskOf(r)
<1>1. /\ pc' = [pc EXCEPT ![c] = point] /\ Enter(c, "fetch", r)
      /\ t \in Task /\ Host[c] \in Instance
      /\ pc'[c] = point /\ \A d \in Caller \ {c} : pc'[d] = pc[d]
  BY TaskOfType, StoreAssumption DEF Lead, Goto, StoreInv, TypeOK
<1>2. task' \in [Instance -> [Task -> Terminal \cup {NoTask, Running}]]
  BY <1>1 DEF Lead, StoreInv, TypeOK
<1>3. \A i \in Instance, u \in Task :
          task'[i][u] = IF i = Host[c] /\ u = t THEN Running ELSE task[i][u]
  BY <1>1 DEF Lead, StoreInv, TypeOK
<1>4. IsRunner(c)'
  BY <1>1, OthersStay DEF IsRunner, RunnerPoints, LeasedPoints
<1>5. OneRunnerPerTask'
  <2>0. task[Host[c]][t] = NoTask
    BY DEF Lead
  <2>1. ASSUME NEW d \in Caller, IsRunner(d)', d # c
        PROVE  IsRunner(d) /\ TheTask(d)' = Running /\ ~SameTask(c, d)'
    <3>1. IsRunner(d) /\ TheTask(d) = Running /\ pc[d] # "idle"
      BY <1>1, <2>1, OthersStay
      DEF OneRunnerPerTask, StoreInv, IsRunner, RunnerPoints, LeasedPoints, SlotPoints
    <3>2. Req(d)' = Req(d) /\ TaskOf(Req(d)) \in Task /\ Host[d] \in Instance /\ Req(c)' = r
      BY <1>1, <2>1, <3>1, OthersStay
    <3> QED BY <3>1, <3>2, <2>0, <1>3, Outcomes DEF TheTask, SameTask
  <2>2. TheTask(c)' = Running
    BY <1>1, <1>3, OthersStay DEF TheTask
  <2>3. ASSUME NEW d \in Caller, pc'[d] = "wait" PROVE TheTask(d)' # NoTask
    <3>1. pc[d] = "wait" /\ d # c /\ TheTask(d) # NoTask
      BY <1>1, <2>3, OthersStay DEF OneRunnerPerTask, StoreInv
    <3>2. Req(d)' = Req(d) /\ TaskOf(Req(d)) \in Task /\ Host[d] \in Instance
      BY <1>1, <3>1, OthersStay
    <3> QED BY <3>1, <3>2, <1>3, Outcomes DEF TheTask
  <2>4. ASSUME NEW i \in Instance, NEW u \in Task, task'[i][u] = Running
        PROVE  \E d \in Caller : IsRunner(d)' /\ Host[d] = i /\ TaskOf(Req(d)') = u
    <3>1. CASE i = Host[c] /\ u = t
      BY <1>1, <1>4, <3>1, OthersStay
    <3>2. CASE ~(i = Host[c] /\ u = t)
      <4>1. PICK d \in Caller : IsRunner(d) /\ Host[d] = i /\ TaskOf(Req(d)) = u
        BY <1>3, <2>4, <3>2 DEF OneRunnerPerTask, StoreInv
      <4> QED BY <1>1, <4>1, OthersStay
    <3> QED BY <3>1, <3>2
  <2>5. ASSUME NEW d \in Caller, NEW e \in Caller,
               IsRunner(d)', IsRunner(e)', SameTask(d, e)'
        PROVE  d = e
    <3>1. CASE d = c \/ e = c
      BY <2>1, <2>5, <3>1 DEF SameTask
    <3>2. CASE d # c /\ e # c
      BY <1>1, <2>1, <2>5, <3>2, OthersStay DEF OneRunnerPerTask, StoreInv, SameTask
    <3> QED BY <3>1, <3>2
  <2> QED BY <2>1, <2>2, <2>3, <2>4, <2>5 DEF OneRunnerPerTask
<1>6. cancelled' \in [Caller -> BOOLEAN] /\ answer' \in [Caller -> Terminal \cup {NoAnswer}]
  BY DEF Lead, StoreInv, TypeOK
<1> QED BY <1>1, <1>2, <1>5, <1>6, EnterInv DEF Lead

\* A call that leads no task keeps the table in agreement with its runners.
LEMMA TableStays ==
    ASSUME StoreInv, NEW c \in Caller, NEW r \in Request,
           Enter(c, "fetch", r) \/ Enter(c, "verify", r),
           \A d \in Caller \ {c} : pc'[d] = pc[d], UNCHANGED task,
           ~IsRunner(c)', pc'[c] = "wait" => task[Host[c]][TaskOf(r)] # NoTask
    PROVE  OneRunnerPerTask'
<1>1. \A d \in Caller : /\ IsRunner(d)' <=> IsRunner(d)
                        /\ IsRunner(d) => Req(d)' = Req(d) /\ TheTask(d)' = TheTask(d)
  BY OthersStay DEF TheTask
<1>2. ASSUME NEW d \in Caller, pc'[d] = "wait" PROVE TheTask(d)' # NoTask
  <2>1. CASE d = c
    BY <1>2, <2>1, OthersStay DEF TheTask
  <2>2. CASE d # c
    BY <1>2, <2>2, OthersStay DEF TheTask, StoreInv, OneRunnerPerTask
  <2> QED BY <2>1, <2>2
<1>3. ASSUME NEW i \in Instance, NEW u \in Task, task'[i][u] = Running
      PROVE  \E d \in Caller : IsRunner(d)' /\ Host[d] = i /\ TaskOf(Req(d)') = u
  BY <1>1, <1>3 DEF StoreInv, OneRunnerPerTask
<1> QED BY <1>1, <1>2, <1>3 DEF StoreInv, OneRunnerPerTask, SameTask

\* The ways into a call that lead no task keep the invariant.
LEMMA OtherStartsInv ==
    ASSUME StoreInv, NEW c \in Caller, NEW r \in Request,
           Join(c, r) \/ RefuseTask(c, r) \/ VerifyOnly(c, r)
    PROVE  StoreInv'
<1> USE DEF IsRunner, RunnerPoints, LeasedPoints, SlotPoints
<1>1. /\ task' \in [Instance -> [Task -> Terminal \cup {NoTask, Running}]]
      /\ cancelled' \in [Caller -> BOOLEAN]
      /\ answer' \in [Caller -> Terminal \cup {NoAnswer}]
  <2>1. [outcome |-> "LimitExceeded", of |-> r] \in Terminal
    BY Outcomes DEF Failure
  <2>2. /\ task' = task
        /\ cancelled' = cancelled \/ cancelled' = [cancelled EXCEPT ![c] = FALSE]
        /\ \E x \in Terminal \cup {NoAnswer} : answer' = [answer EXCEPT ![c] = x]
    BY <2>1 DEF Join, RefuseTask, VerifyOnly, Return
  <2> QED BY <2>2 DEF StoreInv, TypeOK
<1>2. CASE Join(c, r)
  <2>1. /\ Enter(c, "fetch", r) /\ pc' = [pc EXCEPT ![c] = "wait"]
        /\ pc'[c] = "wait" /\ \A d \in Caller \ {c} : pc'[d] = pc[d]
    BY <1>2 DEF Join, Goto, StoreInv, TypeOK
  <2>2. OneRunnerPerTask'
    BY <1>2, <2>1, TableStays DEF Join
  <2> QED BY <1>1, <1>2, <2>1, <2>2, EnterInv DEF Join
<1>3. CASE RefuseTask(c, r)
  <2>1. /\ Enter(c, "fetch", r) /\ pc' = [pc EXCEPT ![c] = "idle"]
        /\ pc'[c] = "idle" /\ \A d \in Caller \ {c} : pc'[d] = pc[d]
    BY <1>3 DEF RefuseTask, Return, Goto, StoreInv, TypeOK
  <2>2. OneRunnerPerTask'
    BY <1>3, <2>1, TableStays DEF RefuseTask
  <2> QED BY <1>1, <1>3, <2>1, <2>2, EnterInv DEF RefuseTask
<1>4. CASE VerifyOnly(c, r)
  <2>1. /\ Enter(c, "verify", r) /\ pc' = [pc EXCEPT ![c] = "verify"]
        /\ pc'[c] = "verify" /\ \A d \in Caller \ {c} : pc'[d] = pc[d]
    BY <1>4 DEF VerifyOnly, Goto, StoreInv, TypeOK
  <2>2. call'[c].op = "verify"
    BY <2>1 DEF Enter, StoreInv, TypeOK
  <2>3. OneRunnerPerTask'
    BY <1>4, <2>1, <2>2, TableStays DEF VerifyOnly
  <2> QED BY <1>1, <1>4, <2>1, <2>3, EnterInv DEF VerifyOnly
<1> QED BY <1>2, <1>3, <1>4

-----------------------------------------------------------------------------
(* The environment.                                                        *)

\* A cancellation changes a token, which the invariant does not look at.
LEMMA CancelInv ==
    ASSUME StoreInv, NEW c \in Caller, Cancel(c) PROVE StoreInv'
<1>1. TypeOK'
  BY DEF StoreInv, TypeOK, Cancel, disk
<1>2. \A d \in Caller : /\ IsRunner(d)' <=> IsRunner(d)
                        /\ TheTask(d)' = TheTask(d) /\ Req(d)' = Req(d)
                        /\ HasKey(d)' = HasKey(d) /\ TheKey(d)' = TheKey(d)
  BY DEF Cancel, IsRunner, TheTask, Req, HasKey, TheKey
<1>3. CallsAreKnown' /\ WorkIsKnown' /\ SlotsAreOwned' /\ LeaseIsHeld'
  BY <1>2 DEF StoreInv, Cancel, disk, CallsAreKnown, WorkIsKnown, SlotsAreOwned, LeaseIsHeld
<1>4. OneRunnerPerTask' /\ FetchesOnlyWhatIsMissing'
  BY <1>2
  DEF StoreInv, Cancel, disk, OneRunnerPerTask, SameTask, FetchesOnlyWhatIsMissing
<1> QED BY <1>1, <1>3, <1>4 DEF StoreInv

\* Damage marks calls that have a request, and changes nothing else of them.
LEMMA MarksCalls ==
    ASSUME StoreInv, NEW hit \in SUBSET Caller,
           \A c \in hit : pc[c] \in ObjectUnverified \cup RecordUnverified,
           MarkStale(hit)
    PROVE  /\ call' \in [Caller -> {NoCall} \cup
                              [op : {"fetch", "verify"}, req : Request, stale : BOOLEAN]]
           /\ \A c \in Caller \ hit : call'[c] = call[c]
           /\ \A c \in hit : call'[c] # NoCall /\ call'[c].stale = TRUE
           /\ \A c \in Caller : /\ call'[c].op = call[c].op /\ call'[c].req = call[c].req
                                /\ call[c] # NoCall => call'[c] # NoCall
<1>1. \A c \in hit : call[c] \in [op : {"fetch", "verify"}, req : Request, stale : BOOLEAN]
  BY CallerTypes DEF StoreInv, CallsAreKnown, ObjectUnverified, RecordUnverified
<1>2. /\ \A c \in Caller \ hit : call'[c] = call[c]
      /\ \A c \in hit : call'[c] = [call[c] EXCEPT !.stale = TRUE]
  BY DEF MarkStale
<1>3. \A c \in hit :
          /\ call'[c] \in [op : {"fetch", "verify"}, req : Request, stale : BOOLEAN]
          /\ call'[c].op = call[c].op /\ call'[c].req = call[c].req /\ call'[c].stale = TRUE
          /\ call'[c] # NoCall
  BY <1>1, <1>2 DEF NoCall
<1> QED
  BY <1>2, <1>3 DEF MarkStale, StoreInv, TypeOK

\* Damage to what has been published: a record that is damaged was there.
LEMMA DamageInv ==
    ASSUME StoreInv,
           \/ \E t \in Tree : DamageObject(t)
           \/ \E k \in Key : DamageRecord(k)
    PROVE  StoreInv'
<1>0. /\ call' \in [Caller -> {NoCall} \cup
                          [op : {"fetch", "verify"}, req : Request, stale : BOOLEAN]]
      /\ \A c \in Caller : /\ call'[c].op = call[c].op /\ call'[c].req = call[c].req
                           /\ call[c] # NoCall => call'[c] # NoCall
  <2>1. CASE \E t \in Tree : DamageObject(t)
    <3>1. PICK t \in Tree : DamageObject(t)
      BY <2>1
    <3>2. MarkStale({c \in Caller : pc[c] \in ObjectUnverified /\ TheTree(c) = t})
      BY <3>1 DEF DamageObject
    <3> QED
      BY <3>2, MarksCalls
  <2>2. CASE \E k \in Key : DamageRecord(k)
    <3>1. PICK k \in Key : DamageRecord(k)
      BY <2>2
    <3>2. MarkStale({c \in Caller : pc[c] \in RecordUnverified /\ TheKey(c) = k})
      BY <3>1 DEF DamageRecord
    <3> QED
      BY <3>2, MarksCalls
  <2> QED
    BY <2>1, <2>2
<1>1. /\ UNCHANGED <<lease, slots, task, pc, cancelled, work, answer>>
      /\ \A k \in Key : source[k] = "absent" => source'[k] = "absent"
  BY DEF DamageObject, DamageRecord, StoreInv, TypeOK
<1>2. TypeOK'
  BY <1>0, <1>1 DEF DamageObject, DamageRecord, StoreInv, TypeOK
<1>3. \A d \in Caller : /\ IsRunner(d)' <=> IsRunner(d)
                        /\ TheTask(d)' = TheTask(d) /\ Req(d)' = Req(d)
                        /\ HasKey(d)' = HasKey(d) /\ TheKey(d)' = TheKey(d)
  BY <1>0, <1>1 DEF IsRunner, TheTask, Req, HasKey, TheKey
<1>4. CallsAreKnown' /\ WorkIsKnown' /\ SlotsAreOwned' /\ LeaseIsHeld'
  BY <1>0, <1>1, <1>3 DEF StoreInv, CallsAreKnown, WorkIsKnown, SlotsAreOwned, LeaseIsHeld
<1>5. OneRunnerPerTask'
  BY <1>1, <1>3 DEF StoreInv, OneRunnerPerTask, SameTask
<1>6. FetchesOnlyWhatIsMissing'
  <2> SUFFICES ASSUME NEW d \in Caller, pc'[d] \in (SlotPoints \cup {"slot"}) \ {"cleanup"},
                      HasKey(d)'
               PROVE  source'[TheKey(d)'] = "absent"
    BY DEF FetchesOnlyWhatIsMissing
  <2>1. HasKey(d) /\ TheKey(d)' = TheKey(d) /\ source[TheKey(d)] = "absent"
    BY <1>1, <1>3 DEF StoreInv, FetchesOnlyWhatIsMissing
  <2>2. TheKey(d) \in Key
    BY <1>1, <2>1, CallerTypes DEF StoreInv, CallsAreKnown, SlotPoints
  <2> QED BY <1>1, <2>1, <2>2
<1> QED BY <1>2, <1>4, <1>5, <1>6 DEF StoreInv

\* The death of a process takes its runners, its table and its leases with
\* it, and nothing of the other processes.
LEMMA CrashInv ==
    ASSUME StoreInv, NEW i \in Instance, Crash(i) PROVE StoreInv'
<1> USE DEF StoreInv
<1> DEFINE dead == {c \in Caller : Host[c] = i}
<1>1. /\ lease' = [k \in Key |-> IF lease[k] \in dead THEN Orphan ELSE lease[k]]
      /\ slots' = {IF c \in dead THEN Orphan ELSE c : c \in slots}
      /\ task' = [task EXCEPT ![i] = [t \in Task |-> NoTask]]
      /\ pc' = [c \in Caller |-> IF c \in dead THEN "idle" ELSE pc[c]]
      /\ call' = [c \in Caller |-> IF c \in dead THEN NoCall ELSE call[c]]
      /\ cancelled' = [c \in Caller |-> IF c \in dead THEN FALSE ELSE cancelled[c]]
      /\ work' = [c \in Caller |-> IF c \in dead THEN "none" ELSE work[c]]
      /\ answer' = [c \in Caller |-> IF c \in dead THEN NoAnswer ELSE answer[c]]
      /\ UNCHANGED <<object, source>>
  BY DEF Crash
<1>2. TypeOK'
  <2>1. /\ object' \in [Tree -> {"absent", "open", "sealed", "drifted"}]
        /\ source' \in [Key -> {"absent", "written", "drifted"}]
        /\ lease' \in [Key -> Caller \cup {Orphan}]
    BY <1>1 DEF TypeOK
  <2>2. slots' \subseteq Caller \cup {Orphan}
    BY <1>1 DEF TypeOK
  <2>3. task' \in [Instance -> [Task -> Terminal \cup {NoTask, Running}]]
    BY <1>1 DEF TypeOK
  <2>4. /\ pc' \in [Caller -> Point]
        /\ cancelled' \in [Caller -> BOOLEAN]
        /\ work' \in [Caller -> Success \cup Failure \cup {"none"}]
    BY <1>1 DEF TypeOK, Point
  <2>5. /\ call' \in [Caller -> {NoCall} \cup
                          [op : {"fetch", "verify"}, req : Request, stale : BOOLEAN]]
        /\ answer' \in [Caller -> Terminal \cup {NoAnswer}]
    BY <1>1 DEF TypeOK
  <2> QED BY <2>1, <2>2, <2>3, <2>4, <2>5 DEF TypeOK
<1>3. \A d \in dead : pc'[d] = "idle" /\ ~IsRunner(d)' /\ d \notin slots'
  BY <1>1, StoreAssumption
  DEF IsRunner, RunnerPoints, LeasedPoints, SlotPoints
<1>4. \A d \in Caller \ dead :
          /\ pc'[d] = pc[d] /\ work'[d] = work[d] /\ call'[d] = call[d]
          /\ Req(d)' = Req(d) /\ HasKey(d)' = HasKey(d) /\ TheKey(d)' = TheKey(d)
          /\ IsRunner(d)' <=> IsRunner(d)
          /\ d \in slots' <=> d \in slots
  BY <1>1, StoreAssumption DEF Req, HasKey, TheKey, IsRunner
<1>5. CallsAreKnown' /\ WorkIsKnown' /\ SlotsAreOwned'
  BY <1>3, <1>4 DEF CallsAreKnown, WorkIsKnown, SlotsAreOwned, SlotPoints
<1>6. LeaseIsHeld'
  <2> SUFFICES ASSUME NEW d \in Caller, IsRunner(d)', HasKey(d)',
                      pc'[d] \in LeasedPoints \ {"release"}
               PROVE  lease'[TheKey(d)'] = d
    BY DEF LeaseIsHeld
  <2>1. d \in Caller \ dead /\ IsRunner(d) /\ HasKey(d) /\ pc[d] \in LeasedPoints \ {"release"}
    BY <1>3, <1>4
  <2>2. TheKey(d) \in Key /\ lease[TheKey(d)] = d
    BY <2>1, CallerTypes DEF LeaseIsHeld, CallsAreKnown, IsRunner, LeasedPoints, SlotPoints
  <2> QED BY <1>1, <1>4, <2>1, <2>2
<1>7. FetchesOnlyWhatIsMissing'
  BY <1>1, <1>3, <1>4 DEF FetchesOnlyWhatIsMissing, SlotPoints
<1>8. \A j \in Instance, u \in Task :
          task'[j][u] = IF j = i THEN NoTask ELSE task[j][u]
  BY <1>1 DEF TypeOK
<1>9. \A d \in Caller \ dead : call[d] # NoCall => TheTask(d)' = TheTask(d)
  BY <1>4, <1>8, CallerTypes DEF TheTask
<1>10. OneRunnerPerTask'
  <2>1. ASSUME NEW d \in Caller, IsRunner(d)'
        PROVE  d \notin dead /\ IsRunner(d) /\ TheTask(d)' = Running
    <3>1. d \notin dead /\ IsRunner(d) /\ call[d] # NoCall
      BY <1>3, <1>4, <2>1
      DEF CallsAreKnown, IsRunner, RunnerPoints, LeasedPoints, SlotPoints
    <3> QED BY <3>1, <1>9 DEF OneRunnerPerTask
  <2>2. ASSUME NEW d \in Caller, pc'[d] = "wait" PROVE TheTask(d)' # NoTask
    <3>1. d \notin dead /\ pc[d] = "wait" /\ call[d] # NoCall
      BY <1>3, <1>4, <2>2 DEF CallsAreKnown
    <3> QED BY <3>1, <1>9 DEF OneRunnerPerTask
  <2>3. ASSUME NEW j \in Instance, NEW u \in Task, task'[j][u] = Running
        PROVE  \E d \in Caller : IsRunner(d)' /\ Host[d] = j /\ TaskOf(Req(d)') = u
    <3>1. j # i /\ task[j][u] = Running
      BY <1>8, <2>3, Outcomes
    <3>2. PICK d \in Caller : IsRunner(d) /\ Host[d] = j /\ TaskOf(Req(d)) = u
      BY <3>1 DEF OneRunnerPerTask
    <3> QED BY <3>1, <3>2, <1>4
  <2>4. \A d, e \in Caller : IsRunner(d)' /\ IsRunner(e)' /\ SameTask(d, e)' => d = e
    BY <1>4, <2>1 DEF OneRunnerPerTask, SameTask
  <2> QED BY <2>1, <2>2, <2>3, <2>4 DEF OneRunnerPerTask
<1> QED BY <1>2, <1>5, <1>6, <1>7, <1>10

-----------------------------------------------------------------------------
(* The theorems.                                                           *)

\* Every step keeps the invariant.
LEMMA NextInv == StoreInv /\ [Next]_vars => StoreInv'
<1> SUFFICES ASSUME StoreInv, [Next]_vars PROVE StoreInv'
  OBVIOUS
<1>1. ASSUME NEW c \in Caller, Step(c) PROVE StoreInv'
  BY <1>1, WaitForTerminalInv, AcquireSourceLeaseInv, CancelLeaseWaitInv, LookUpInv,
     VerifyExistingObjectInv, VerifySourceRecordInv, CreateSlotInv, FetchAndPlanInv,
     MaterializeTreeInv, RenameObjectInv, FindWinnerInv, VerifyWinnerInv, SealObjectInv,
     RollBackObjectInv, PublishSourceRecordInv, RenameRecordInv, StepFailsInv,
     CleanupSlotInv, ReleaseLeaseInv, SettleInv
  DEF Step
<1>2. ASSUME NEW c \in Caller, NEW r \in Request, Start(c, r) PROVE StoreInv'
  BY <1>2, LeadInv, OtherStartsInv DEF Start
<1>3. CASE UNCHANGED vars
  <2>1. UNCHANGED <<object, source, lease, slots, task, pc, call, cancelled, work, answer>>
    BY <1>3 DEF vars
  <2>2. TypeOK'
    BY <2>1 DEF StoreInv, TypeOK
  <2>3. CallsAreKnown' /\ WorkIsKnown' /\ SlotsAreOwned' /\ LeaseIsHeld'
    BY <2>1 DEF StoreInv, CallsAreKnown, WorkIsKnown, SlotsAreOwned, LeaseIsHeld, HasKey,
                TheKey, Req, IsRunner
  <2>4. OneRunnerPerTask' /\ FetchesOnlyWhatIsMissing'
    BY <2>1 DEF StoreInv, OneRunnerPerTask, FetchesOnlyWhatIsMissing, SameTask, TheTask,
                HasKey, TheKey, Req, IsRunner
  <2> QED BY <2>2, <2>3, <2>4 DEF StoreInv
<1> QED BY <1>1, <1>2, <1>3, CancelInv, CrashInv, DamageInv DEF Next

\* The inductive invariant of the store, on which the others rest: leases,
\* slots, pending results and the task table agree with where each thread is.
THEOREM StoreInvariant == Spec => []StoreInv
  BY InitInv, NextInv, PTL DEF Spec

\* Every variable of the store has its type.
THEOREM StoreTypes == Spec => []TypeOK
<1>1. StoreInv => TypeOK
  BY DEF StoreInv
<1> QED BY <1>1, StoreInvariant, PTL

\* fetch deduplicates: a task marked as running has exactly one live runner,
\* so no waiter is left behind and no source is fetched twice at once.
THEOREM StoreDeduplicates == Spec => []OneRunnerPerTask
<1>1. StoreInv => OneRunnerPerTask
  BY DEF StoreInv
<1> QED BY <1>1, StoreInvariant, PTL

\* The lease makes the check before the fetch hold until the record is
\* renamed: no process fetches a source whose record is there.
THEOREM StoreFetchesOnlyWhatIsMissing == Spec => []FetchesOnlyWhatIsMissing
<1>1. StoreInv => FetchesOnlyWhatIsMissing
  BY DEF StoreInv
<1> QED BY <1>1, StoreInvariant, PTL

\* Only leading and reporting change the table, and they find their task
\* absent and running.
LEMMA TableKept ==
    ASSUME StoreInv, [Next]_vars,
           NEW i \in Instance, NEW t \in Task, task[i][t] \notin {NoTask, Running}
    PROVE  task'[i][t] = task[i][t] \/ \A u \in Task : task'[i][u] = NoTask
<1>1. ASSUME NEW c \in Caller, Step(c), ~Settle(c) PROVE task' = task
  BY <1>1
  DEF Step, WaitForTerminal, AcquireSourceLease, CancelLeaseWait, LookUp,
      VerifyExistingObject, VerifySourceRecord, CreateSlot, FetchAndPlan, MaterializeTree,
      RenameObject, FindWinner, VerifyWinner, SealObject, SealFails, RollBackObject,
      PublishSourceRecord, RenameRecord, StepFails, CleanupSlot, ReleaseLease, Proceed,
      Conclude
<1>2. ASSUME NEW c \in Caller, Settle(c) PROVE task'[i][t] = task[i][t]
  <2>1. IsRunner(c)
    BY <1>2 DEF StoreInv, CallsAreKnown, Settle, IsRunner, RunnerPoints
  <2>2. TheTask(c) = Running
    BY <2>1 DEF StoreInv, OneRunnerPerTask
  <2> QED BY <1>2, <2>2 DEF Settle, TheTask, StoreInv, TypeOK
<1>3. ASSUME NEW c \in Caller, NEW r \in Request, Start(c, r)
      PROVE  task'[i][t] = task[i][t]
  BY <1>3 DEF Start, Lead, Join, RefuseTask, VerifyOnly, StoreInv, TypeOK
<1>4. ASSUME NEW j \in Instance, Crash(j)
      PROVE  task'[i][t] = task[i][t] \/ \A u \in Task : task'[i][u] = NoTask
  BY <1>4 DEF Crash, StoreInv, TypeOK
<1>5. ASSUME \/ \E c \in Caller : Cancel(c)
             \/ \E x \in Tree : DamageObject(x)
             \/ \E k \in Key : DamageRecord(k)
             \/ UNCHANGED vars
      PROVE  task' = task
  BY <1>5 DEF Cancel, DamageObject, DamageRecord, vars
<1> QED BY <1>1, <1>2, <1>3, <1>4, <1>5 DEF Next

\* A result reported to the task table is never replaced: later callers of
\* the same open store get the same result, until its process dies.
THEOREM StoreRetainsResults == Spec => ResultsAreRetained
<1> DEFINE Kept == \A i \in Instance, t \in Task :
                       task[i][t] \notin {NoTask, Running} =>
                           task'[i][t] = task[i][t] \/ \A u \in Task : task'[i][u] = NoTask
<1>1. StoreInv /\ [Next]_vars => [Kept]_vars
  BY TableKept
<1>2. Spec => [][Kept]_vars
  BY <1>1, StoreInvariant, PTL DEF Spec
<1> QED BY <1>2 DEF ResultsAreRetained

-----------------------------------------------------------------------------
(* The objects and records.                                                *)
(*                                                                         *)
(* Whatever crashes or fails; what each theorem excludes is its            *)
(* hypothesis: that sealing fails, where others may have seen the object   *)
(* that is renamed back, and for the refinement that something else        *)
(* damages files.  The first lemmas say once what a step of a thread does  *)
(* to the disk and how it comes to the points that matter; the invariants  *)
(* below, each inductive beside StoreInv, use only that.                   *)

SealingSucceeds == "seal" \notin FailPoints

Told == {"Published", "Reused"}

\* Where the work of a thread has a result.
Resulted == {"record", "renameRecord", "cleanup", "release", "settle"}

-----------------------------------------------------------------------------
(* What a step does.                                                       *)

\* A step of one thread leaves the calls of the others alone.
LEMMA StepIsLocal ==
    ASSUME StoreInv, NEW c \in Caller, Step(c)
    PROVE  /\ call' = call
           /\ \A d \in Caller \ {c} :
                  pc'[d] = pc[d] /\ work'[d] = work[d] /\ answer'[d] = answer[d]
  BY DEF StoreInv, TypeOK, Step, WaitForTerminal, AcquireSourceLease, CancelLeaseWait, LookUp,
      VerifyExistingObject, VerifySourceRecord, CreateSlot, FetchAndPlan, MaterializeTree,
      RenameObject, FindWinner, VerifyWinner, SealObject, SealFails, RollBackObject,
      PublishSourceRecord, RenameRecord, StepFails, CleanupSlot, ReleaseLease, Settle, Proceed,
      Conclude, Goto, Return

\* A thread that steps is inside a call.
LEMMA StepPoint ==
    ASSUME StoreInv, NEW c \in Caller, Step(c)
    PROVE  /\ pc[c] # "idle" /\ call[c] # NoCall
           /\ Req(c) \in Request /\ TheTree(c) \in Tree
           /\ HasKey(c) => TheKey(c) \in Key
<1>1. pc[c] # "idle"
  BY DEF Step, WaitForTerminal, AcquireSourceLease, CancelLeaseWait, LookUp,
      VerifyExistingObject, VerifySourceRecord, CreateSlot, FetchAndPlan, MaterializeTree,
      RenameObject, FindWinner, VerifyWinner, SealObject, SealFails, RollBackObject,
      PublishSourceRecord, RenameRecord, StepFails, CleanupSlot, ReleaseLease, Settle
<1> QED
  BY <1>1, CallerTypes DEF StoreInv, CallsAreKnown

\* Objects are created by a rename onto nothing and changed by sealing; records are
\* created by their rename.
LEMMA StepOnDisk ==
    ASSUME StoreInv, SealingSucceeds, NEW c \in Caller, Step(c), pc[c] # "rollback"
    PROVE  /\ \A t \in Tree : object'[t] # object[t] =>
                  /\ t = TheTree(c)
                  /\ \/ pc[c] = "rename" /\ object[t] = "absent" /\ object'[t] = "open"
                     \/ pc[c] = "seal" /\ object[t] = "open" /\ object'[t] = "sealed"
           /\ \A k \in Key : source'[k] # source[k] =>
                  k = TheKey(c) /\ pc[c] = "renameRecord" /\ source'[k] = "written"
  BY CallerTypes DEF SealingSucceeds, StoreInv, TypeOK, CallsAreKnown,
      Step, WaitForTerminal, AcquireSourceLease, CancelLeaseWait, LookUp,
      VerifyExistingObject, VerifySourceRecord, CreateSlot, FetchAndPlan, MaterializeTree,
      RenameObject, FindWinner, VerifyWinner, SealObject, SealFails, RollBackObject,
      PublishSourceRecord, RenameRecord, StepFails, CleanupSlot, ReleaseLease, Settle, Sealed, disk

\* How a thread comes to a point of publication.
LEMMA StepArrives ==
    ASSUME StoreInv, SealingSucceeds, NEW c \in Caller, Step(c), pc[c] # "rollback"
    PROVE  /\ pc'[c] # "rollback"
           /\ pc'[c] = "seal" => pc[c] = "rename" /\ object[TheTree(c)] = "absent"
                                 /\ object'[TheTree(c)] = "open"
           /\ pc'[c] = "record" =>
                \/ pc[c] = "seal" /\ work'[c] = "Published"
                   /\ object'[TheTree(c)] = Sealed(TheTree(c))
                \/ pc[c] = "verifyWinner" /\ work'[c] = "Reused" /\ Intact(TheTree(c))
           /\ pc'[c] = "renameRecord" =>
                pc[c] = "record" /\ HasKey(c) /\ work'[c] = work[c]
           /\ pc'[c] = "verifyRecord" => pc[c] = "verify" /\ HasKey(c) /\ Intact(TheTree(c))
  BY CallerTypes DEF SealingSucceeds, StoreInv, TypeOK, CallsAreKnown,
      Step, WaitForTerminal, AcquireSourceLease, CancelLeaseWait, LookUp,
      VerifyExistingObject, VerifySourceRecord, CreateSlot, FetchAndPlan, MaterializeTree,
      RenameObject, FindWinner, VerifyWinner, SealObject, SealFails, RollBackObject,
      PublishSourceRecord, RenameRecord, StepFails, CleanupSlot, ReleaseLease, Settle, Proceed,
      Conclude, Goto, Return

\* A published object has been sealed.
LEMMA SealEnds ==
    ASSUME StoreInv, SealingSucceeds, NEW c \in Caller, Step(c), pc[c] = "seal"
    PROVE  object'[TheTree(c)] = Sealed(TheTree(c))
<1>1. SealObject(c)
  BY DEF SealingSucceeds, Step, WaitForTerminal, AcquireSourceLease, CancelLeaseWait, LookUp,
      VerifyExistingObject, VerifySourceRecord, CreateSlot, FetchAndPlan, MaterializeTree,
      RenameObject, FindWinner, VerifyWinner, SealFails, RollBackObject,
      PublishSourceRecord, RenameRecord, StepFails, CleanupSlot, ReleaseLease, Settle
<1> QED
  BY <1>1, StepPoint DEF SealObject, StoreInv, TypeOK

\* Where results come from, and which of them a call is told.
Verified(c) ==
    \/ pc[c] = "verifyWinner" /\ Intact(TheTree(c))
    \/ pc[c] = "verify" /\ ~HasKey(c) /\ Intact(TheTree(c))
    \/ pc[c] = "verifyRecord" /\ source[TheKey(c)] = "written"

\* A thread reports a result only after it has published, found or verified.
LEMMA StepResults ==
    ASSUME StoreInv, NEW c \in Caller, Step(c)
    PROVE  /\ work'[c] = "Published" =>
                (work[c] = "Published" /\ pc[c] # "settle") \/ pc[c] = "seal"
           /\ work'[c] = "Reused" => work[c] = "Reused" \/ Verified(c)
           /\ answer'[c].outcome = "Published" =>
                answer'[c] = answer[c] \/ work[c] = "Published"
           /\ answer'[c].outcome = "Reused" =>
                answer'[c] = answer[c] \/ work[c] = "Reused" \/ Verified(c)
<1> USE DEF StoreInv, TypeOK, Success, Failure
<1>1. CASE WaitForTerminal(c)
  <2>1. TheTask(c) \in Terminal \cup {NoTask, Running} /\ call[c] # NoCall
    BY <1>1, CallerTypes DEF WaitForTerminal, CallsAreKnown, TheTask
  <2>2. TheTask(c) # NoTask
    BY <1>1 DEF OneRunnerPerTask, WaitForTerminal
  <2>3. work'[c] = work[c] /\ pc[c] = "wait"
    BY <1>1 DEF WaitForTerminal
  <2>4. CASE TheTask(c) # Running /\ TheTask(c).outcome \in Success
    <3>1. TheTask(c) \in Terminal
      BY <2>1, <2>2, <2>4
    <3>2. PICK x \in Terminal : x = TheTask(c)
      BY <3>1
    <3>3. answer'[c] = [x EXCEPT !.outcome = "Deduplicated"]
      BY <1>1, <2>4, <3>2 DEF WaitForTerminal, Return
    <3>4. answer'[c].outcome = "Deduplicated"
      BY <3>3 DEF Terminal
    <3> QED
      BY <2>3, <3>4
  <2>5. CASE TheTask(c) # Running /\ TheTask(c).outcome \notin Success
    BY <1>1, <2>3, <2>5 DEF WaitForTerminal, Return
  <2>6. CASE TheTask(c) = Running
    BY <1>1, <2>3, <2>6 DEF WaitForTerminal, Return
  <2> QED
    BY <2>4, <2>5, <2>6
<1>2. CASE Settle(c)
  BY <1>2 DEF Settle, Return
<1>3. CASE Step(c) /\ ~WaitForTerminal(c) /\ ~Settle(c)
  BY <1>3, CallerTypes
  DEF CallsAreKnown, WorkIsKnown, Verified, Step, WaitForTerminal, AcquireSourceLease, CancelLeaseWait, LookUp,
      VerifyExistingObject, VerifySourceRecord, CreateSlot, FetchAndPlan, MaterializeTree,
      RenameObject, FindWinner, VerifyWinner, SealObject, SealFails, RollBackObject,
      PublishSourceRecord, RenameRecord, StepFails, CleanupSlot, ReleaseLease, Settle, Proceed,
      Conclude, Goto, Return
<1> QED
  BY <1>1, <1>2, <1>3

-----------------------------------------------------------------------------
(* Everything that is not a step of a thread.                              *)

\* Damage comes before the call has verified what is damaged.
Struck(d) ==
    /\ call'[d].stale = TRUE
    /\ \/ pc[d] \in ObjectUnverified /\ object'[TheTree(d)] = "drifted"
       \/ pc[d] \in RecordUnverified /\ HasKey(d) /\ source'[TheKey(d)] = "drifted"
SameCall(d) ==
    /\ pc'[d] = pc[d] /\ work'[d] = work[d] /\ answer'[d] = answer[d]
    /\ call'[d].op = call[d].op /\ call'[d].req = call[d].req
    /\ call'[d] = call[d] \/ Struck(d)
EmptyCall(d) == pc'[d] = "idle" /\ call'[d] = NoCall /\ work'[d] = "none" /\ answer'[d] = NoAnswer
NewCall(d) ==
    /\ pc[d] = "idle" /\ pc'[d] \in {"idle", "lease", "lookup", "wait", "verify"}
    /\ work'[d] = work[d] /\ answer'[d].outcome \notin Told
    /\ pc'[d] # "idle" => answer'[d] = NoAnswer
    /\ \E r \in Request : call'[d].req = r /\ call'[d].stale = Damaged(r)
    /\ UNCHANGED <<object, source>>

\* Calls begin, are lost with their process or are cancelled, and damage is done:
\* none of it creates an object, a record or a result.
LEMMA OtherSteps ==
    ASSUME StoreInv, [Next]_vars, ~(\E c \in Caller : Step(c))
    PROVE  /\ \A t \in Tree : object'[t] = object[t] \/ (Intact(t) /\ object'[t] = "drifted")
           /\ \A k \in Key :
                  source'[k] = source[k] \/ (source[k] = "written" /\ source'[k] = "drifted")
           /\ \A d \in Caller : SameCall(d) \/ EmptyCall(d) \/ NewCall(d)
           /\ \A i \in Instance, t \in Task :
                  task'[i][t] = task[i][t] \/ task'[i][t] \in {NoTask, Running}
<1> USE DEF StoreInv, TypeOK
<1>1. CASE UNCHANGED vars
  BY <1>1 DEF vars, SameCall
<1>2. ASSUME NEW c \in Caller, NEW r \in Request, Start(c, r)
      PROVE  /\ UNCHANGED disk /\ NewCall(c) /\ \A d \in Caller \ {c} : SameCall(d)
             /\ \A i \in Instance, t \in Task :
                    task'[i][t] = task[i][t] \/ task'[i][t] = Running
  <2>1. /\ UNCHANGED <<object, source, lease, slots, work>> /\ pc[c] = "idle"
        /\ pc'[c] \in {"idle", "lease", "lookup", "wait", "verify"}
        /\ \A d \in Caller \ {c} : SameCall(d)
    BY <1>2 DEF Start, Lead, Join, RefuseTask, VerifyOnly, Enter, Goto, Return, disk, SameCall
  <2>2. call'[c].req = r /\ call'[c].stale = Damaged(r)
    BY <1>2 DEF Start, Lead, Join, RefuseTask, VerifyOnly, Enter
  <2>3. answer'[c].outcome \notin Told /\ (pc'[c] # "idle" => answer'[c] = NoAnswer)
    BY <1>2 DEF Start, Lead, Join, RefuseTask, VerifyOnly, Return, Goto, NoAnswer, Told
  <2>4. \A i \in Instance, t \in Task : task'[i][t] = task[i][t] \/ task'[i][t] = Running
    BY <1>2, StoreAssumption, TaskOfType DEF Start, Lead, Join, RefuseTask, VerifyOnly
  <2> QED
    BY <2>1, <2>2, <2>3, <2>4 DEF NewCall, disk
<1>3. ASSUME NEW i \in Instance, Crash(i)
      PROVE  /\ UNCHANGED <<object, source>>
             /\ \A d \in Caller : SameCall(d) \/ EmptyCall(d)
             /\ \A j \in Instance, t \in Task :
                    task'[j][t] = task[j][t] \/ task'[j][t] = NoTask
  BY <1>3 DEF Crash, SameCall, EmptyCall
<1>4. ASSUME NEW c \in Caller, Cancel(c)
      PROVE  UNCHANGED <<object, source, task>> /\ \A d \in Caller : SameCall(d)
  BY <1>4 DEF Cancel, disk, SameCall
<1>5. ASSUME NEW t \in Tree, DamageObject(t)
      PROVE  /\ UNCHANGED <<source, task>> /\ \A d \in Caller : SameCall(d)
             /\ \A u \in Tree : object'[u] = object[u] \/ (Intact(u) /\ object'[u] = "drifted")
  <2> DEFINE hit == {c \in Caller : pc[c] \in ObjectUnverified /\ TheTree(c) = t}
  <2>1. /\ \A d \in Caller \ hit : call'[d] = call[d]
        /\ \A d \in hit : call'[d].stale = TRUE
        /\ \A d \in Caller : call'[d].op = call[d].op /\ call'[d].req = call[d].req
    <3>1. MarkStale(hit)
      BY <1>5 DEF DamageObject
    <3> HIDE DEF hit
    <3>2. hit \in SUBSET Caller /\ \A c \in hit : pc[c] \in ObjectUnverified
      BY DEF hit
    <3> QED
      BY <3>1, <3>2, MarksCalls
  <2>2. /\ object' = [object EXCEPT ![t] = "drifted"] /\ Intact(t)
        /\ UNCHANGED <<source, task, pc, work, answer>>
    BY <1>5 DEF DamageObject
  <2> QED
    BY <2>1, <2>2 DEF SameCall, Struck
<1>6. ASSUME NEW k \in Key, DamageRecord(k)
      PROVE  /\ UNCHANGED <<object, task>> /\ \A d \in Caller : SameCall(d)
             /\ \A j \in Key :
                    source'[j] = source[j] \/ (source[j] = "written" /\ source'[j] = "drifted")
  <2> DEFINE hit == {c \in Caller : pc[c] \in RecordUnverified /\ TheKey(c) = k}
  <2>1. /\ \A d \in Caller \ hit : call'[d] = call[d]
        /\ \A d \in hit : call'[d].stale = TRUE
        /\ \A d \in Caller : call'[d].op = call[d].op /\ call'[d].req = call[d].req
    <3>1. MarkStale(hit)
      BY <1>6 DEF DamageRecord
    <3> HIDE DEF hit
    <3>2. hit \in SUBSET Caller /\ \A c \in hit : pc[c] \in RecordUnverified
      BY DEF hit
    <3> QED
      BY <3>1, <3>2, MarksCalls
  <2>2. /\ source' = [source EXCEPT ![k] = "drifted"] /\ source[k] = "written"
        /\ UNCHANGED <<object, task, pc, work, answer>>
    BY <1>6 DEF DamageRecord
  <2>3. \A d \in hit : HasKey(d) /\ source'[TheKey(d)] = "drifted"
    BY <2>2, StoreAssumption DEF HasKey
  <2> QED
    BY <2>1, <2>2, <2>3 DEF SameCall, Struck
<1> QED
  BY <1>1, <1>2, <1>3, <1>4, <1>5, <1>6 DEF Next, disk

-----------------------------------------------------------------------------
(* Records have their objects.                                             *)

Kept ==
    /\ \A c \in Caller :
          /\ pc[c] # "rollback"
          /\ pc[c] \in {"seal", "record", "renameRecord"} => object[TheTree(c)] # "absent"
    /\ RecordHasObject

\* No step of a thread takes the object away from under a record or from a
\* thread that is about to publish one.
LEMMA KeptByStep ==
    ASSUME StoreInv, SealingSucceeds, Kept, NEW c \in Caller, Step(c) PROVE Kept'
<1>1. pc[c] # "rollback" /\ call' = call
  BY StepIsLocal DEF Kept
<1>2. \A t \in Tree : object[t] # "absent" => object'[t] # "absent"
  BY <1>1, StepOnDisk
<1>3. ASSUME NEW d \in Caller
      PROVE  /\ pc'[d] # "rollback"
             /\ pc'[d] \in {"seal", "record", "renameRecord"} => object'[TheTree(d)'] # "absent"
  <2>1. pc'[d] # "idle" /\ d # c => TheTree(d) \in Tree
    BY StepIsLocal, CallerTypes DEF StoreInv, CallsAreKnown
  <2>2. TheTree(d)' = TheTree(d)
    BY <1>1 DEF TheTree, Req
  <2>3. CASE d # c
    BY <1>2, <2>1, <2>2, <2>3, StepIsLocal DEF Kept
  <2>4. CASE d = c
    <3>1. pc[c] # "idle" /\ TheTree(c) \in Tree
      BY StepPoint
    <3> QED
      BY <1>1, <1>2, <2>2, <2>4, <3>1, StepArrives DEF Kept, Intact, Sealed
  <2> QED
    BY <2>3, <2>4
<1>4. RecordHasObject'
  <2> SUFFICES ASSUME NEW k \in Key, source'[k] # "absent", NEW r \in Request, KeyOf[r] = k
               PROVE  object'[TreeOf[r]] # "absent"
    BY DEF RecordHasObject
  <2>1. TreeOf[r] \in Tree
    BY StoreAssumption
  <2>2. CASE source[k] # "absent"
    BY <1>2, <2>1, <2>2 DEF Kept, RecordHasObject
  <2>3. CASE source[k] = "absent"
    <3>1. k = TheKey(c) /\ pc[c] = "renameRecord"
      BY <1>1, <2>3, StepOnDisk
    <3>2. TreeOf[r] = TheTree(c)
      BY <3>1, StepPoint, KeyNamesTree, StoreAssumption DEF TheKey, TheTree
    <3> QED
      BY <1>2, <2>1, <3>1, <3>2 DEF Kept
  <2> QED
    BY <2>2, <2>3
<1> QED
  BY <1>3, <1>4 DEF Kept

\* Neither do calls that begin or end, crashes and damage.
LEMMA KeptByOthers ==
    ASSUME StoreInv, [Next]_vars, ~(\E c \in Caller : Step(c)), Kept PROVE Kept'
<1>1. \A t \in Tree : object[t] # "absent" => object'[t] # "absent"
  BY OtherSteps DEF StoreInv, TypeOK
<1>2. \A k \in Key : source'[k] # "absent" => source[k] # "absent"
  BY OtherSteps DEF StoreInv, TypeOK
<1>3. ASSUME NEW d \in Caller
      PROVE  /\ pc'[d] # "rollback"
             /\ pc'[d] \in {"seal", "record", "renameRecord"} => object'[TheTree(d)'] # "absent"
  <2>1. CASE SameCall(d)
    BY <1>1, <2>1, CallerTypes DEF SameCall, Kept, TheTree, Req, StoreInv, CallsAreKnown
  <2>2. CASE EmptyCall(d) \/ NewCall(d)
    BY <2>2 DEF EmptyCall, NewCall
  <2> QED
    BY <2>1, <2>2, OtherSteps
<1>4. RecordHasObject'
  BY <1>1, <1>2, StoreAssumption DEF Kept, RecordHasObject
<1> QED
  BY <1>3, <1>4 DEF Kept

\* A record in sources/ always names an object that is there: publish_source_record
\* comes after the object is visible, and a visible object is not taken away.
THEOREM RecordsHaveObjects == ASSUME SealingSucceeds PROVE Spec => []RecordHasObject
<1>1. Init => Kept
  BY DEF Init, Kept, RecordHasObject
<1>2. StoreInv /\ Kept /\ [Next]_vars => Kept'
  BY KeptByStep, KeptByOthers
<1>3. Kept => RecordHasObject
  BY DEF Kept
<1> QED
  BY <1>1, <1>2, <1>3, StoreInvariant, PTL DEF Spec

-----------------------------------------------------------------------------
(* Damage is refused.                                                      *)

IsStale(c) == call[c].op # "none" /\ call[c].stale

\* Work has a result only where it is reported from, an answer is given when a call
\* ends, and a call that has yet to verify what is damaged never comes to publish
\* or to accept.
Refused ==
    /\ \A c \in Caller : pc[c] # "rollback"
    /\ \A c \in Caller : work[c] # "none" => pc[c] \in Resulted
    /\ \A c \in Caller : pc[c] # "idle" => answer[c] = NoAnswer
    /\ \A c \in Caller : IsStale(c) =>
          /\ Damaged(Req(c))
          /\ pc[c] \notin {"seal", "record", "renameRecord"}
          /\ pc[c] = "verifyRecord" => source[TheKey(c)] = "drifted"
          /\ work[c] \notin Told
          /\ answer[c].outcome \notin Told

\* What is damaged stays damaged.
LEMMA DamageStays ==
    ASSUME StoreInv, SealingSucceeds, [Next]_vars, \A c \in Caller : pc[c] # "rollback"
    PROVE  /\ \A t \in Tree : object[t] = "drifted" => object'[t] = "drifted"
           /\ \A k \in Key : source[k] = "drifted" => source'[k] = "drifted"
<1>1. ASSUME NEW c \in Caller, Step(c)
      PROVE  /\ \A t \in Tree : object[t] = "drifted" => object'[t] = "drifted"
             /\ \A k \in Key : source[k] = "drifted" => source'[k] = "drifted"
  <2>1. pc[c] = "renameRecord" => HasKey(c) /\ source[TheKey(c)] = "absent"
    BY DEF StoreInv, CallsAreKnown, FetchesOnlyWhatIsMissing, SlotPoints
  <2> QED
    BY <1>1, <2>1, StepOnDisk
<1> QED
  BY <1>1, OtherSteps DEF Intact

\* Damage is where the verification looks: at the object, and at the record of a
\* source.  A runner that publishes has found neither.
LEMMA DamageIsSeen ==
    ASSUME StoreInv, NEW c \in Caller, pc[c] # "idle", Damaged(Req(c))
    PROVE  /\ Verified(c) => pc[c] = "verifyRecord" /\ source[TheKey(c)] = "written"
           /\ pc[c] = "rename" => object[TheTree(c)] # "absent"
  BY CallerTypes DEF Damaged, Verified, Intact, StoreInv, CallsAreKnown, HasKey, TheKey, TheTree,
     FetchesOnlyWhatIsMissing, SlotPoints

\* After a step, work that has a result is at a point that keeps it.
LEMMA WorkByStep ==
    ASSUME StoreInv, Refused, NEW c \in Caller, Step(c)
    PROVE  work'[c] # "none" => pc'[c] \in Resulted
  BY DEF Refused, Resulted, StoreInv, TypeOK, CallsAreKnown, Step, WaitForTerminal, AcquireSourceLease, CancelLeaseWait, LookUp,
      VerifyExistingObject, VerifySourceRecord, CreateSlot, FetchAndPlan, MaterializeTree,
      RenameObject, FindWinner, VerifyWinner, SealObject, SealFails, RollBackObject,
      PublishSourceRecord, RenameRecord, StepFails, CleanupSlot, ReleaseLease, Settle, Proceed,
      Conclude, Goto, Return

\* A thread answers when its call ends.
LEMMA AnswerByStep ==
    ASSUME StoreInv, NEW c \in Caller, Step(c), pc'[c] # "idle"
    PROVE  answer'[c] = answer[c]
  BY DEF StoreInv, TypeOK, Step, WaitForTerminal, AcquireSourceLease, CancelLeaseWait, LookUp,
      VerifyExistingObject, VerifySourceRecord, CreateSlot, FetchAndPlan, MaterializeTree,
      RenameObject, FindWinner, VerifyWinner, SealObject, SealFails, RollBackObject,
      PublishSourceRecord, RenameRecord, StepFails, CleanupSlot, ReleaseLease, Settle, Proceed,
      Conclude, Goto, Return

\* A thread that has yet to find the damage comes to no good result by a step of
\* its own.
LEMMA RefusedByStep ==
    ASSUME StoreInv, SealingSucceeds, Refused, [Next]_vars, NEW c \in Caller, Step(c)
    PROVE  Refused'
<1>1. pc[c] # "rollback" /\ call' = call
  BY StepIsLocal DEF Refused
<1>2. ASSUME NEW d \in Caller
      PROVE  /\ pc'[d] # "rollback" /\ (work'[d] # "none" => pc'[d] \in Resulted)
             /\ pc'[d] # "idle" => answer'[d] = NoAnswer
  BY <1>1, StepIsLocal, StepArrives, StepPoint, WorkByStep, AnswerByStep DEF Refused
<1>3. ASSUME NEW d \in Caller, IsStale(d)
      PROVE  /\ Req(d) \in Request /\ TheTree(d) \in Tree /\ (HasKey(d) => TheKey(d) \in Key)
             /\ Damaged(Req(d))'
  <2>1. Req(d) \in Request /\ TheTree(d) \in Tree /\ (HasKey(d) => TheKey(d) \in Key)
    BY <1>3, CallerTypes DEF IsStale, NoCall, StoreInv
  <2> QED
    BY <1>1, <1>3, <2>1, DamageStays DEF Refused, Damaged, Req, TheTree, HasKey, TheKey
<1>4. ASSUME NEW d \in Caller, IsStale(d), d # c
      PROVE  /\ pc'[d] \notin {"seal", "record", "renameRecord"}
             /\ pc'[d] = "verifyRecord" => source'[TheKey(d)] = "drifted"
             /\ work'[d] \notin Told /\ answer'[d].outcome \notin Told
  <2>1. pc[d] = "verifyRecord" => HasKey(d)
    BY DEF StoreInv, CallsAreKnown
  <2> QED
    BY <1>3, <1>4, <2>1, StepIsLocal, DamageStays DEF Refused
<1>5. ASSUME IsStale(c)
      PROVE  /\ pc'[c] \notin {"seal", "record", "renameRecord"}
             /\ pc'[c] = "verifyRecord" => source'[TheKey(c)] = "drifted"
             /\ work'[c] \notin Told /\ answer'[c].outcome \notin Told
  <2>1. /\ Damaged(Req(c)) /\ pc[c] # "idle"
        /\ pc[c] \notin {"seal", "record", "renameRecord"}
        /\ pc[c] = "verifyRecord" => source[TheKey(c)] = "drifted"
        /\ work[c] \notin Told /\ answer[c].outcome \notin Told
    BY <1>5, StepPoint DEF Refused
  <2>2. ~Verified(c)
    BY <2>1, DamageIsSeen
  <2>3. pc[c] = "rename" => object[TheTree(c)] # "absent"
    BY <2>1, DamageIsSeen
  <2>4. work'[c] \notin Told /\ answer'[c].outcome \notin Told
    BY <2>1, <2>2, StepResults DEF Told
  <2>5. pc'[c] \notin {"seal", "record", "renameRecord"}
    BY <1>1, <2>1, <2>2, <2>3, StepArrives DEF Verified
  <2>6. pc'[c] = "verifyRecord" => source'[TheKey(c)] = "drifted"
    <3>1. SUFFICES ASSUME pc'[c] = "verifyRecord" PROVE source'[TheKey(c)] = "drifted"
      OBVIOUS
    <3>2. pc[c] = "verify" /\ HasKey(c) /\ Intact(TheTree(c))
      BY <1>1, <3>1, StepArrives
    <3>3. source[TheKey(c)] = "drifted"
      BY <2>1, <3>2 DEF Damaged, Intact, TheTree, TheKey, HasKey
    <3> QED
      BY <1>3, <1>5, <3>2, <3>3, DamageStays DEF Refused
  <2> QED
    BY <2>4, <2>5, <2>6
<1> QED
  BY <1>1, <1>2, <1>3, <1>4, <1>5 DEF Refused, IsStale, Req, TheKey

\* Nor by a step that is not a thread's.
LEMMA RefusedByOthers ==
    ASSUME StoreInv, SealingSucceeds, [Next]_vars, ~(\E c \in Caller : Step(c)), Refused
    PROVE  Refused'
<1>1. ASSUME NEW d \in Caller
      PROVE  /\ pc'[d] # "rollback" /\ (work'[d] # "none" => pc'[d] \in Resulted)
             /\ pc'[d] # "idle" => answer'[d] = NoAnswer
             /\ IsStale(d)' =>
                  /\ Damaged(Req(d))'
                  /\ pc'[d] \notin {"seal", "record", "renameRecord"}
                  /\ pc'[d] = "verifyRecord" => source'[TheKey(d)'] = "drifted"
                  /\ work'[d] \notin Told /\ answer'[d].outcome \notin Told
  <2>1. CASE SameCall(d)
    <3>1. /\ Req(d)' = Req(d) /\ TheKey(d)' = TheKey(d) /\ HasKey(d)' = HasKey(d)
          /\ pc'[d] = pc[d] /\ work'[d] = work[d] /\ answer'[d] = answer[d]
      BY <2>1 DEF SameCall, Req, TheKey, HasKey
    <3>2. ASSUME call[d] # NoCall
          PROVE  /\ Req(d) \in Request /\ TreeOf[Req(d)] \in Tree
                 /\ KeyOf[Req(d)] # NoKey => KeyOf[Req(d)] \in Key
      BY <3>2, CallerTypes DEF StoreInv, TheTree, TheKey, HasKey
    <3>3. CASE call'[d] = call[d]
      <4>1. IsStale(d)' = IsStale(d) /\ (IsStale(d) => call[d] # NoCall)
        BY <3>3 DEF IsStale, NoCall
      <4>2. IsStale(d) => Damaged(Req(d))'
        BY <3>1, <3>2, <4>1, DamageStays DEF Refused, Damaged
      <4>3. IsStale(d) /\ pc[d] = "verifyRecord" => source'[TheKey(d)] = "drifted"
        BY <3>2, <4>1, DamageStays DEF Refused, StoreInv, CallsAreKnown, HasKey, TheKey
      <4> QED
        BY <3>1, <4>1, <4>2, <4>3 DEF Refused
    <3>4. CASE Struck(d)
      <4>1. /\ pc[d] \in ObjectUnverified \cup RecordUnverified
            /\ pc[d] \notin {"idle", "seal", "record", "renameRecord"} \cup Resulted
        BY <3>4 DEF Struck, ObjectUnverified, RecordUnverified, Resulted
      <4>2. work[d] = "none" /\ answer[d] = NoAnswer
        BY <4>1 DEF Refused
      <4>3. Damaged(Req(d))'
        BY <3>1, <3>4 DEF Struck, Damaged, TheTree, TheKey, HasKey
      <4>4. pc[d] = "verifyRecord" => source'[TheKey(d)] = "drifted"
        BY <3>4 DEF Struck, ObjectUnverified
      <4> QED
        BY <3>1, <4>1, <4>2, <4>3, <4>4 DEF Refused, Told, NoAnswer
    <3> QED
      BY <2>1, <3>3, <3>4 DEF SameCall
  <2>2. CASE EmptyCall(d)
    BY <2>2 DEF EmptyCall, IsStale, NoCall
  <2>3. CASE NewCall(d)
    <3>1. work[d] = "none"
      BY <2>3 DEF NewCall, Refused, Resulted
    <3>2. call'[d].stale = Damaged(Req(d)')
      BY <2>3 DEF NewCall, Req
    <3>3. Damaged(Req(d)') => Damaged(Req(d))'
      BY <2>3 DEF NewCall, Damaged
    <3> QED
      BY <2>3, <3>1, <3>2, <3>3 DEF NewCall, IsStale, Told
  <2> QED
    BY <2>1, <2>2, <2>3, OtherSteps
<1> QED
  BY <1>1 DEF Refused

\* verify_existing_object and verify_source_record fail closed: a call whose object
\* or record is damaged before the call verifies it, at its start or while it waits,
\* looks up, fetches or finds a winner, is never told it was published or reused.
THEOREM DamageIsRefused == ASSUME SealingSucceeds PROVE Spec => []DriftIsRefused
<1>1. Init => Refused
  BY DEF Init, Refused, IsStale, NoCall
<1>2. StoreInv /\ Refused /\ [Next]_vars => Refused'
  BY RefusedByStep, RefusedByOthers
<1>3. Refused => DriftIsRefused
  BY DEF Refused, DriftIsRefused, IsStale, Told
<1> QED
  BY <1>1, <1>2, <1>3, StoreInvariant, PTL DEF Spec

-----------------------------------------------------------------------------
(* One publication.                                                        *)

\* Calls that renamed the object into place and have not reported it yet.
Claims(c) == pc[c] = "seal" \/ work[c] = "Published"
IsPublished(i, t) == task[i][t].outcome = "Published"
TreeIn(i, t) == TreeOf[task[i][t].of]

\* Of a tree there is one claim or one published result, and the object is there.
Claimed ==
    /\ \A c \in Caller :
          /\ pc[c] = "seal" => object[TheTree(c)] \in {"open", "drifted"}
          /\ work[c] = "Published" => object[TheTree(c)] \in {"sealed", "drifted"}
    /\ \A i \in Instance, t \in Task :
          IsPublished(i, t) => object[TreeIn(i, t)] \in {"sealed", "drifted"}
    /\ \A c, d \in Caller : Claims(c) /\ Claims(d) /\ TheTree(c) = TheTree(d) => c = d
    /\ \A c \in Caller, i \in Instance, t \in Task :
          Claims(c) /\ IsPublished(i, t) => TreeIn(i, t) # TheTree(c)
    /\ \A i, j \in Instance, t, u \in Task :
          IsPublished(i, t) /\ IsPublished(j, u) /\ TreeIn(i, t) = TreeIn(j, u) =>
              i = j /\ t = u

\* What is claimed, and what the table has as published, are trees.
LEMMA PublishedTypes ==
    ASSUME StoreInv
    PROVE  /\ \A c \in Caller : Claims(c) /\ Refused => TheTree(c) \in Tree
           /\ \A i \in Instance, t \in Task :
                  IsPublished(i, t) => task[i][t] \in Terminal /\ TreeIn(i, t) \in Tree
<1>1. ASSUME NEW c \in Caller, Claims(c), Refused PROVE TheTree(c) \in Tree
  BY <1>1, CallerTypes DEF Claims, Refused, Resulted, StoreInv, CallsAreKnown
<1>2. ASSUME NEW i \in Instance, NEW t \in Task, IsPublished(i, t)
      PROVE  task[i][t] \in Terminal /\ TreeIn(i, t) \in Tree
  <2>1. task[i][t] \in Terminal
    BY <1>2 DEF StoreInv, TypeOK, IsPublished, NoTask, Running
  <2> QED
    BY <2>1, StoreAssumption DEF TreeIn, Terminal
<1> QED
  BY <1>1, <1>2

\* The table changes where a runner reports.
LEMMA StepOnTable ==
    ASSUME StoreInv, NEW c \in Caller, Step(c), NEW i \in Instance, NEW t \in Task,
           task'[i][t] # task[i][t]
    PROVE  /\ pc[c] = "settle" /\ pc'[c] = "idle" /\ work'[c] = "none"
           /\ i = Host[c] /\ t = TaskOf(Req(c))
           /\ task'[i][t].outcome = work[c] /\ task'[i][t].of = Req(c)
<1>1. Settle(c)
  BY DEF Step, WaitForTerminal, AcquireSourceLease, CancelLeaseWait, LookUp,
      VerifyExistingObject, VerifySourceRecord, CreateSlot, FetchAndPlan, MaterializeTree,
      RenameObject, FindWinner, VerifyWinner, SealObject, SealFails, RollBackObject,
      PublishSourceRecord, RenameRecord, StepFails, CleanupSlot, ReleaseLease, Proceed, Conclude
<1> QED
  BY <1>1 DEF Settle, Return, Goto, StoreInv, TypeOK

\* A tree that one thread has claimed is sealed, stays, and is claimed by no other
\* step.
LEMMA ClaimedByStep ==
    ASSUME StoreInv, SealingSucceeds, Refused, Claimed, NEW c \in Caller, Step(c)
    PROVE  Claimed'
<1>1. /\ pc[c] # "rollback" /\ call' = call /\ TheTree(c) \in Tree
      /\ \A d \in Caller : TheTree(d)' = TheTree(d)
  BY StepIsLocal, StepPoint DEF Refused, TheTree, Req
<1>2. \A d \in Caller \ {c} : Claims(d)' = Claims(d) /\ pc'[d] = pc[d] /\ work'[d] = work[d]
  BY StepIsLocal DEF Claims
<1>3. /\ \A d \in Caller : Claims(d) => TheTree(d) \in Tree
      /\ \A i \in Instance, t \in Task : IsPublished(i, t) => TreeIn(i, t) \in Tree
  BY PublishedTypes
\* A claim is kept or made on an object that was absent.
<1>4. Claims(c)' => Claims(c) \/ object[TheTree(c)] = "absent"
  BY <1>1, StepArrives, StepResults DEF Claims
<1>5. ASSUME NEW i \in Instance, NEW t \in Task, IsPublished(i, t)'
      PROVE  \/ IsPublished(i, t) /\ TreeIn(i, t)' = TreeIn(i, t)
             \/ /\ work[c] = "Published" /\ ~Claims(c)'
                /\ i = Host[c] /\ t = TaskOf(Req(c)) /\ TreeIn(i, t)' = TheTree(c)
  <2>1. CASE task'[i][t] = task[i][t]
    BY <1>5, <2>1 DEF IsPublished, TreeIn
  <2>2. CASE task'[i][t] # task[i][t]
    BY <1>5, <2>2, StepOnTable DEF IsPublished, TreeIn, TheTree, Claims
  <2> QED
    BY <2>1, <2>2
<1>6. \A t \in Tree : object[t] \in {"sealed", "drifted"} => object'[t] = object[t]
  BY <1>1, StepOnDisk
\* Only the call that claims an object changes it.
<1>7. ASSUME NEW d \in Caller \ {c}, Claims(d) PROVE object'[TheTree(d)] = object[TheTree(d)]
  <2>1. object[TheTree(d)] # "absent" /\ TheTree(d) \in Tree
    BY <1>3, <1>7 DEF Claims, Claimed
  <2>2. pc[c] = "seal" => TheTree(d) # TheTree(c)
    BY <1>7 DEF Claimed, Claims
  <2> QED
    BY <1>1, <2>1, <2>2, StepOnDisk
<1>8. ASSUME NEW d \in Caller
      PROVE  /\ pc'[d] = "seal" => object'[TheTree(d)'] \in {"open", "drifted"}
             /\ work'[d] = "Published" => object'[TheTree(d)'] \in {"sealed", "drifted"}
  <2>1. CASE d # c
    BY <1>1, <1>2, <1>7, <2>1 DEF Claimed, Claims
  <2>2. CASE d = c
    <3>1. pc'[c] = "seal" => object'[TheTree(c)] = "open"
      BY <1>1, StepArrives
    <3>2. work'[c] = "Published" => work[c] = "Published" \/ pc[c] = "seal"
      BY StepResults
    <3>3. work[c] = "Published" => object'[TheTree(c)] \in {"sealed", "drifted"}
      BY <1>1, <1>6 DEF Claimed
    <3>4. pc[c] = "seal" /\ work'[c] = "Published" =>
              object'[TheTree(c)] \in {"sealed", "drifted"}
      BY <1>1, SealEnds DEF Claimed, Sealed
    <3> QED
      BY <1>1, <2>2, <3>1, <3>2, <3>3, <3>4
  <2> QED
    BY <2>1, <2>2
<1>9. ASSUME NEW i \in Instance, NEW t \in Task, IsPublished(i, t)'
      PROVE  object'[TreeIn(i, t)'] \in {"sealed", "drifted"}
  BY <1>1, <1>3, <1>5, <1>6, <1>9 DEF Claimed
<1>10. ASSUME NEW d \in Caller, NEW e \in Caller, Claims(d)', Claims(e)',
              TheTree(d)' = TheTree(e)'
       PROVE  d = e
  BY <1>1, <1>2, <1>4, <1>10 DEF Claimed, Claims
<1>11. ASSUME NEW d \in Caller, NEW i \in Instance, NEW t \in Task, Claims(d)', IsPublished(i, t)'
       PROVE  TreeIn(i, t)' # TheTree(d)'
  <2>1. CASE IsPublished(i, t) /\ TreeIn(i, t)' = TreeIn(i, t)
    BY <1>1, <1>2, <1>4, <1>11, <2>1 DEF Claimed
  <2>2. CASE /\ work[c] = "Published" /\ ~Claims(c)'
             /\ i = Host[c] /\ t = TaskOf(Req(c)) /\ TreeIn(i, t)' = TheTree(c)
    BY <1>1, <1>2, <1>11, <2>2 DEF Claimed, Claims
  <2> QED
    BY <1>5, <1>11, <2>1, <2>2
<1>12. ASSUME NEW i \in Instance, NEW j \in Instance, NEW t \in Task, NEW u \in Task,
              IsPublished(i, t)', IsPublished(j, u)', TreeIn(i, t)' = TreeIn(j, u)'
       PROVE  i = j /\ t = u
  BY <1>5, <1>12 DEF Claimed, Claims
<1> QED
  BY <1>8, <1>9, <1>10, <1>11, <1>12 DEF Claimed

\* Other steps claim no tree.
LEMMA ClaimedByOthers ==
    ASSUME StoreInv, [Next]_vars, ~(\E c \in Caller : Step(c)), Refused, Claimed PROVE Claimed'
<1>1. ASSUME NEW c \in Caller, Claims(c)'
      PROVE  Claims(c) /\ SameCall(c) /\ TheTree(c)' = TheTree(c) /\ TheTree(c) \in Tree
  <2>1. ~EmptyCall(c)
    BY <1>1 DEF EmptyCall, Claims
  <2>2. ~NewCall(c)
    BY <1>1 DEF NewCall, Claims, Refused, Resulted
  <2>3. SameCall(c)
    BY <2>1, <2>2, OtherSteps
  <2> QED
    BY <1>1, <2>3, PublishedTypes DEF SameCall, Claims, TheTree, Req
<1>2. ASSUME NEW i \in Instance, NEW t \in Task, IsPublished(i, t)'
      PROVE  IsPublished(i, t) /\ TreeIn(i, t)' = TreeIn(i, t) /\ TreeIn(i, t) \in Tree
  <2>1. task'[i][t] = task[i][t]
    BY <1>2, OtherSteps DEF IsPublished, NoTask, Running
  <2> QED
    BY <1>2, <2>1, PublishedTypes DEF IsPublished, TreeIn
<1>3. \A t \in Tree : object'[t] = object[t] \/ object'[t] = "drifted"
  BY OtherSteps
<1>4. \A c \in Caller : /\ pc'[c] = "seal" => Claims(c)'
                        /\ work'[c] = "Published" => Claims(c)'
  BY DEF Claims
<1>5. ASSUME NEW c \in Caller
      PROVE  /\ pc'[c] = "seal" => object'[TheTree(c)'] \in {"open", "drifted"}
             /\ work'[c] = "Published" => object'[TheTree(c)'] \in {"sealed", "drifted"}
  BY <1>1, <1>3, <1>4 DEF Claimed, SameCall
<1>6. ASSUME NEW i \in Instance, NEW t \in Task, IsPublished(i, t)'
      PROVE  object'[TreeIn(i, t)'] \in {"sealed", "drifted"}
  BY <1>2, <1>3, <1>6 DEF Claimed
<1> QED
  BY <1>1, <1>2, <1>5, <1>6 DEF Claimed

\* The rename onto nothing gives a tree one publisher: whoever reports that it
\* published the object is the only one to, and the object is sealed and stays.
THEOREM TreesArePublishedOnce == ASSUME SealingSucceeds PROVE Spec => []PublishedOnce
<1>1. Init => Refused /\ Claimed
  BY DEF Init, Refused, IsStale, NoCall, NoTask, Claimed, Claims, IsPublished
<1>2. StoreInv /\ Refused /\ Claimed /\ [Next]_vars => (Refused /\ Claimed)'
  BY RefusedByStep, RefusedByOthers, ClaimedByStep, ClaimedByOthers
<1>3. Claimed => PublishedOnce
  BY DEF Claimed, PublishedOnce, IsPublished, TreeIn
<1> QED
  BY <1>1, <1>2, <1>3, StoreInvariant, PTL DEF Spec

-----------------------------------------------------------------------------
(* The store implements SourceAuthority.                                   *)

\* Nothing but the store writes in its directory.
NothingIsDamaged == MayDrift = {}

\* Sealing does not fail, or a tree has one source only: then an object is renamed
\* back under the lease of the only source that could have a record for it.
RollbackIsPrivate ==
    \/ SealingSucceeds
    \/ \A r, s \in Request : TreeOf[r] = TreeOf[s] => KeyOf[r] = KeyOf[s]

AtPublication == {"seal", "rollback", "record", "renameRecord"}
AtReport == {"cleanup", "release", "settle"}

\* Whoever publishes a record has the object, whoever reports or has reported a
\* success has the record, and nothing has been damaged.
Backed ==
    /\ \A t \in Tree : object[t] # "drifted"
    /\ \A k \in Key : source[k] # "drifted"
    /\ RecordHasObject
    /\ \A c \in Caller :
          /\ pc[c] = "rollback" => ~SealingSucceeds
          /\ pc[c] \in AtPublication /\ HasKey(c) => object[TheTree(c)] # "absent"
          /\ pc[c] \in AtReport /\ HasKey(c) /\ work[c] \in Success
                 => source[TheKey(c)] = "written"
    /\ \A i \in Instance, k \in Key :
          task[i][k].outcome \in Success => source[k] = "written"

\* Which objects and records a step changes.
LEMMA StepWrites ==
    ASSUME StoreInv, NEW c \in Caller, Step(c)
    PROVE  /\ \A t \in Tree : object'[t] # object[t] =>
                  /\ t = TheTree(c)
                  /\ \/ pc[c] = "rename" /\ object[t] = "absent" /\ object'[t] = "open"
                     \/ pc[c] = "seal" /\ object[t] = "open" /\ object'[t] = "sealed"
                     \/ pc[c] = "rollback" /\ pc'[c] \notin AtPublication /\ object'[t] = "absent"
           /\ \A k \in Key : source'[k] # source[k] =>
                  k = TheKey(c) /\ pc[c] = "renameRecord" /\ source'[k] = "written"
  BY CallerTypes DEF AtPublication, StoreInv, TypeOK, CallsAreKnown, SlotsAreOwned, Conclude, Goto,
      Proceed, Return, Step, WaitForTerminal, AcquireSourceLease, CancelLeaseWait, LookUp,
      VerifyExistingObject, VerifySourceRecord, CreateSlot, FetchAndPlan, MaterializeTree,
      RenameObject, FindWinner, VerifyWinner, SealObject, SealFails, RollBackObject,
      PublishSourceRecord, RenameRecord, StepFails, CleanupSlot, ReleaseLease, Settle, Sealed, disk

\* How a thread comes to publish.
LEMMA StepPublishes ==
    ASSUME StoreInv, NEW c \in Caller, Step(c)
    PROVE  /\ pc'[c] = "seal" => object'[TheTree(c)] = "open"
           /\ pc'[c] = "rollback" => pc[c] = "seal" /\ ~SealingSucceeds
           /\ pc'[c] = "record" => pc[c] = "seal" \/ (pc[c] = "verifyWinner" /\ Intact(TheTree(c)))
           /\ pc'[c] = "renameRecord" => pc[c] = "record"
  BY CallerTypes DEF SealingSucceeds, StoreInv, TypeOK, CallsAreKnown, Conclude, Goto,
      Proceed, Return, Step, WaitForTerminal, AcquireSourceLease, CancelLeaseWait, LookUp,
      VerifyExistingObject, VerifySourceRecord, CreateSlot, FetchAndPlan, MaterializeTree,
      RenameObject, FindWinner, VerifyWinner, SealObject, SealFails, RollBackObject,
      PublishSourceRecord, RenameRecord, StepFails, CleanupSlot, ReleaseLease, Settle

\* A keyed call comes to report a success where the record is written or was found.
LEMMA StepReports ==
    ASSUME StoreInv, NEW c \in Caller, Step(c), HasKey(c), pc'[c] \in AtReport, work'[c] \in Success
    PROVE  \/ pc[c] \in AtReport /\ work'[c] = work[c]
           \/ source'[TheKey(c)] = "written"
  BY CallerTypes DEF AtReport, StoreInv, TypeOK, CallsAreKnown, Success, Conclude, Goto,
      Proceed, Return, Step, WaitForTerminal, AcquireSourceLease, CancelLeaseWait, LookUp,
      VerifyExistingObject, VerifySourceRecord, CreateSlot, FetchAndPlan, MaterializeTree,
      RenameObject, FindWinner, VerifyWinner, SealObject, SealFails, RollBackObject,
      PublishSourceRecord, RenameRecord, StepFails, CleanupSlot, ReleaseLease, Settle, disk

\* A step keeps what is published: if it renames an object back, it holds the lease
\* of the only source with this tree, which has no record yet.
LEMMA BackedByStep ==
    ASSUME StoreInv, Backed, RollbackIsPrivate, NEW c \in Caller, Step(c) PROVE Backed'
<1>1. /\ call' = call /\ pc[c] # "idle" /\ Req(c) \in Request /\ TheTree(c) \in Tree
      /\ HasKey(c) => TheKey(c) \in Key
  BY StepIsLocal, StepPoint
<1>2. /\ \A t \in Tree : object'[t] # "drifted"
      /\ \A k \in Key : source'[k] # "drifted" /\ (source[k] = "written" => source'[k] = "written")
  BY StepWrites DEF Backed
<1>3. \A d \in Caller : /\ Req(d)' = Req(d) /\ TheTree(d)' = TheTree(d)
                        /\ TheKey(d)' = TheKey(d) /\ (HasKey(d)' <=> HasKey(d))
  BY <1>1 DEF Req, TheTree, TheKey, HasKey
<1>4. ASSUME NEW t \in Tree, object[t] # "absent", object'[t] = "absent"
      PROVE  /\ pc[c] = "rollback" /\ pc'[c] \notin AtPublication /\ t = TheTree(c)
             /\ \A r \in Request : TreeOf[r] = t => KeyOf[r] = TheKey(c)
             /\ HasKey(c) => source[TheKey(c)] = "absent" /\ lease[TheKey(c)] = c
  <2>1. pc[c] = "rollback" /\ pc'[c] \notin AtPublication /\ t = TheTree(c)
    BY <1>4, StepWrites
  <2>2. \A r, s \in Request : TreeOf[r] = TreeOf[s] => KeyOf[r] = KeyOf[s]
    BY <2>1 DEF Backed, RollbackIsPrivate
  <2>3. IsRunner(c)
    BY <2>1 DEF StoreInv, CallsAreKnown, IsRunner, RunnerPoints, LeasedPoints, SlotPoints
  <2> QED
    BY <1>1, <2>1, <2>2, <2>3 DEF StoreInv, FetchesOnlyWhatIsMissing, LeaseIsHeld, SlotPoints,
       LeasedPoints, TheTree, TheKey
<1>5. ASSUME NEW d \in Caller
      PROVE  /\ pc'[d] = "rollback" => ~SealingSucceeds
             /\ pc'[d] \in AtPublication /\ HasKey(d) => object'[TheTree(d)] # "absent"
             /\ pc'[d] \in AtReport /\ HasKey(d) /\ work'[d] \in Success
                    => source'[TheKey(d)] = "written"
  <2>1. CASE d = c
    <3>1. pc'[c] = "rollback" => ~SealingSucceeds
      BY StepPublishes DEF SealingSucceeds
    <3>2. ASSUME pc'[c] \in AtPublication, HasKey(c) PROVE object'[TheTree(c)] # "absent"
      <4>1. pc'[c] = "seal" \/ object[TheTree(c)] # "absent"
        BY <3>2, StepPublishes DEF AtPublication, Backed, Intact
      <4> QED
        BY <1>1, <1>4, <3>2, <4>1, StepPublishes
    <3>3. pc'[c] \in AtReport /\ HasKey(c) /\ work'[c] \in Success
              => source'[TheKey(c)] = "written"
      BY <1>1, <1>2, StepReports DEF Backed
    <3> QED
      BY <2>1, <3>1, <3>2, <3>3
  <2>2. CASE d # c
    <3>1. pc'[d] = pc[d] /\ work'[d] = work[d]
      BY <2>2, StepIsLocal
    <3>2. pc[d] # "idle" => /\ call[d] # NoCall /\ Req(d) \in Request /\ TheTree(d) \in Tree
                            /\ HasKey(d) => TheKey(d) \in Key
      BY CallerTypes DEF StoreInv, CallsAreKnown
    <3>3. ASSUME pc[d] \in AtPublication, HasKey(d) PROVE object'[TheTree(d)] # "absent"
      <4>1. object[TheTree(d)] # "absent" /\ pc[d] # "idle"
        BY <3>3 DEF Backed, AtPublication
      <4>2. lease[TheKey(d)] = d
        BY <3>2, <3>3, <4>1 DEF StoreInv, CallsAreKnown, LeaseIsHeld, IsRunner, RunnerPoints,
           LeasedPoints, SlotPoints, AtPublication
      <4> QED
        BY <1>4, <2>2, <3>2, <3>3, <4>1, <4>2 DEF TheTree, TheKey, HasKey
    <3> QED
      BY <1>2, <3>1, <3>2, <3>3 DEF Backed, AtReport
  <2> QED
    BY <2>1, <2>2
<1>6. RecordHasObject'
  <2> SUFFICES ASSUME NEW k \in Key, source'[k] # "absent", NEW r \in Request, KeyOf[r] = k
               PROVE  object'[TreeOf[r]] # "absent"
    BY DEF RecordHasObject
  <2>1. TreeOf[r] \in Tree /\ KeyOf[r] # NoKey
    BY StoreAssumption
  <2>2. CASE source'[k] = source[k]
    <3>1. object[TreeOf[r]] # "absent"
      BY <2>2 DEF Backed, RecordHasObject
    <3>2. SUFFICES ASSUME object'[TreeOf[r]] = "absent" PROVE FALSE
      OBVIOUS
    <3>3. k = TheKey(c) /\ (HasKey(c) => source[TheKey(c)] = "absent")
      BY <1>4, <2>1, <3>1, <3>2
    <3> QED
      BY <2>1, <2>2, <3>3 DEF HasKey
  <2>3. CASE source'[k] # source[k]
    <3>1. k = TheKey(c) /\ pc[c] = "renameRecord" /\ HasKey(c)
      BY <2>1, <2>3, StepWrites DEF HasKey
    <3>2. TreeOf[r] = TheTree(c)
      BY <1>1, <2>1, <3>1, KeyNamesTree DEF TheKey, TheTree
    <3> QED
      BY <1>4, <2>1, <3>1, <3>2 DEF Backed, AtPublication
  <2> QED
    BY <2>2, <2>3
<1>7. ASSUME NEW i \in Instance, NEW k \in Key, task'[i][k].outcome \in Success
      PROVE  source'[k] = "written"
  <2>1. CASE task'[i][k] = task[i][k]
    BY <1>2, <1>7, <2>1 DEF Backed
  <2>2. CASE task'[i][k] # task[i][k]
    <3>1. /\ pc[c] = "settle" /\ k = TaskOf(Req(c)) /\ task'[i][k].outcome = work[c]
      BY <2>2, StepOnTable DEF Task
    <3>2. HasKey(c) /\ k = TheKey(c)
      BY <1>1, <3>1, TaskNamesDiffer DEF TaskOf, HasKey, TheKey
    <3> QED
      BY <1>2, <1>7, <3>1, <3>2 DEF Backed, AtReport
  <2> QED
    BY <2>1, <2>2
<1> QED
  BY <1>2, <1>3, <1>5, <1>6, <1>7 DEF Backed

\* Calls that begin, are cancelled or are lost leave objects and records alone.
LEMMA OthersKeepDisk ==
    ASSUME StoreInv, NothingIsDamaged, [Next]_vars, ~(\E c \in Caller : Step(c))
    PROVE  object' = object /\ source' = source
  BY DEF NothingIsDamaged, Next, vars, Start, Lead, Join, RefuseTask, VerifyOnly, disk, Cancel,
     Crash, DamageObject, DamageRecord

\* They keep what is published, and the table has no result they could have added.
LEMMA BackedByOthers ==
    ASSUME StoreInv, Backed, NothingIsDamaged, [Next]_vars, ~(\E c \in Caller : Step(c))
    PROVE  Backed'
<1>1. object' = object /\ source' = source
  BY OthersKeepDisk
<1>2. ASSUME NEW d \in Caller
      PROVE  /\ pc'[d] = "rollback" => ~SealingSucceeds
             /\ pc'[d] \in AtPublication /\ HasKey(d)' => object'[TheTree(d)'] # "absent"
             /\ pc'[d] \in AtReport /\ HasKey(d)' /\ work'[d] \in Success
                    => source'[TheKey(d)'] = "written"
  <2>1. SameCall(d) \/ pc'[d] \notin {"rollback"} \cup AtPublication \cup AtReport
    BY OtherSteps DEF EmptyCall, NewCall, AtPublication, AtReport
  <2> QED
    BY <1>1, <2>1 DEF Backed, SameCall, AtPublication, HasKey, TheKey, TheTree, Req
<1>3. ASSUME NEW i \in Instance, NEW k \in Key, task'[i][k].outcome \in Success
      PROVE  source'[k] = "written"
  <2>1. task'[i][k] = task[i][k]
    BY <1>3, OtherSteps DEF NoTask, Running, Success, Task
  <2> QED
    BY <1>1, <1>3, <2>1 DEF Backed
<1> QED
  BY <1>1, <1>2, <1>3 DEF Backed, RecordHasObject

\* What SourceAuthority sees.
Established == {k \in Key : /\ source[k] = "written"
                            /\ \A r \in Request : KeyOf[r] = k => Intact(TreeOf[r])}
AskedBy(c) == IF Keyed(c) /\ pc[c] # "idle" THEN TheKey(c) ELSE NoKey
ToldTo(c) == IF ~Keyed(c) \/ answer[c] = NoAnswer THEN "none"
             ELSE IF answer[c].outcome \in Success THEN "success" ELSE "failure"
RecordsCount == Established = {k \in Key : source[k] = "written"}
Asked == [c \in Caller |-> AskedBy(c)]
Answered == [c \in Caller |-> ToldTo(c)]

\* As long as nothing is damaged, a source is established by its record.
LEMMA RecordEstablishes ==
    ASSUME StoreInv, Backed PROVE RecordsCount
<1> SUFFICES ASSUME NEW k \in Key, source[k] = "written", NEW r \in Request, KeyOf[r] = k
             PROVE  Intact(TreeOf[r])
  BY DEF Established, RecordsCount
<1>1. TreeOf[r] \in Tree /\ object[TreeOf[r]] # "absent" /\ object[TreeOf[r]] # "drifted"
  BY StoreAssumption DEF Backed, RecordHasObject
<1> QED
  BY <1>1 DEF StoreInv, TypeOK, Intact

\* A call that ends in success has its record; before it ends it tells nothing.
LEMMA StepAnswers ==
    ASSUME StoreInv, Backed, NEW c \in Caller, Step(c)
    PROVE  /\ pc'[c] # "idle" => answer' = answer
           /\ pc'[c] = "idle" =>
                /\ object' = object /\ source' = source
                /\ answer'[c] # NoAnswer
                /\ answer'[c].outcome \in Success /\ HasKey(c) => source[TheKey(c)] = "written"
<1> USE DEF StoreInv, TypeOK
<1>1. /\ pc[c] # "idle" /\ call[c] # NoCall /\ Req(c) \in Request
      /\ HasKey(c) => TheKey(c) \in Key
  BY StepPoint
<1>2. CASE WaitForTerminal(c)
  <2>1. TheTask(c) \in Terminal \cup {Running}
    BY <1>1, <1>2, CallerTypes DEF WaitForTerminal, OneRunnerPerTask, TheTask
  <2>2. UNCHANGED disk
    BY <1>2 DEF WaitForTerminal
  <2>3. CASE TheTask(c) = Running
    BY <1>2, <2>2, <2>3 DEF WaitForTerminal, Return, Goto, NoAnswer, Success, disk
  <2>4. CASE TheTask(c) \in Terminal
    <3>1. PICK x \in Terminal : x = TheTask(c)
      BY <2>4
    <3>2. x # Running /\ x.outcome \in Success \cup Failure
      BY Outcomes DEF Terminal
    <3>3. answer'[c] \in Terminal /\ (answer'[c].outcome \in Success => x.outcome \in Success)
      <4>1. answer'[c] = IF x.outcome \in Success THEN [x EXCEPT !.outcome = "Deduplicated"] ELSE x
        BY <1>2, <3>1, <3>2 DEF WaitForTerminal, Return
      <4> QED
        BY <4>1, Outcomes
    <3>4. x.outcome \in Success /\ HasKey(c) => source[TheKey(c)] = "written"
      BY <1>1, <3>1, StoreAssumption DEF Backed, TheTask, TaskOf, HasKey, TheKey
    <3>5. pc'[c] = "idle"
      BY <1>2 DEF WaitForTerminal, Return, Goto
    <3> QED
      BY <2>2, <3>3, <3>4, <3>5 DEF Terminal, NoAnswer, Success, Failure, disk
  <2> QED
    BY <2>1, <2>3, <2>4
<1>3. CASE Settle(c)
  <2>1. /\ pc[c] = "settle" /\ pc'[c] = "idle" /\ UNCHANGED disk
        /\ answer'[c] = [outcome |-> work[c], of |-> Req(c)]
    BY <1>3 DEF Settle, Return, Goto
  <2>2. work[c] # "none"
    BY <2>1 DEF WorkIsKnown
  <2> QED
    BY <2>1, <2>2 DEF NoAnswer, Backed, AtReport, disk
<1>4. CASE Step(c) /\ ~WaitForTerminal(c) /\ ~Settle(c)
  BY <1>4, CallerTypes DEF CallsAreKnown, NoAnswer, Success,
      Step, AcquireSourceLease, CancelLeaseWait, LookUp,
      VerifyExistingObject, VerifySourceRecord, CreateSlot, FetchAndPlan, MaterializeTree,
      RenameObject, FindWinner, VerifyWinner, SealObject, SealFails, RollBackObject,
      PublishSourceRecord, RenameRecord, StepFails, CleanupSlot, ReleaseLease, Proceed,
      Conclude, Goto, Return, disk
<1> QED
  BY <1>2, <1>3, <1>4

\* A step establishes the source its call asks for, answers that call, or shows
\* nothing.
LEMMA StepRefines ==
    ASSUME StoreInv, Backed, RecordsCount, RecordsCount', NEW c \in Caller, Step(c)
    PROVE  Promise!Next \/ UNCHANGED <<Established, Asked, Answered>>
<1>1. /\ pc[c] # "idle" /\ call[c] # NoCall /\ Req(c) \in Request
      /\ HasKey(c) => TheKey(c) \in Key
  BY StepPoint
<1>2. \A d \in Caller \ {c} : AskedBy(d)' = AskedBy(d) /\ ToldTo(d)' = ToldTo(d)
  BY StepIsLocal DEF AskedBy, ToldTo, Keyed, HasKey, TheKey, Req
<1>3. call' = call /\ (Keyed(c)' <=> Keyed(c)) /\ (Keyed(c) <=> HasKey(c)) /\ TheKey(c)' = TheKey(c)
  <2>1. call[c].op # "none"
    BY <1>1, CallerTypes DEF StoreInv
  <2> QED
    BY <2>1, StepIsLocal DEF Keyed, HasKey, TheKey, Req
<1>4. CASE pc'[c] # "idle"
  <2>1. Asked' = Asked /\ Answered' = Answered
    <3>1. AskedBy(c)' = AskedBy(c) /\ ToldTo(c)' = ToldTo(c)
      BY <1>1, <1>3, <1>4, StepAnswers DEF AskedBy, ToldTo
    <3> QED
      BY <1>2, <3>1 DEF Asked, Answered
  <2>2. CASE Established' = Established
    BY <2>1, <2>2
  <2>3. CASE Established' # Established
    <3>1. PICK k \in Key : source'[k] # source[k]
      BY <2>3 DEF RecordsCount
    <3>2. k = TheKey(c) /\ source'[k] = "written" /\ \A j \in Key \ {k} : source'[j] = source[j]
      BY <3>1, StepWrites
    <3>3. Established' = Established \cup {k}
      BY <3>2 DEF RecordsCount
    <3>4. Asked[c] = k
      BY <1>1, <1>3, <3>2, StoreAssumption DEF Asked, AskedBy, HasKey
    <3>5. Promise!Establish(k)
      BY <2>1, <3>3, <3>4 DEF Promise!Establish, Established, Asked, Answered, AskedBy, ToldTo
    <3> QED
      BY <3>5 DEF Promise!Next
  <2> QED
    BY <2>2, <2>3
<1>5. CASE pc'[c] = "idle"
  <2>1. source' = source /\ answer'[c] # NoAnswer /\ Established' = Established
    BY <1>5, StepAnswers DEF RecordsCount
  <2>2. AskedBy(c)' = NoKey
    BY <1>5 DEF AskedBy
  <2>3. CASE ~HasKey(c)
    <3>1. Asked' = Asked /\ Answered' = Answered
      BY <1>2, <1>3, <2>2, <2>3 DEF Asked, Answered, AskedBy, ToldTo
    <3> QED
      BY <2>1, <3>1
  <2>4. CASE HasKey(c) /\ answer'[c].outcome \in Success
    <3>1. Asked[c] = TheKey(c) /\ TheKey(c) \in Established
      BY <1>1, <1>3, <1>5, <2>4, StepAnswers DEF Asked, AskedBy, RecordsCount
    <3>2. ToldTo(c)' = "success"
      BY <1>3, <2>1, <2>4 DEF ToldTo
    <3>3. Asked' = [Asked EXCEPT ![c] = NoKey] /\ Answered' = [Answered EXCEPT ![c] = "success"]
      BY <1>2, <2>2, <3>2 DEF Asked, Answered
    <3>4. Promise!Succeed(c)
      BY <2>1, <3>1, <3>3 DEF Promise!Succeed, Established, Asked, Answered, AskedBy, ToldTo
    <3> QED
      BY <3>4 DEF Promise!Next
  <2>5. CASE HasKey(c) /\ answer'[c].outcome \notin Success
    <3>1. ToldTo(c)' = "failure"
      BY <1>3, <2>1, <2>5 DEF ToldTo
    <3>2. Asked' = [Asked EXCEPT ![c] = NoKey] /\ Answered' = [Answered EXCEPT ![c] = "failure"]
      BY <1>2, <2>2, <3>1 DEF Asked, Answered
    <3>3. Promise!Refuse(c)
      BY <2>1, <3>2 DEF Promise!Refuse, Established, Asked, Answered, AskedBy, ToldTo
    <3> QED
      BY <3>3 DEF Promise!Next
  <2> QED
    BY <2>3, <2>4, <2>5
<1> QED
  BY <1>4, <1>5

\* A call that begins asks for its source or is refused by a full table.
LEMMA StartRefines ==
    ASSUME StoreInv, NEW c \in Caller, NEW r \in Request, Start(c, r)
    PROVE  Promise!Next
<1>1. /\ pc[c] = "idle" /\ UNCHANGED disk /\ call'[c].req = r /\ call'[c].op # "none"
      /\ \A d \in Caller \ {c} : pc'[d] = pc[d] /\ call'[d] = call[d] /\ answer'[d] = answer[d]
      /\ \/ pc'[c] # "idle" /\ answer'[c] = NoAnswer
         \/ pc'[c] = "idle" /\ answer'[c].outcome = "LimitExceeded"
  BY DEF StoreInv, TypeOK, Start, Lead, Join, RefuseTask, VerifyOnly, Enter, Goto, Return, disk
<1>2. /\ Established' = Established
      /\ \A d \in Caller \ {c} : AskedBy(d)' = AskedBy(d) /\ ToldTo(d)' = ToldTo(d)
  BY <1>1 DEF Established, Intact, AskedBy, ToldTo, Keyed, HasKey, TheKey, Req, disk
<1>3. /\ AskedBy(c) = NoKey /\ TheKey(c)' = KeyOf[r]
      /\ Keyed(c)' <=> KeyOf[r] # NoKey
  BY <1>1 DEF AskedBy, Keyed, HasKey, TheKey, Req
<1>4. CASE KeyOf[r] # NoKey /\ pc'[c] # "idle"
  <2>1. AskedBy(c)' = KeyOf[r] /\ ToldTo(c)' = "none" /\ KeyOf[r] \in Key
    BY <1>1, <1>3, <1>4, StoreAssumption DEF AskedBy, ToldTo, NoAnswer
  <2>2. /\ Asked' = [Asked EXCEPT ![c] = KeyOf[r]] /\ Answered' = [Answered EXCEPT ![c] = "none"]
        /\ Asked[c] = NoKey
    BY <1>2, <1>3, <2>1 DEF Asked, Answered
  <2>3. Promise!Ask(c, KeyOf[r])
    BY <1>2, <2>2 DEF Promise!Ask, Established, Asked, Answered, AskedBy, ToldTo
  <2> QED
    BY <2>1, <2>3 DEF Promise!Next
<1>5. CASE KeyOf[r] # NoKey /\ pc'[c] = "idle"
  <2>1. AskedBy(c)' = NoKey /\ ToldTo(c)' = "failure"
    BY <1>1, <1>3, <1>5 DEF AskedBy, ToldTo, NoAnswer, Success
  <2>2. Asked' = [Asked EXCEPT ![c] = NoKey] /\ Answered' = [Answered EXCEPT ![c] = "failure"]
    BY <1>2, <2>1 DEF Asked, Answered
  <2>3. Promise!Refuse(c)
    BY <1>2, <2>2 DEF Promise!Refuse, Established, Asked, Answered, AskedBy, ToldTo
  <2> QED
    BY <2>3 DEF Promise!Next
<1>6. CASE KeyOf[r] = NoKey
  <2>1. AskedBy(c)' = NoKey /\ ToldTo(c)' = "none"
    BY <1>3, <1>6 DEF AskedBy, ToldTo
  <2>2. Promise!Withdraw({c})
    BY <1>2, <2>1 DEF Promise!Withdraw, Established, Asked, Answered, AskedBy, ToldTo
  <2> QED
    BY <2>2 DEF Promise!Next
<1> QED
  BY <1>4, <1>5, <1>6

\* A process that dies withdraws what its threads ask for.
LEMMA CrashRefines ==
    ASSUME NEW i \in Instance, Crash(i) PROVE Promise!Next
<1> DEFINE dead == {c \in Caller : Host[c] = i}
<1>1. \A d \in Caller : IF d \in dead THEN pc'[d] = "idle" /\ answer'[d] = NoAnswer
                        ELSE pc'[d] = pc[d] /\ call'[d] = call[d] /\ answer'[d] = answer[d]
  BY DEF Crash
<1>2. Established' = Established
  BY DEF Crash, Established, Intact
<1>3. \A d \in Caller : /\ AskedBy(d)' = IF d \in dead THEN NoKey ELSE AskedBy(d)
                        /\ ToldTo(d)' = IF d \in dead THEN "none" ELSE ToldTo(d)
  BY <1>1 DEF AskedBy, ToldTo, Keyed, HasKey, TheKey, Req
<1>4. Promise!Withdraw(dead)
  <2>1. \A d \in Caller : Asked[d] = AskedBy(d) /\ Answered[d] = ToldTo(d)
    BY DEF Asked, Answered
  <2>2. /\ Asked' = [d \in Caller |-> IF d \in dead THEN NoKey ELSE Asked[d]]
        /\ Answered' = [d \in Caller |-> IF d \in dead THEN "none" ELSE Answered[d]]
    BY <1>3, <2>1 DEF Asked, Answered
  <2> QED
    BY <1>2, <2>2 DEF Promise!Withdraw, Established, Asked, Answered, AskedBy, ToldTo
<1> QED
  BY <1>4 DEF Promise!Next

\* The store implements SourceAuthority: a source once established stays, is
\* established only while somebody asks for it, and a call is told a success only
\* if it is, whatever fails, whoever is cancelled and whichever process dies.
THEOREM StoreKeepsPromise ==
    ASSUME NothingIsDamaged, RollbackIsPrivate PROVE Spec => KeepsPromise
<1>1. Init => Backed /\ Promise!Init
  <2> SUFFICES ASSUME Init PROVE Backed /\ Promise!Init
    OBVIOUS
  <2>1. \A i \in Instance, k \in Key : task[i][k].outcome \notin Success
    BY DEF Init, NoTask, Success, Task
  <2>2. Backed
    BY <2>1 DEF Init, Backed, RecordHasObject, AtPublication, AtReport
  <2>3. \A c \in Caller : ~Keyed(c)
    BY DEF Init, Keyed, NoCall
  <2>4. Promise!Init
    BY <2>3 DEF Init, Promise!Init
  <2> QED
    BY <2>2, <2>4
<1>2. StoreInv /\ Backed /\ [Next]_vars => Backed'
  BY BackedByStep, BackedByOthers
<1>3. StoreInv /\ Backed => RecordsCount
  BY RecordEstablishes
<1>4. StoreInv /\ Backed /\ RecordsCount /\ RecordsCount' /\ [Next]_vars
          => [Promise!Next]_(Promise!promiseVars)
  <2> SUFFICES ASSUME StoreInv, Backed, RecordsCount, RecordsCount', [Next]_vars
               PROVE  Promise!Next \/ UNCHANGED <<Established, Asked, Answered>>
    BY DEF Promise!promiseVars, Established, Asked, Answered, AskedBy, ToldTo
  <2>1. ASSUME UNCHANGED <<object, source, pc, call, answer>>
        PROVE  UNCHANGED <<Established, Asked, Answered>>
    BY <2>1 DEF Established, Intact, Asked, Answered, AskedBy, ToldTo, Keyed, HasKey, TheKey, Req
  <2>2. ASSUME NEW c \in Caller, Cancel(c)
        PROVE  UNCHANGED <<object, source, pc, call, answer>>
    BY <2>2 DEF Cancel, disk
  <2>3. \A t \in Tree : ~DamageObject(t)
    BY DEF DamageObject, NothingIsDamaged
  <2>4. \A k \in Key : ~DamageRecord(k)
    BY DEF DamageRecord, NothingIsDamaged
  <2> QED
    BY <2>1, <2>2, <2>3, <2>4, StepRefines, StartRefines, CrashRefines DEF Next, vars
<1> QED
  BY <1>1, <1>2, <1>3, <1>4, StoreInvariant, PTL DEF Spec, KeepsPromise, Promise!Spec
=============================================================================
