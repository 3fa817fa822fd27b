----------------------------- MODULE ManagedBuild -----------------------------
(***************************************************************************)
(* Builds of managed projects that share compiled packages: the front      *)
(* doors of execution.rs, build_expected and run_expected of lib.rs        *)
(* (leanbun-managed) and PackageArtifactStoreV1 (leanbun-build).           *)
(*                                                                         *)
(* A front door reads the registry twice, builds under the operation lease *)
(* of the project and reads the registry twice again.  A build restores    *)
(* the packages that are in the store, copies what the provider has, runs  *)
(* Lake, publishes every compiled package and writes the references of the *)
(* generation.  Objects of the store are published under a lease of their  *)
(* key: staged, renamed, sealed and verified.                              *)
(*                                                                         *)
(* How a project is updated and recovered is the module ManagedProject;    *)
(* here an update takes effect in two steps under the same lease.  Lake    *)
(* may compile any part of a package: bytes are not decided by the key.    *)
(* How a program is supervised is the module SupervisedProcess; here it   *)
(* succeeds or fails, and outlives a process that stops while it waits.    *)
(***************************************************************************)
EXTENDS ManagedRegistry, Sequences, SequencesExt

CONSTANTS
    Builders,     \* projects, each with the process that builds it
    Makes,        \* [package -> what Lake may leave of it]
    Entries,      \* [Builders -> entries to begin with]
    Updates,      \* [Builders -> entries an update may lead to]
    Registered,   \* [package -> its compiled copy], for those the provider has compiled
    Runners,      \* projects whose program is run as well
    MaxEvents     \* crashes, errors, edits and updates

\* The packages of a managed project are from the provider or from its own
\* directories, never from both, and come with all that is below them.
IsClosure(lock) ==
    /\ IsFiniteSet(DOMAIN lock.packages)
    /\ GitPackages(lock) \in {{}, DOMAIN lock.packages}
    /\ \A n \in DOMAIN lock.packages :
          lock.packages[n].dependencies \subseteq DOMAIN lock.packages

\* A project as it is adopted or updated: nothing is pending, nothing is built.
IsUnbuilt(e) ==
    /\ DOMAIN e = {"name", "record", "project", "active", "transaction", "metadata", "lock",
                   "trees", "references"}
    /\ "pending" \in DOMAIN e.record /\ e.record.pending = FALSE
    /\ "config" \in DOMAIN e.project
    /\ e.references = Nothing
    /\ IsClosure(e.lock)

ASSUME EntriesAssumption ==
    /\ DOMAIN Entries = Builders
    /\ \A p \in Builders : \A e \in {Entries[p]} \cup Updates[p] : IsUnbuilt(e)

VARIABLES
    entry,        \* [Builders -> what is on disk of the project]
    operation,    \* [Builders -> BOOLEAN], the operation lease is held
    cache,        \* [Builders -> [package -> bytes or Nothing]], .lake/build of a package
    store,        \* [key -> [bytes, artifact, sealed]] of the objects: the tree and its record
    lease,        \* [key -> builder] of the leases that are held
    build,        \* [Builders -> the state of the call]
    orphan,       \* [Builders -> whether a Lake is "left" behind, or has "ended" since]
    events        \* crashes, errors, edits and updates so far

vars == <<entry, operation, cache, store, lease, build, orphan, events>>

Lock(p) == entry[p].lock
Packages(p) == DOMAIN Lock(p).packages
Key(p, n) == BuildKey(Lock(p), n)
Idle == [pc |-> "idle", selection |-> Nothing, todo |-> <<>>, candidate |-> Nothing,
         staged |-> Nothing, hits |-> 0, reuses |-> 0, publications |-> 0, listed |-> <<>>]
ReadyForPackages(p) == SetToSeq(Eligible(Lock(p)))
Without(f, k) == [x \in DOMAIN f \ {k} |-> f[x]]
With(f, k, v) == [x \in DOMAIN f \cup {k} |-> IF x = k THEN v ELSE f[x]]

Init ==
    /\ entry = Entries
    /\ operation = [p \in Builders |-> FALSE]
    /\ cache = [p \in Builders |-> [n \in DOMAIN Entries[p].lock.packages |-> Nothing]]
    /\ store = <<>>
    /\ lease = <<>>
    /\ build = [p \in Builders |-> Idle]
    /\ orphan = [p \in Builders |-> "no"]
    /\ events = 0

At(p, pc) == build[p].pc = pc
Do(p, changed) == build' = [build EXCEPT ![p] = changed]
Goto(p, pc) == Do(p, [build[p] EXCEPT !.pc = pc])
Here(p) == Head(build[p].todo)
HereKey(p) == Key(p, Here(p))
NextPackage(p) == [build[p] EXCEPT !.todo = Tail(@), !.candidate = Nothing,
                     !.staged = Nothing]

\* A call ends: the leases it has are released; its slot stays behind.
Fail(p) ==
    /\ Do(p, Idle)
    /\ operation' = [operation EXCEPT ![p] = @ /\ build[p].pc \in {"select", "open", "after"}]
    /\ lease' = [k \in {k \in DOMAIN lease : lease[k] # p} |-> lease[k]]

-----------------------------------------------------------------------------
(* The front door.                                                         *)

\* The first reading; the second must be the same.
Observe(p) ==
    /\ At(p, "idle") /\ State(entry[p]) = "Healthy"
    /\ Do(p, [Idle EXCEPT !.pc = "select", !.selection = entry[p]])
    /\ UNCHANGED <<entry, operation, cache, store, lease, orphan, events>>

PrepareExecution(p) ==
    /\ At(p, "select")
    /\ LET s == Select(build[p].selection, entry[p])
       IN  IF s = Nothing THEN Do(p, Idle)
           ELSE Do(p, [build[p] EXCEPT !.pc = "open", !.selection = s])
    /\ UNCHANGED <<entry, operation, cache, store, lease, orphan, events>>

\* acquire_operation_lease does not wait.
AcquireOperation(p) ==
    /\ At(p, "open")
    /\ IF operation[p] THEN Do(p, Idle) /\ UNCHANGED operation
       ELSE Goto(p, "gate") /\ operation' = [operation EXCEPT ![p] = TRUE]
    /\ UNCHANGED <<entry, cache, store, lease, orphan, events>>

\* build_expected_under_lease: nothing is pending, the input is that of the
\* record and the generation is the one that was selected.
BuildGate(p) ==
    /\ At(p, "gate")
    /\ IF /\ ~entry[p].record.pending
          /\ VerifyActive(entry[p]) /\ InputsAgree(entry[p])
          /\ entry[p].active.generation = build[p].selection.generation
       THEN /\ Do(p, [build[p] EXCEPT !.pc = "restore", !.todo = ReadyForPackages(p)])
            /\ UNCHANGED <<operation, lease>>
       ELSE Fail(p)
    /\ UNCHANGED <<entry, cache, store, orphan, events>>

-----------------------------------------------------------------------------
(* Caches.                                                                 *)

\* A mistake to be caught: the object is not compared with the candidate.
VerifiesSealOnly(object, expected) == object.sealed /\ object.bytes = object.artifact

\* verify_expected, for any bytes or for the candidate
Verifies(object, expected) ==
    /\ object.sealed /\ object.bytes = object.artifact
    /\ expected = Nothing \/ expected = object.artifact

\* materialize_if_present, without the lease: the copy of the object that is
\* found, if it verifies.
Copies(key) ==
    {store[k].bytes : k \in {k \in DOMAIN store : k = key /\ Verifies(store[k], Nothing)}}

\* restore_package_artifacts: a package that has nothing yet gets a private
\* copy, which appears in one step.
Restore(p) ==
    /\ At(p, "restore") /\ build[p].todo # <<>>
    /\ IF cache[p][Here(p)] # Nothing \/ HereKey(p) \notin DOMAIN store
       THEN Do(p, NextPackage(p)) /\ UNCHANGED <<cache, operation, lease>>
       ELSE IF Copies(HereKey(p)) # {}
       THEN /\ \E copy \in Copies(HereKey(p)) : cache' = [cache EXCEPT ![p][Here(p)] = copy]
            /\ Do(p, [NextPackage(p) EXCEPT !.hits = @ + 1])
            /\ UNCHANGED <<operation, lease>>
       ELSE Fail(p) /\ UNCHANGED cache
    /\ UNCHANGED <<entry, store, orphan, events>>

\* seed_registered_caches
Seed(p) ==
    /\ At(p, "restore") /\ build[p].todo = <<>>
    /\ cache' = [cache EXCEPT ![p] =
                   [n \in Packages(p) |->
                       IF @[n] = Nothing /\ n \in DOMAIN Registered THEN Registered[n] ELSE @[n]]]
    /\ Goto(p, "lake")
    /\ UNCHANGED <<entry, operation, store, lease, orphan, events>>

-----------------------------------------------------------------------------
(* Lake.                                                                   *)

\* Any part of the packages is compiled, again or for the first time.
Compiled(p) ==
    {[cache EXCEPT ![p] = made] :
        made \in {m \in [Packages(p) -> UNION Range(Makes) \cup {Nothing}] :
                    \A n \in Packages(p) :
                        m[n] \in Makes[n] \cup (IF cache[p][n] = Nothing THEN {Nothing} ELSE {})}}

\* What Lake leaves in the caches, also when it fails; then the active
\* generation is verified again.
Lake(p) ==
    /\ At(p, "lake")
    /\ cache' \in Compiled(p)
    /\ \/ /\ VerifyActive(entry[p])
          /\ Do(p, [build[p] EXCEPT !.pc = "publish", !.todo = ReadyForPackages(p)])
          /\ UNCHANGED <<operation, lease>>
       \/ Fail(p)
    /\ UNCHANGED <<entry, store, orphan, events>>

\* A Lake whose supervisor is gone goes on, whoever builds next.
OrphanWrites(p) ==
    /\ orphan[p] = "left"
    /\ cache' \in Compiled(p)
    /\ orphan' = [orphan EXCEPT ![p] = "ended"]
    /\ UNCHANGED <<entry, operation, store, lease, build, events>>

-----------------------------------------------------------------------------
(* Publication.                                                            *)

\* A package without a build directory is left out.  The candidate is hashed
\* and the object looked for before anything is locked.
HashCandidate(p) ==
    /\ At(p, "publish") /\ build[p].todo # <<>>
    /\ IF cache[p][Here(p)] = Nothing THEN Do(p, NextPackage(p))
       ELSE Do(p, [build[p] EXCEPT !.candidate = cache[p][Here(p)],
                     !.pc = IF HereKey(p) \in DOMAIN store THEN "wait" ELSE "copy"])
    /\ UNCHANGED <<entry, operation, cache, store, lease, orphan, events>>

\* A copy is staged, whatever the directory has by now.
Copy(p) ==
    /\ At(p, "copy")
    /\ Do(p, [build[p] EXCEPT !.staged = cache[p][Here(p)], !.pc = "acquire"])
    /\ UNCHANGED <<entry, operation, cache, store, lease, orphan, events>>

\* The lease is taken and dropped again, to wait for who publishes.
WaitForLease(p) ==
    /\ At(p, "wait") /\ HereKey(p) \notin DOMAIN lease
    /\ Goto(p, "reused")
    /\ UNCHANGED <<entry, operation, cache, store, lease, orphan, events>>

AcquireLease(p) ==
    /\ At(p, "acquire") /\ HereKey(p) \notin DOMAIN lease
    /\ lease' = With(lease, HereKey(p), p)
    /\ Goto(p, "rename")
    /\ UNCHANGED <<entry, operation, cache, store, orphan, events>>

\* After ten seconds the lease is given up.
LeaseTimesOut(p) ==
    /\ At(p, "wait") \/ At(p, "acquire")
    /\ HereKey(p) \in DOMAIN lease
    /\ Fail(p)
    /\ UNCHANGED <<entry, cache, store, orphan, events>>

\* The object is looked for again under the lease.
Rename(p) ==
    /\ At(p, "rename")
    /\ IF HereKey(p) \in DOMAIN store
       THEN /\ lease' = Without(lease, HereKey(p))
            /\ Goto(p, "reused")
            /\ UNCHANGED store
       ELSE /\ store' = With(store, HereKey(p), [bytes |-> build[p].staged,
                                               artifact |-> build[p].candidate, sealed |-> FALSE])
            /\ Goto(p, "seal")
            /\ UNCHANGED lease
    /\ UNCHANGED <<entry, operation, cache, orphan, events>>

Seal(p) ==
    /\ At(p, "seal")
    /\ store' = [store EXCEPT ![HereKey(p)].sealed = TRUE]
    /\ lease' = Without(lease, HereKey(p))
    /\ Goto(p, "published")
    /\ UNCHANGED <<entry, operation, cache, orphan, events>>

\* The object is verified against the candidate and listed.
VerifyObject(p) ==
    /\ At(p, "reused") \/ At(p, "published")
    /\ LET object == store[HereKey(p)]
           new == [source |-> SourceKey(Lock(p), Here(p)), key |-> HereKey(p),
                   artifact |-> object.artifact]
       IN  IF Verifies(object, build[p].candidate)
           THEN /\ Do(p, [NextPackage(p) EXCEPT !.pc = "publish",
                            !.listed = With(@, Here(p), new),
                            !.reuses = IF At(p, "reused") THEN @ + 1 ELSE @,
                            !.publications = IF At(p, "published") THEN @ + 1 ELSE @])
                /\ UNCHANGED <<operation, lease>>
           ELSE Fail(p)
    /\ UNCHANGED <<entry, cache, store, orphan, events>>

\* A mistake to be caught: the packages that are listed are counted as sources.
ReportOfListed(p) ==
    [generation |-> entry[p].active.generation,
     sources |-> Cardinality(DOMAIN build[p].listed),
     packages |-> build[p].listed, hits |-> build[p].hits,
     reuses |-> build[p].reuses, publications |-> build[p].publications]

Report(p) ==
    [generation |-> entry[p].active.generation,
     sources |-> Cardinality(Eligible(Lock(p))),
     packages |-> build[p].listed, hits |-> build[p].hits,
     reuses |-> build[p].reuses, publications |-> build[p].publications]

\* publish_generation_references_v1: once for a generation; later builds must
\* have the same.
PublishReferences(p) ==
    /\ At(p, "publish") /\ build[p].todo = <<>>
    /\ LET report == Report(p)
           old == entry[p].references
           new == old = Nothing \/ old.generation # report.generation
       IN  IF ReferencesAreConsistent(report) /\ (new \/ SameReferences(old, report))
           THEN /\ entry' = [entry EXCEPT ![p].references = IF new THEN report ELSE old]
                /\ Goto(p, IF p \in Runners THEN "program" ELSE "release")
                /\ UNCHANGED <<operation, lease>>
           ELSE Fail(p) /\ UNCHANGED entry
    /\ UNCHANGED <<cache, store, orphan, events>>

-----------------------------------------------------------------------------
(* The program, and the end.                                               *)

\* run_expected: whatever the program returned, the generation must be active.
RunProgram(p) ==
    /\ At(p, "program")
    /\ \/ /\ ~entry[p].record.pending /\ VerifyActive(entry[p]) /\ InputsAgree(entry[p])
          /\ Goto(p, "release") /\ UNCHANGED <<operation, lease>>
       \/ Fail(p)
    /\ UNCHANGED <<entry, cache, store, orphan, events>>

ReleaseOperation(p) ==
    /\ At(p, "release")
    /\ operation' = [operation EXCEPT ![p] = FALSE]
    /\ Goto(p, "after")
    /\ UNCHANGED <<entry, cache, store, lease, orphan, events>>

\* The registry selects what it selected before, or the call fails.
ConfirmExecution(p) ==
    /\ At(p, "after")
    /\ Do(p, IF Select(entry[p], entry[p]) = build[p].selection
             THEN [Idle EXCEPT !.pc = "built"] ELSE Idle)
    /\ UNCHANGED <<entry, operation, cache, store, lease, orphan, events>>

Again(p) ==
    /\ At(p, "built")
    /\ Do(p, Idle)
    /\ UNCHANGED <<entry, operation, cache, store, lease, orphan, events>>

-----------------------------------------------------------------------------
(* What else happens.                                                      *)

Happens == events < MaxEvents /\ events' = events + 1

\* An error, or the end of the process, anywhere.
Stop(p) ==
    /\ Happens /\ ~At(p, "idle") /\ ~At(p, "built")
    /\ Fail(p)
    /\ orphan' = [orphan EXCEPT ![p] = IF At(p, "lake") THEN "left" ELSE @]
    /\ UNCHANGED <<entry, cache, store>>

\* An editor changes the configuration of the project.
Edit(p) ==
    /\ Happens
    /\ \E c \in {"c1", "c2"} \ {entry[p].project.config} :
          entry' = [entry EXCEPT ![p].project.config = c]
    /\ UNCHANGED <<operation, cache, store, lease, build, orphan>>

\* Another process updates the project: a mark, then another generation with
\* packages that are not built.
BeginUpdate(p) ==
    /\ Happens /\ ~operation[p] /\ ~entry[p].record.pending /\ Updates[p] # {}
    /\ entry' = [entry EXCEPT ![p].record.pending = TRUE]
    /\ operation' = [operation EXCEPT ![p] = TRUE]
    /\ UNCHANGED <<cache, store, lease, build, orphan>>

EndUpdate(p) ==
    /\ operation[p] /\ entry[p].record.pending
    /\ \E e \in Updates[p] :
          /\ entry' = [entry EXCEPT ![p] = e]
          /\ cache' = [cache EXCEPT ![p] = [n \in DOMAIN e.lock.packages |-> Nothing]]
    /\ operation' = [operation EXCEPT ![p] = FALSE]
    /\ UNCHANGED <<store, lease, build, orphan, events>>

Step(p) ==
    \/ Observe(p) \/ PrepareExecution(p) \/ AcquireOperation(p) \/ BuildGate(p)
    \/ Restore(p) \/ Seed(p) \/ Lake(p) \/ OrphanWrites(p)
    \/ HashCandidate(p) \/ Copy(p) \/ WaitForLease(p) \/ AcquireLease(p) \/ LeaseTimesOut(p)
    \/ Rename(p) \/ Seal(p) \/ VerifyObject(p) \/ PublishReferences(p)
    \/ RunProgram(p) \/ ReleaseOperation(p) \/ ConfirmExecution(p) \/ Again(p)
    \/ Stop(p) \/ Edit(p) \/ BeginUpdate(p) \/ EndUpdate(p)

Next == \E p \in Builders : Step(p)

Spec == Init /\ [][Next]_vars

-----------------------------------------------------------------------------
\* What a generation refers to is there: sealed, under the key of the package,
\* with the bytes that are referred to; and when a build succeeds, these are the
\* bytes in the project's own cache, for every package that has one (if no Lake
\* was left behind by a process that stopped).  The keys
\* are shared with builds of other projects, which may make other bytes.
ReferencesHold ==
    \A p \in Builders :
        LET r == entry[p].references
        IN  r # Nothing =>
              /\ \A n \in DOMAIN r.packages :
                    /\ r.packages[n].key \in DOMAIN store
                    /\ Verifies(store[r.packages[n].key], r.packages[n].artifact)
              /\ At(p, "release") /\ orphan[p] = "no" =>
                    \A n \in Eligible(Lock(p)) :
                        IF n \in DOMAIN r.packages
                        THEN cache[p][n] = r.packages[n].artifact
                        ELSE cache[p][n] = Nothing

\* A build leaves a healthy project healthy: what it writes for the registry is
\* what the registry reads, whichever packages were restored, published, reused
\* or not built.  Only an edit or an update may change that.
BuildKeepsProjectHealthy ==
    [][\A p \in Builders :
          State(entry[p]) = "Healthy" /\ State(entry'[p]) # "Healthy" =>
              \/ entry'[p].project # entry[p].project
              \/ entry'[p].record # entry[p].record]_vars
=============================================================================
