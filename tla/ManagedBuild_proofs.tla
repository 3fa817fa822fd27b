------------------------- MODULE ManagedBuild_proofs -------------------------
(***************************************************************************)
(* Theorems about ManagedBuild, for any number of projects, any packages   *)
(* and whatever Lake compiles, stops or is left behind.                    *)
(*                                                                         *)
(* The invariant follows one project (Own): what its call has in hand at   *)
(* each point, that what is listed is in the store, and, as long as no     *)
(* Lake was left behind, that it is what its cache has.  Calls of other    *)
(* projects meet it in the store only, and the store only grows (Grows).   *)
(***************************************************************************)
EXTENDS ManagedBuild, FiniteSetTheorems, TLAPS

CallFields == {"pc", "selection", "todo", "candidate", "staged", "hits", "reuses",
               "publications", "listed"}
EntryFields == {"name", "record", "project", "active", "transaction", "metadata", "lock",
                "trees", "references"}

\* Points of a call at which it has a candidate, at which it lists packages and
\* at which it has the operation lease.
Offering == {"copy", "wait", "acquire", "rename", "seal", "reused", "published"}
Publishing == {"publish"} \cup Offering
Listing == {"program", "release"} \cup Publishing
Leased == {"gate", "restore", "lake"} \cup Listing

EntryInv(p) ==
    LET e == entry[p]
    IN  /\ DOMAIN e = EntryFields
        /\ "pending" \in DOMAIN e.record /\ "config" \in DOMAIN e.project
        /\ IsClosure(e.lock)
        /\ e.record.pending \in BOOLEAN
        /\ e.record.pending => operation[p]
        /\ DOMAIN cache[p] = Packages(p)
        /\ e.references # Nothing =>
              \A n \in DOMAIN e.references.packages :
                    /\ e.references.packages[n].key \in DOMAIN store
                    /\ Verifies(store[e.references.packages[n].key],
                                e.references.packages[n].artifact)

CallInv(p) ==
    LET b == build[p]
    IN  /\ DOMAIN b = CallFields /\ b = [f \in CallFields |-> b[f]]
        /\ b.pc \in {"idle", "select", "open", "after", "built"} \cup Leased
        /\ b.pc \in Leased => operation[p] /\ ~entry[p].record.pending
        /\ b.pc \in {"restore"} \cup Publishing => b.todo \in Seq(Eligible(Lock(p)))
        /\ b.pc \in {"select", "open", "gate", "restore", "lake"} => b.listed = <<>>
        /\ b.pc \in Offering => b.todo # <<>> /\ b.candidate # Nothing
        /\ b.pc \in {"wait", "seal", "reused", "published"} => HereKey(p) \in DOMAIN store

ListedInv(p) ==
    build[p].pc \in Listing =>
        \A n \in DOMAIN build[p].listed :
            LET l == build[p].listed[n]
            IN  /\ n \in Eligible(Lock(p)) /\ l.source = SourceKey(Lock(p), n)
                /\ l.key \in DOMAIN store /\ Verifies(store[l.key], l.artifact)

CacheInv(p) ==
    LET b == build[p]
    IN  /\ b.pc \in {"program", "release"} => entry[p].references.packages = b.listed
        /\ orphan[p] = "no" /\ b.pc \in Listing =>
              /\ b.pc \in Offering => b.candidate = cache[p][Here(p)]
              /\ \A n \in DOMAIN b.listed :
                    cache[p][n] = b.listed[n].artifact /\ cache[p][n] # Nothing
              /\ \A n \in Eligible(Lock(p)) :
                    \/ n \in DOMAIN b.listed \/ cache[p][n] = Nothing
                    \/ b.pc \in Publishing /\ n \in Range(b.todo)

Own(p) == EntryInv(p) /\ CallInv(p) /\ ListedInv(p) /\ CacheInv(p)

BInv ==
    /\ DOMAIN entry = Builders /\ operation \in [Builders -> BOOLEAN]
    /\ DOMAIN cache = Builders
    /\ DOMAIN build = Builders /\ orphan \in [Builders -> {"no", "left", "ended"}]
    /\ \A k \in DOMAIN store : DOMAIN store[k] = {"bytes", "artifact", "sealed"}
    /\ \A p \in Builders : Own(p)

\* What is published stays, whoever else builds.
Grows ==
    \A k \in DOMAIN store :
        /\ k \in DOMAIN store'
        /\ \A a : Verifies(store[k], a) => Verifies(store'[k], a)

-----------------------------------------------------------------------------
(* Operators.                                                              *)

\* Only packages of the lock have keys, and in a closure that is all Git all of
\* them do.
LEMMA EligiblePackages ==
    ASSUME NEW lock, IsClosure(lock)
    PROVE  /\ Eligible(lock) \subseteq DOMAIN lock.packages /\ IsFiniteSet(Eligible(lock))
           /\ Eligible(lock) = GitPackages(lock)
<1>1. Eligible(lock) \subseteq DOMAIN lock.packages
  BY DEF Eligible, GitPackages
<1>2. IsFiniteSet(Eligible(lock))
  BY <1>1, FS_Subset DEF IsClosure
<1>3. \A n : Below(lock, n) \subseteq DOMAIN lock.packages
  BY DEF Below
<1>4. Eligible(lock) = GitPackages(lock)
  BY <1>3 DEF Eligible, IsClosure
<1> QED
  BY <1>1, <1>2, <1>4

\* A set is listed whole.
LEMMA ListsTheSet ==
    ASSUME NEW S, IsFiniteSet(S)
    PROVE  SetToSeq(S) \in Seq(S) /\ Range(SetToSeq(S)) = S
<1> DEFINE D == 1..Cardinality(S)
<1>1. Cardinality(S) \in Nat /\ ExistsBijection(D, S)
  BY FS_CardinalityType
<1>2. PICK f : f \in [D -> S] /\ IsInjective(f)
  BY <1>1 DEF ExistsBijection, Bijection, Injection
<1>3. SetToSeq(S) \in [D -> S] /\ IsInjective(SetToSeq(S))
  BY <1>2 DEF SetToSeq
<1>4. SetToSeq(S) \in Injection(D, S)
  BY <1>3 DEF Injection
<1>5. Cardinality(D) = Cardinality(S)
  BY <1>1, FS_Interval
<1>6. SetToSeq(S) \in Surjection(D, S)
  BY <1>4, <1>5, FS_Injection
<1>7. Range(SetToSeq(S)) = S
  BY <1>3, <1>6 DEF Surjection, Range
<1> QED
  BY <1>1, <1>3, <1>7

\* What is left of a list after its head.
LEMMA HeadAndTail ==
    ASSUME NEW S, NEW s \in Seq(S), s # <<>>
    PROVE  /\ Head(s) \in S /\ Tail(s) \in Seq(S)
           /\ \A x \in Range(s) : x = Head(s) \/ x \in Range(Tail(s))
<1>1. Head(s) \in S /\ Tail(s) \in Seq(S)
  OBVIOUS
<1>2. ASSUME NEW i \in DOMAIN s, i # 1 PROVE s[i] \in Range(Tail(s))
  <2>1. i - 1 \in DOMAIN Tail(s) /\ Tail(s)[i - 1] = s[i]
    BY <1>2
  <2> QED
    BY <2>1 DEF Range
<1>3. s[1] = Head(s)
  OBVIOUS
<1> QED
  BY <1>1, <1>2, <1>3 DEF Range

-----------------------------------------------------------------------------
(* One project at a time.                                                  *)

\* What a step of one project may change: its own files and its own call, and
\* the store, which grows.
Frame(p) ==
    /\ DOMAIN entry' = Builders /\ operation' \in [Builders -> BOOLEAN]
    /\ DOMAIN cache' = Builders
    /\ DOMAIN build' = Builders /\ orphan' \in [Builders -> {"no", "left", "ended"}]
    /\ \A q \in Builders \ {p} :
          /\ entry'[q] = entry[q] /\ operation'[q] = operation[q] /\ cache'[q] = cache[q]
          /\ build'[q] = build[q] /\ orphan'[q] = orphan[q]

StoreInv == \A k \in DOMAIN store : DOMAIN store[k] = {"bytes", "artifact", "sealed"}

\* A project keeps its part of the invariant while the store grows.
LEMMA OtherProjects ==
    ASSUME NEW q \in Builders, Own(q), Grows,
           entry'[q] = entry[q], operation'[q] = operation[q], cache'[q] = cache[q],
           build'[q] = build[q], orphan'[q] = orphan[q]
    PROVE  Own(q)'
<1>1. EntryInv(q)'
  BY DEF Own, EntryInv, Grows, Packages, Lock
<1>2. CallInv(q)'
  BY DEF Own, CallInv, Grows, Lock, HereKey, Here, Key
<1>3. ListedInv(q)'
  BY DEF Own, ListedInv, Grows, Lock
<1>4. CacheInv(q)'
  BY DEF Own, CacheInv, Lock, Here
<1> QED
  BY <1>1, <1>2, <1>3, <1>4 DEF Own

LEMMA FrameInv ==
    ASSUME BInv, NEW p \in Builders, Frame(p), Grows, StoreInv', Own(p)'
    PROVE  BInv'
<1>1. ASSUME NEW q \in Builders PROVE Own(q)'
  BY <1>1, OtherProjects DEF BInv, Frame
<1> QED
  BY <1>1 DEF BInv, Frame, StoreInv

\* Where the store stays as it is, it has grown.
LEMMA StoreStays == ASSUME BInv, UNCHANGED store PROVE Grows /\ StoreInv'
BY DEF Grows, BInv, StoreInv

\* A call that ends leaves nothing behind that others could miss.
LEMMA FailInv ==
    ASSUME BInv, NEW p \in Builders, Fail(p), UNCHANGED <<entry, store>>,
           DOMAIN cache' = Builders, DOMAIN cache'[p] = DOMAIN cache[p],
           \A q \in Builders \ {p} : cache'[q] = cache[q] /\ orphan'[q] = orphan[q],
           orphan' \in [Builders -> {"no", "left", "ended"}],
           entry[p].record.pending => build[p].pc \in {"select", "open", "after"}
    PROVE  BInv'
<1>1. Frame(p)
  BY DEF BInv, Fail, Do, Frame
<1>2. build'[p] = Idle /\ operation'[p] = (operation[p] /\ build[p].pc \in {"select", "open", "after"})
  BY DEF BInv, Fail, Do
<1>3. EntryInv(p)'
  BY <1>2 DEF BInv, Own, EntryInv, Packages, Lock
<1>4. CallInv(p)' /\ ListedInv(p)' /\ CacheInv(p)'
  BY <1>2 DEF CallInv, ListedInv, CacheInv, Idle, CallFields, Leased, Listing, Publishing, Offering
<1> QED
  BY <1>1, <1>3, <1>4, StoreStays, FrameInv DEF Own

-----------------------------------------------------------------------------
(* The front door.                                                         *)

\* A step of a call that lists nothing yet, and touches caches at most.
LEMMA MoveInv ==
    ASSUME BInv, NEW p \in Builders, NEW b, Do(p, b),
           UNCHANGED <<entry, store, orphan>>,
           DOMAIN cache' = Builders, DOMAIN cache'[p] = DOMAIN cache[p],
           \A q \in Builders \ {p} : cache'[q] = cache[q],
           operation' \in [Builders -> BOOLEAN],
           \A q \in Builders \ {p} : operation'[q] = operation[q],
           entry[p].record.pending => operation'[p],
           DOMAIN b = CallFields, b = [f \in CallFields |-> b[f]],
           \/ b.pc \in {"idle", "after", "built"}
           \/ b.pc \in {"select", "open", "gate", "restore", "lake"} /\ b.listed = <<>>,
           b.pc \in {"gate", "restore", "lake"} => operation'[p] /\ ~entry[p].record.pending,
           b.pc = "restore" => b.todo \in Seq(Eligible(Lock(p)))
    PROVE  BInv'
<1>1. Frame(p)
  BY DEF BInv, Do, Frame
<1>2. build'[p] = b
  BY DEF BInv, Do
<1>3. EntryInv(p)'
  BY DEF BInv, Own, EntryInv, Packages, Lock
<1>4. CallInv(p)' /\ ListedInv(p)' /\ CacheInv(p)'
  BY <1>2 DEF CallInv, ListedInv, CacheInv, Leased, Listing, Publishing, Offering, Lock
<1> QED
  BY <1>1, <1>3, <1>4, StoreStays, FrameInv DEF Own

LEMMA ObserveInv == ASSUME BInv, NEW p \in Builders, Observe(p) PROVE BInv'
<1> DEFINE b == [Idle EXCEPT !.pc = "select", !.selection = entry[p]]
<1>1. DOMAIN b = CallFields /\ b = [f \in CallFields |-> b[f]] /\ b.pc = "select" /\ b.listed = <<>>
  BY DEF Idle, CallFields
<1> HIDE DEF b
<1>2. Do(p, b) /\ UNCHANGED <<entry, operation, cache, store, orphan>>
  BY DEF Observe, b
<1>3. operation \in [Builders -> BOOLEAN] /\ (entry[p].record.pending => operation[p])
  BY DEF BInv, Own, EntryInv
<1> QED
  BY <1>1, <1>2, <1>3, MoveInv DEF BInv

LEMMA PrepareInv == ASSUME BInv, NEW p \in Builders, PrepareExecution(p) PROVE BInv'
<1> DEFINE s == Select(build[p].selection, entry[p])
           b == IF s = Nothing THEN Idle ELSE [build[p] EXCEPT !.pc = "open", !.selection = s]
<1>1. build[p].pc = "select" /\ CallInv(p)
  BY DEF BInv, Own, PrepareExecution, At
<1> HIDE DEF s
<1>2. DOMAIN b = CallFields /\ b = [f \in CallFields |-> b[f]] /\ b.pc \in {"idle", "open"}
      /\ b.listed = <<>>
  BY <1>1 DEF CallInv, Idle, CallFields
<1> HIDE DEF b
<1>3. Do(p, b) /\ UNCHANGED <<entry, operation, cache, store, orphan>>
  BY DEF PrepareExecution, b, s
<1>4. operation \in [Builders -> BOOLEAN] /\ (entry[p].record.pending => operation[p])
  BY DEF BInv, Own, EntryInv
<1> QED
  BY <1>2, <1>3, <1>4, MoveInv DEF BInv

\* The operation lease is free only when no update is under way.
LEMMA AcquireOperationInv == ASSUME BInv, NEW p \in Builders, AcquireOperation(p) PROVE BInv'
<1> DEFINE b == IF operation[p] THEN Idle ELSE [build[p] EXCEPT !.pc = "gate"]
<1>1. build[p].pc = "open" /\ CallInv(p) /\ EntryInv(p)
  BY DEF BInv, Own, AcquireOperation, At
<1>2. DOMAIN b = CallFields /\ b = [f \in CallFields |-> b[f]] /\ b.listed = <<>>
      /\ b.pc = IF operation[p] THEN "idle" ELSE "gate"
  BY <1>1 DEF CallInv, Idle, CallFields
<1> HIDE DEF b
<1>3. Do(p, b) /\ UNCHANGED <<entry, cache, store, orphan>>
  BY DEF AcquireOperation, Goto, b
<1>4. \/ operation' = [operation EXCEPT ![p] = TRUE]
      \/ operation' = operation /\ operation[p]
  BY DEF AcquireOperation
<1>5. operation' \in [Builders -> BOOLEAN] /\ operation'[p]
      /\ \A q \in Builders \ {p} : operation'[q] = operation[q]
  BY <1>4 DEF BInv
<1>6. b.pc = "gate" => ~entry[p].record.pending
  BY <1>1, <1>2 DEF EntryInv
<1> QED
  BY <1>2, <1>3, <1>5, <1>6, MoveInv DEF BInv

LEMMA BuildGateInv == ASSUME BInv, NEW p \in Builders, BuildGate(p) PROVE BInv'
<1>1. build[p].pc = "gate" /\ CallInv(p) /\ EntryInv(p)
  BY DEF BInv, Own, BuildGate, At
<1>2. CASE Fail(p)
  <2>1. ~entry[p].record.pending
    BY <1>1 DEF CallInv, Leased
  <2> QED
    BY <1>2, <2>1, FailInv DEF BuildGate, BInv
<1>3. CASE ~Fail(p)
  <2> DEFINE b == [build[p] EXCEPT !.pc = "restore", !.todo = ReadyForPackages(p)]
  <2>1. DOMAIN b = CallFields /\ b = [f \in CallFields |-> b[f]] /\ b.pc = "restore"
        /\ b.listed = <<>> /\ b.todo = ReadyForPackages(p)
    BY <1>1 DEF CallInv, CallFields
  <2> HIDE DEF b
  <2>2. Do(p, b) /\ UNCHANGED <<entry, operation, cache, store, orphan>>
    BY <1>3 DEF BuildGate, b
  <2>3. ReadyForPackages(p) \in Seq(Eligible(Lock(p)))
    BY <1>1, EligiblePackages, ListsTheSet DEF ReadyForPackages, EntryInv, Lock
  <2>4. operation \in [Builders -> BOOLEAN] /\ operation[p] /\ ~entry[p].record.pending
    BY <1>1 DEF BInv, CallInv, Leased
  <2> QED
    BY <2>1, <2>2, <2>3, <2>4, MoveInv DEF BInv
<1> QED
  BY <1>2, <1>3

-----------------------------------------------------------------------------
(* Caches and Lake.                                                        *)

LEMMA RestoreInv == ASSUME BInv, NEW p \in Builders, Restore(p) PROVE BInv'
<1>1. build[p].pc = "restore" /\ CallInv(p) /\ build[p].todo # <<>>
  BY DEF BInv, Own, Restore, At
<1>2. build[p].listed = <<>> /\ operation[p] /\ ~entry[p].record.pending
      /\ build[p].todo \in Seq(Eligible(Lock(p)))
  BY <1>1 DEF CallInv, Leased
<1>3. Tail(build[p].todo) \in Seq(Eligible(Lock(p)))
  BY <1>1, <1>2, HeadAndTail
<1> DEFINE b == NextPackage(p)
           c == [NextPackage(p) EXCEPT !.hits = @ + 1]
<1>4. DOMAIN b = CallFields /\ b = [f \in CallFields |-> b[f]] /\ b.pc = "restore"
      /\ b.listed = <<>> /\ b.todo = Tail(build[p].todo)
  BY <1>1, <1>2 DEF CallInv, CallFields, NextPackage
<1>5. DOMAIN c = CallFields /\ c = [f \in CallFields |-> c[f]] /\ c.pc = "restore"
      /\ c.listed = <<>> /\ c.todo = Tail(build[p].todo)
  BY <1>4 DEF CallFields
<1> HIDE DEF b, c
<1>6. CASE Do(p, b) /\ UNCHANGED <<cache, operation>>
  BY <1>2, <1>3, <1>4, <1>6, MoveInv DEF BInv, Restore
<1>7. CASE Do(p, c) /\ UNCHANGED operation
           /\ \E copy : cache' = [cache EXCEPT ![p][Here(p)] = copy]
  <2>1. /\ DOMAIN cache' = Builders /\ DOMAIN cache'[p] = DOMAIN cache[p]
        /\ \A q \in Builders \ {p} : cache'[q] = cache[q]
    BY <1>7 DEF BInv
  <2> QED
    BY <1>2, <1>3, <1>5, <1>7, <2>1, MoveInv DEF BInv, Restore
<1>8. CASE Fail(p) /\ UNCHANGED cache
  BY <1>2, <1>8, FailInv DEF BInv, Restore
<1> QED
  BY <1>6, <1>7, <1>8 DEF Restore, b, c

LEMMA SeedInv == ASSUME BInv, NEW p \in Builders, Seed(p) PROVE BInv'
<1>1. build[p].pc = "restore" /\ CallInv(p) /\ EntryInv(p)
  BY DEF BInv, Own, Seed, At
<1>2. build[p].listed = <<>> /\ operation[p] /\ ~entry[p].record.pending
  BY <1>1 DEF CallInv, Leased
<1> DEFINE b == [build[p] EXCEPT !.pc = "lake"]
<1>3. DOMAIN b = CallFields /\ b = [f \in CallFields |-> b[f]] /\ b.pc = "lake" /\ b.listed = <<>>
  BY <1>1, <1>2 DEF CallInv, CallFields
<1> HIDE DEF b
<1>4. Do(p, b) /\ UNCHANGED <<entry, operation, store, orphan>>
  BY DEF Seed, Goto, b
<1>5. /\ DOMAIN cache' = Builders /\ DOMAIN cache'[p] = DOMAIN cache[p]
      /\ \A q \in Builders \ {p} : cache'[q] = cache[q]
  BY <1>1 DEF Seed, BInv, EntryInv
<1> QED
  BY <1>2, <1>3, <1>4, <1>5, MoveInv DEF BInv

\* Lake changes the caches of its own project only.
LEMMA CompiledIsOwn ==
    ASSUME BInv, NEW p \in Builders, cache' \in Compiled(p)
    PROVE  /\ DOMAIN cache' = Builders /\ DOMAIN cache'[p] = DOMAIN cache[p]
           /\ \A q \in Builders \ {p} : cache'[q] = cache[q]
<1>1. PICK made \in [Packages(p) -> UNION Range(Makes) \cup {Nothing}] :
        cache' = [cache EXCEPT ![p] = made]
  BY DEF Compiled
<1> QED
  BY <1>1 DEF BInv, Own, EntryInv

\* All packages that have keys are to be published, and none is listed yet.
LEMMA LakeInv == ASSUME BInv, NEW p \in Builders, Lake(p) PROVE BInv'
<1>1. build[p].pc = "lake" /\ CallInv(p) /\ EntryInv(p)
  BY DEF BInv, Own, Lake, At
<1>2. build[p].listed = <<>> /\ operation[p] /\ ~entry[p].record.pending
  BY <1>1 DEF CallInv, Leased
<1>3. /\ DOMAIN cache' = Builders /\ DOMAIN cache'[p] = DOMAIN cache[p]
      /\ \A q \in Builders \ {p} : cache'[q] = cache[q]
  BY CompiledIsOwn DEF Lake
<1>4. CASE Fail(p)
  BY <1>2, <1>3, <1>4, FailInv DEF Lake, BInv
<1>5. CASE ~Fail(p)
  <2> DEFINE b == [build[p] EXCEPT !.pc = "publish", !.todo = ReadyForPackages(p)]
  <2>1. DOMAIN b = CallFields /\ b = [f \in CallFields |-> b[f]] /\ b.pc = "publish"
        /\ b.listed = <<>> /\ b.todo = ReadyForPackages(p)
    BY <1>1, <1>2 DEF CallInv, CallFields
  <2> HIDE DEF b
  <2>2. Do(p, b) /\ UNCHANGED <<entry, operation, store, orphan>>
    BY <1>5 DEF Lake, b
  <2>3. ReadyForPackages(p) \in Seq(Eligible(Lock(p)))
        /\ Range(ReadyForPackages(p)) = Eligible(Lock(p))
    BY <1>1, EligiblePackages, ListsTheSet DEF ReadyForPackages, EntryInv, Lock
  <2>4. Frame(p) /\ build'[p] = b
    BY <1>3, <2>2 DEF BInv, Do, Frame
  <2>5. EntryInv(p)'
    BY <1>1, <1>3, <2>2 DEF EntryInv, Packages, Lock
  <2>6. CallInv(p)'
    BY <1>2, <2>1, <2>2, <2>3, <2>4 DEF CallInv, Leased, Listing, Publishing, Offering, Lock
  <2>7. ListedInv(p)'
    BY <2>1, <2>4 DEF ListedInv
  <2>8. CacheInv(p)'
    BY <2>1, <2>2, <2>3, <2>4 DEF CacheInv, Listing, Publishing, Offering, Lock
  <2> QED
    BY <2>2, <2>4, <2>5, <2>6, <2>7, <2>8, StoreStays, FrameInv DEF Own
<1> QED
  BY <1>4, <1>5

\* What a Lake that was left behind writes is no longer compared.
LEMMA OrphanInv == ASSUME BInv, NEW p \in Builders, OrphanWrites(p) PROVE BInv'
<1>1. /\ DOMAIN cache' = Builders /\ DOMAIN cache'[p] = DOMAIN cache[p]
      /\ \A q \in Builders \ {p} : cache'[q] = cache[q]
  BY CompiledIsOwn DEF OrphanWrites
<1>2. orphan'[p] = "ended" /\ UNCHANGED <<entry, operation, store, build>>
  BY DEF OrphanWrites, BInv
<1>3. Frame(p)
  BY <1>1, <1>2 DEF BInv, OrphanWrites, Frame
<1>4. EntryInv(p)' /\ CallInv(p)' /\ ListedInv(p)'
  BY <1>1, <1>2 DEF BInv, Own, EntryInv, CallInv, ListedInv, Packages, Lock, HereKey, Here, Key
<1>5. CacheInv(p)'
  BY <1>2 DEF BInv, Own, CacheInv
<1> QED
  BY <1>2, <1>3, <1>4, <1>5, StoreStays, FrameInv DEF Own

-----------------------------------------------------------------------------
(* Publication.                                                            *)

\* A step of a call that keeps its list and at most leaves out a package its
\* cache does not have.
LEMMA PublishMoveInv ==
    ASSUME BInv, NEW p \in Builders, NEW b, Do(p, b),
           UNCHANGED <<entry, operation, cache, orphan>>, Grows, StoreInv',
           build[p].pc \in Publishing, b.pc \in Publishing,
           DOMAIN b = CallFields, b = [f \in CallFields |-> b[f]],
           b.listed = build[p].listed, b.todo \in Seq(Eligible(Lock(p))),
           b.pc \in Offering =>
              /\ b.todo # <<>> /\ b.candidate # Nothing
              /\ orphan[p] = "no" => b.candidate = cache[p][Head(b.todo)],
           b.pc \in {"wait", "seal", "reused", "published"} =>
              Key(p, Head(b.todo)) \in DOMAIN store',
           \A n \in Range(build[p].todo) :
              n \in Range(b.todo) \/ (orphan[p] = "no" => cache[p][n] = Nothing)
    PROVE  BInv'
<1>1. Frame(p) /\ build'[p] = b
  BY DEF BInv, Do, Frame
<1>2. Own(p) /\ Lock(p)' = Lock(p)
  BY DEF BInv, Lock
<1>3. EntryInv(p)'
  BY <1>2 DEF Own, EntryInv, Packages, Lock, Grows
<1>4. CallInv(p)'
  <2>1. operation[p] /\ ~entry[p].record.pending
    BY <1>2 DEF Own, CallInv, Leased, Listing
  <2>2. b.pc \notin {"select", "open", "gate", "restore", "lake"}
    BY DEF Publishing, Offering
  <2>3. HereKey(p)' = Key(p, Head(b.todo))
    BY <1>1, <1>2 DEF HereKey, Here, Key
  <2> QED
    BY <1>1, <1>2, <2>1, <2>2, <2>3 DEF CallInv, Leased, Listing
<1>5. ListedInv(p)'
  BY <1>1, <1>2 DEF Own, ListedInv, Listing, Grows
<1>6. CacheInv(p)'
  <2>1. b.pc \notin {"program", "release"}
    BY DEF Publishing, Offering
  <2>2. Here(p)' = Head(b.todo)
    BY <1>1 DEF Here
  <2>3. build[p].pc \in Listing
    BY DEF Listing
  <2> QED
    BY <1>1, <1>2, <2>1, <2>2, <2>3 DEF Own, CacheInv
<1> QED
  BY <1>1, <1>3, <1>4, <1>5, <1>6, FrameInv DEF Own

\* A package without compiled files is left out, any other is a candidate.
LEMMA HashCandidateInv == ASSUME BInv, NEW p \in Builders, HashCandidate(p) PROVE BInv'
<1> DEFINE t == build[p].todo
           b == IF cache[p][Here(p)] = Nothing THEN NextPackage(p)
                ELSE [build[p] EXCEPT !.candidate = cache[p][Here(p)],
                        !.pc = IF HereKey(p) \in DOMAIN store THEN "wait" ELSE "copy"]
<1>1. build[p].pc = "publish" /\ CallInv(p) /\ t # <<>>
  BY DEF BInv, Own, HashCandidate, At
<1>2. t \in Seq(Eligible(Lock(p)))
  BY <1>1 DEF CallInv, Publishing
<1>3. /\ Head(t) \in Eligible(Lock(p)) /\ Tail(t) \in Seq(Eligible(Lock(p)))
      /\ \A n \in Range(t) : n = Head(t) \/ n \in Range(Tail(t))
  BY <1>1, <1>2, HeadAndTail
<1>4. Do(p, b) /\ UNCHANGED <<entry, operation, cache, store, orphan>>
  BY DEF HashCandidate
<1>5. CASE cache[p][Here(p)] = Nothing
  <2>1. /\ DOMAIN b = CallFields /\ b = [f \in CallFields |-> b[f]] /\ b.pc = "publish"
        /\ b.listed = build[p].listed /\ b.todo = Tail(t)
    BY <1>1, <1>5 DEF CallInv, CallFields, NextPackage
  <2> HIDE DEF b
  <2>2. b.pc \in Publishing /\ b.pc \notin Offering
        /\ b.pc \notin {"wait", "seal", "reused", "published"}
    BY <2>1 DEF Publishing, Offering
  <2>3. \A n \in Range(t) : n \in Range(b.todo) \/ cache[p][n] = Nothing
    BY <1>3, <1>5, <2>1 DEF Here
  <2>4. build[p].pc \in Publishing
    BY <1>1 DEF Publishing
  <2> QED
    BY <1>3, <1>4, <2>1, <2>2, <2>3, <2>4, StoreStays, PublishMoveInv
<1>6. CASE cache[p][Here(p)] # Nothing
  <2>1. /\ DOMAIN b = CallFields /\ b = [f \in CallFields |-> b[f]]
        /\ b.pc = (IF HereKey(p) \in DOMAIN store THEN "wait" ELSE "copy")
        /\ b.listed = build[p].listed /\ b.todo = t /\ b.candidate = cache[p][Here(p)]
    BY <1>1, <1>6 DEF CallInv, CallFields
  <2> HIDE DEF b
  <2>2. b.pc \in Publishing /\ (b.pc \in {"wait", "seal", "reused", "published"} =>
          Key(p, Head(b.todo)) \in DOMAIN store)
    BY <2>1 DEF Publishing, Offering, HereKey, Here
  <2>3. b.todo # <<>> /\ b.candidate # Nothing /\ b.candidate = cache[p][Head(b.todo)]
    BY <1>1, <1>6, <2>1 DEF Here
  <2>4. build[p].pc \in Publishing
    BY <1>1 DEF Publishing
  <2> QED
    BY <1>2, <1>4, <2>1, <2>2, <2>3, <2>4, StoreStays, PublishMoveInv
<1> QED
  BY <1>5, <1>6

\* A step of a call that keeps the candidate it has.
LEMMA OfferMoveInv ==
    ASSUME BInv, NEW p \in Builders, NEW pc \in Offering, NEW staged,
           Do(p, [build[p] EXCEPT !.pc = pc, !.staged = staged]),
           UNCHANGED <<entry, operation, cache, orphan>>, Grows, StoreInv',
           build[p].pc \in Offering,
           pc \in {"wait", "seal", "reused", "published"} => HereKey(p) \in DOMAIN store'
    PROVE  BInv'
<1> DEFINE b == [build[p] EXCEPT !.pc = pc, !.staged = staged]
<1>1. CallInv(p) /\ CacheInv(p)
  BY DEF BInv, Own
<1>2. /\ DOMAIN b = CallFields /\ b = [f \in CallFields |-> b[f]] /\ b.pc = pc
      /\ b.listed = build[p].listed /\ b.todo = build[p].todo
      /\ b.candidate = build[p].candidate
  BY <1>1 DEF CallInv, CallFields
<1> HIDE DEF b
<1>3. Do(p, b)
  BY DEF b
<1>4. b.pc \in Publishing /\ build[p].pc \in Publishing
  BY <1>2 DEF Publishing
<1>5. b.todo \in Seq(Eligible(Lock(p))) /\ b.todo # <<>> /\ b.candidate # Nothing
  BY <1>1, <1>2, <1>4 DEF CallInv
<1>6. orphan[p] = "no" => b.candidate = cache[p][Head(b.todo)]
  BY <1>1, <1>2, <1>4 DEF CacheInv, Listing, Here
<1>7. b.pc \in {"wait", "seal", "reused", "published"} => Key(p, Head(b.todo)) \in DOMAIN store'
  BY <1>2 DEF HereKey, Here
<1> QED
  BY <1>2, <1>3, <1>4, <1>5, <1>6, <1>7, PublishMoveInv

\* Changing the point only.
LEMMA OfferGotoInv ==
    ASSUME BInv, NEW p \in Builders, NEW pc \in Offering, Goto(p, pc),
           UNCHANGED <<entry, operation, cache, orphan>>, Grows, StoreInv',
           build[p].pc \in Offering,
           pc \in {"wait", "seal", "reused", "published"} => HereKey(p) \in DOMAIN store'
    PROVE  BInv'
<1>1. CallInv(p)
  BY DEF BInv, Own
<1>2. [build[p] EXCEPT !.pc = pc] = [build[p] EXCEPT !.pc = pc, !.staged = build[p].staged]
  BY <1>1 DEF CallInv, CallFields
<1>3. Do(p, [build[p] EXCEPT !.pc = pc, !.staged = build[p].staged])
  BY <1>2 DEF Goto
<1> QED
  BY <1>3, OfferMoveInv

LEMMA CopyInv == ASSUME BInv, NEW p \in Builders, Copy(p) PROVE BInv'
<1>1. build[p].pc = "copy" /\ CallInv(p)
  BY DEF BInv, Own, Copy, At
<1>2. [build[p] EXCEPT !.staged = cache[p][Here(p)], !.pc = "acquire"]
        = [build[p] EXCEPT !.pc = "acquire", !.staged = cache[p][Here(p)]]
  BY <1>1 DEF CallInv, CallFields
<1>3. Do(p, [build[p] EXCEPT !.pc = "acquire", !.staged = cache[p][Here(p)]])
  BY <1>2 DEF Copy
<1>4. UNCHANGED <<entry, operation, cache, store, orphan>>
  BY DEF Copy
<1>5. "acquire" \in Offering /\ build[p].pc \in Offering
  BY <1>1 DEF Offering
<1>6. Grows /\ StoreInv'
  BY <1>4, StoreStays
<1> QED
  BY <1>3, <1>4, <1>5, <1>6, OfferMoveInv

\* What was found in the store is still there.
LEMMA WaitInv == ASSUME BInv, NEW p \in Builders, WaitForLease(p) PROVE BInv'
<1>1. build[p].pc = "wait" /\ CallInv(p)
  BY DEF BInv, Own, WaitForLease, At
<1>2. Goto(p, "reused") /\ UNCHANGED <<entry, operation, cache, store, orphan>>
  BY DEF WaitForLease
<1>3. "reused" \in Offering /\ build[p].pc \in Offering
  BY <1>1 DEF Offering
<1>4. HereKey(p) \in DOMAIN store'
  BY <1>1, <1>2 DEF CallInv
<1> QED
  BY <1>2, <1>3, <1>4, StoreStays, OfferGotoInv

LEMMA AcquireLeaseInv == ASSUME BInv, NEW p \in Builders, AcquireLease(p) PROVE BInv'
<1>1. build[p].pc = "acquire"
  BY DEF AcquireLease, At
<1>2. Goto(p, "rename") /\ UNCHANGED <<entry, operation, cache, store, orphan>>
  BY DEF AcquireLease
<1>3. "rename" \in Offering /\ build[p].pc \in Offering
  BY <1>1 DEF Offering
<1> QED
  BY <1>2, <1>3, StoreStays, OfferGotoInv

\* An object appears where none was, or the one that is there is taken.
LEMMA RenameInv == ASSUME BInv, NEW p \in Builders, Rename(p) PROVE BInv'
<1>1. build[p].pc = "rename" /\ StoreInv
  BY DEF BInv, StoreInv, Rename, At
<1>2. UNCHANGED <<entry, operation, cache, orphan>> /\ build[p].pc \in Offering
      /\ "reused" \in Offering /\ "seal" \in Offering
  BY <1>1 DEF Rename, Offering
<1>3. CASE HereKey(p) \in DOMAIN store
  <2>1. Goto(p, "reused") /\ UNCHANGED store
    BY <1>3 DEF Rename
  <2> QED
    BY <1>2, <1>3, <2>1, StoreStays, OfferGotoInv
<1>4. CASE HereKey(p) \notin DOMAIN store
  <2> DEFINE object == [bytes |-> build[p].staged, artifact |-> build[p].candidate,
                        sealed |-> FALSE]
  <2>1. Goto(p, "seal") /\ store' = With(store, HereKey(p), object)
    BY <1>4 DEF Rename
  <2>2. DOMAIN object = {"bytes", "artifact", "sealed"}
    OBVIOUS
  <2> HIDE DEF object
  <2>3. /\ DOMAIN store' = DOMAIN store \cup {HereKey(p)} /\ store'[HereKey(p)] = object
        /\ \A k \in DOMAIN store : store'[k] = store[k]
    BY <1>4, <2>1 DEF With
  <2>4. Grows /\ StoreInv'
    BY <1>1, <2>2, <2>3 DEF Grows, StoreInv
  <2> QED
    BY <1>2, <2>1, <2>3, <2>4, OfferGotoInv
<1> QED
  BY <1>3, <1>4

\* Sealing changes nothing else of an object.
LEMMA SealInv == ASSUME BInv, NEW p \in Builders, Seal(p) PROVE BInv'
<1>1. build[p].pc = "seal" /\ StoreInv /\ HereKey(p) \in DOMAIN store
  BY DEF BInv, Own, CallInv, StoreInv, Seal, At
<1>2. Goto(p, "published") /\ UNCHANGED <<entry, operation, cache, orphan>>
      /\ "published" \in Offering /\ build[p].pc \in Offering
  BY <1>1 DEF Seal, Offering
<1>3. store' = [store EXCEPT ![HereKey(p)].sealed = TRUE]
  BY DEF Seal
<1>4. /\ DOMAIN store' = DOMAIN store
      /\ \A k \in DOMAIN store :
            /\ DOMAIN store'[k] = {"bytes", "artifact", "sealed"}
            /\ store'[k].bytes = store[k].bytes /\ store'[k].artifact = store[k].artifact
            /\ store[k].sealed => store'[k].sealed
  BY <1>1, <1>3 DEF StoreInv
<1>5. Grows /\ StoreInv'
  BY <1>4 DEF Grows, StoreInv, Verifies
<1> QED
  BY <1>1, <1>2, <1>4, <1>5, OfferGotoInv

LEMMA TimeoutInv == ASSUME BInv, NEW p \in Builders, LeaseTimesOut(p) PROVE BInv'
<1>1. build[p].pc \in Leased /\ CallInv(p)
  BY DEF BInv, Own, LeaseTimesOut, At, Leased, Listing, Publishing, Offering
<1>2. ~entry[p].record.pending
  BY <1>1 DEF CallInv
<1> QED
  BY <1>2, FailInv DEF LeaseTimesOut, BInv

\* What is verified is listed: it has the bytes that were hashed.
LEMMA VerifyObjectInv == ASSUME BInv, NEW p \in Builders, VerifyObject(p) PROVE BInv'
<1> DEFINE t == build[p].todo
           here == Here(p)
           key == HereKey(p)
           object == store[key]
           new == [source |-> SourceKey(Lock(p), here), key |-> key, artifact |-> object.artifact]
<1>1. build[p].pc \in {"reused", "published"} /\ CallInv(p) /\ ListedInv(p) /\ CacheInv(p)
  BY DEF BInv, Own, VerifyObject, At
<1>2. build[p].pc \in Publishing /\ build[p].pc \in Offering /\ build[p].pc \in Listing
      /\ build[p].pc \in Leased
  BY <1>1 DEF Leased, Listing, Publishing, Offering
<1>3. operation[p] /\ ~entry[p].record.pending /\ t \in Seq(Eligible(Lock(p))) /\ t # <<>>
      /\ build[p].candidate # Nothing /\ key \in DOMAIN store
  BY <1>1, <1>2 DEF CallInv
<1>4. /\ here \in Eligible(Lock(p)) /\ Tail(t) \in Seq(Eligible(Lock(p)))
      /\ \A n \in Range(t) : n = here \/ n \in Range(Tail(t))
  BY <1>3, HeadAndTail DEF Here
<1>5. UNCHANGED <<entry, cache, store, orphan>>
  BY DEF VerifyObject
<1>6. CASE Fail(p)
  BY <1>3, <1>5, <1>6, FailInv DEF BInv
<1>7. CASE ~Fail(p)
  <2> DEFINE b == [NextPackage(p) EXCEPT !.pc = "publish", !.listed = With(@, here, new),
                     !.reuses = IF At(p, "reused") THEN @ + 1 ELSE @,
                     !.publications = IF At(p, "published") THEN @ + 1 ELSE @]
  <2>1. Verifies(object, build[p].candidate) /\ Do(p, b) /\ UNCHANGED operation
    BY <1>7 DEF VerifyObject
  <2>2. object.artifact = build[p].candidate /\ Verifies(object, object.artifact)
    BY <1>3, <2>1 DEF Verifies
  <2>3. /\ DOMAIN b = CallFields /\ b = [f \in CallFields |-> b[f]] /\ b.pc = "publish"
        /\ b.listed = With(build[p].listed, here, new) /\ b.todo = Tail(t)
    BY <1>1 DEF CallInv, CallFields, NextPackage
  <2>4. new.source = SourceKey(Lock(p), here) /\ new.key = key /\ new.artifact = object.artifact
    OBVIOUS
  <2> HIDE DEF b, new
  <2>5. /\ DOMAIN b.listed = DOMAIN build[p].listed \cup {here} /\ b.listed[here] = new
        /\ \A n \in DOMAIN build[p].listed : n # here => b.listed[n] = build[p].listed[n]
    BY <2>3 DEF With
  <2>6. Frame(p) /\ build'[p] = b /\ Lock(p)' = Lock(p)
    BY <1>5, <2>1 DEF BInv, Do, Frame, Lock
  <2>7. EntryInv(p)'
    BY <1>5, <2>1 DEF BInv, Own, EntryInv, Packages, Lock
  <2>8. CallInv(p)'
    BY <1>3, <1>4, <1>5, <2>1, <2>3, <2>6 DEF CallInv, Leased, Listing, Publishing, Offering
  <2>9. ListedInv(p)'
    BY <1>1, <1>2, <1>3, <1>4, <1>5, <2>2, <2>4, <2>5, <2>6 DEF ListedInv
  <2>10. ASSUME orphan[p] = "no" PROVE CacheInv(p)'
    <3>1. new.artifact = cache[p][here] /\ cache[p][here] # Nothing
      BY <1>1, <1>2, <1>3, <2>2, <2>4, <2>10 DEF CacheInv
    <3>2. ASSUME NEW n \in DOMAIN b.listed
          PROVE  cache[p][n] = b.listed[n].artifact /\ cache[p][n] # Nothing
      BY <1>1, <1>2, <2>5, <2>10, <3>1 DEF CacheInv
    <3>3. ASSUME NEW n \in Eligible(Lock(p))
          PROVE  n \in DOMAIN b.listed \/ cache[p][n] = Nothing \/ n \in Range(b.todo)
      BY <1>1, <1>2, <1>4, <2>3, <2>5, <2>10 DEF CacheInv
    <3>4. b.pc \notin {"program", "release"} /\ b.pc \notin Offering /\ b.pc \in Publishing
      BY <2>3 DEF Offering, Publishing
    <3> QED
      BY <1>5, <2>6, <3>2, <3>3, <3>4 DEF CacheInv
  <2>11. CacheInv(p)'
    BY <1>5, <2>3, <2>6, <2>10 DEF CacheInv
  <2> QED
    BY <1>5, <2>6, <2>7, <2>8, <2>9, <2>11, StoreStays, FrameInv DEF Own
<1> QED
  BY <1>6, <1>7

\* What is written for the generation is what was listed, now or by an earlier
\* build of it.
LEMMA PublishReferencesInv ==
    ASSUME BInv, NEW p \in Builders, PublishReferences(p) PROVE BInv'
<1> DEFINE b == build[p]
           old == entry[p].references
           new == old = Nothing \/ old.generation # entry[p].active.generation
<1>1. b.pc = "publish" /\ b.todo = <<>> /\ Own(p)
  BY DEF BInv, PublishReferences, At
<1>2. b.pc \in Publishing /\ b.pc \in Listing /\ b.pc \in Leased
  BY <1>1 DEF Leased, Listing, Publishing
<1>3. operation[p] /\ ~entry[p].record.pending
  BY <1>1, <1>2 DEF Own, CallInv
<1>4. UNCHANGED <<cache, store, orphan>>
  BY DEF PublishReferences
<1>5. CASE Fail(p) /\ UNCHANGED entry
  BY <1>3, <1>4, <1>5, FailInv DEF BInv
<1>6. CASE ~(Fail(p) /\ UNCHANGED entry)
  <2> DEFINE report == Report(p)
             r == IF new THEN report ELSE old
             pc == IF p \in Runners THEN "program" ELSE "release"
             c == [b EXCEPT !.pc = pc]
  <2>1. report.packages = b.listed /\ report.generation = entry[p].active.generation
    BY DEF Report
  <2> HIDE DEF report
  <2>2. /\ entry' = [entry EXCEPT ![p].references = r] /\ Do(p, c)
        /\ UNCHANGED operation /\ (new \/ SameReferences(old, report))
    BY <1>6, <2>1 DEF PublishReferences, Goto, report
  <2>3. r.packages = b.listed
    BY <2>1, <2>2 DEF SameReferences
  <2>4. /\ DOMAIN c = CallFields /\ c = [f \in CallFields |-> c[f]] /\ c.pc \in {"program", "release"}
        /\ c.listed = b.listed
    BY <1>1 DEF Own, CallInv, CallFields
  <2> HIDE DEF c
  <2>5. DOMAIN entry[p] = EntryFields /\ DOMAIN entry = Builders
    BY <1>1 DEF BInv, Own, EntryInv
  <2> HIDE DEF r
  <2>6. /\ DOMAIN entry'[p] = EntryFields /\ entry'[p].references = r
        /\ entry'[p].record = entry[p].record /\ entry'[p].lock = entry[p].lock
        /\ entry'[p].project = entry[p].project
        /\ DOMAIN entry' = Builders /\ \A q \in Builders \ {p} : entry'[q] = entry[q]
    BY <2>2, <2>5 DEF EntryFields
  <2>7. Frame(p) /\ build'[p] = c /\ Lock(p)' = Lock(p)
    BY <1>4, <2>2, <2>6 DEF BInv, Do, Frame, Lock
  <2>8. EntryInv(p)'
    <3>1. \A n \in DOMAIN b.listed :
            b.listed[n].key \in DOMAIN store /\ Verifies(store[b.listed[n].key], b.listed[n].artifact)
      BY <1>1, <1>2 DEF Own, ListedInv
    <3> QED
      BY <1>1, <1>4, <2>2, <2>3, <2>6, <3>1 DEF Own, EntryInv, Packages, Lock
  <2>9. CallInv(p)'
    BY <1>3, <2>2, <2>4, <2>6, <2>7 DEF CallInv, Leased, Listing, Publishing, Offering
  <2>10. ListedInv(p)'
    BY <1>1, <1>2, <1>4, <2>4, <2>7 DEF Own, ListedInv
  <2>11. CacheInv(p)'
    <3>1. \A n : n \notin Range(b.todo)
      BY <1>1 DEF Range
    <3>2. c.pc \notin Offering
      BY <2>4 DEF Offering
    <3> QED
      BY <1>1, <1>2, <1>4, <2>3, <2>4, <2>6, <2>7, <3>1, <3>2 DEF Own, CacheInv
  <2> QED
    BY <1>4, <2>7, <2>8, <2>9, <2>10, <2>11, StoreStays, FrameInv DEF Own
<1> QED
  BY <1>5, <1>6

-----------------------------------------------------------------------------
(* The program, the end, and what else happens.                            *)

LEMMA RunProgramInv == ASSUME BInv, NEW p \in Builders, RunProgram(p) PROVE BInv'
<1>1. build[p].pc = "program" /\ Own(p)
  BY DEF BInv, RunProgram, At
<1>2. build[p].pc \in Listing /\ build[p].pc \in Leased
  BY <1>1 DEF Leased, Listing
<1>3. operation[p] /\ ~entry[p].record.pending
  BY <1>1, <1>2 DEF Own, CallInv
<1>4. UNCHANGED <<entry, cache, store, orphan>>
  BY DEF RunProgram
<1>5. CASE Fail(p)
  BY <1>3, <1>4, <1>5, FailInv DEF BInv
<1>6. CASE ~Fail(p)
  <2> DEFINE c == [build[p] EXCEPT !.pc = "release"]
  <2>1. DOMAIN c = CallFields /\ c = [f \in CallFields |-> c[f]] /\ c.pc = "release"
        /\ c.listed = build[p].listed
    BY <1>1 DEF Own, CallInv, CallFields
  <2> HIDE DEF c
  <2>2. Do(p, c) /\ UNCHANGED operation
    BY <1>6 DEF RunProgram, Goto, c
  <2>3. Frame(p) /\ build'[p] = c /\ Lock(p)' = Lock(p)
    BY <1>4, <2>2 DEF BInv, Do, Frame, Lock
  <2>4. EntryInv(p)'
    BY <1>1, <1>4, <2>2 DEF Own, EntryInv, Packages, Lock
  <2>5. CallInv(p)'
    BY <1>3, <1>4, <2>1, <2>2, <2>3 DEF CallInv, Leased, Listing, Publishing, Offering
  <2>6. ListedInv(p)'
    BY <1>1, <1>2, <1>4, <2>1, <2>3 DEF Own, ListedInv
  <2>7. CacheInv(p)'
    BY <1>1, <1>2, <1>4, <2>1, <2>3 DEF Own, CacheInv, Publishing, Offering
  <2> QED
    BY <1>4, <2>3, <2>4, <2>5, <2>6, <2>7, StoreStays, FrameInv DEF Own
<1> QED
  BY <1>5, <1>6

LEMMA ReleaseOperationInv == ASSUME BInv, NEW p \in Builders, ReleaseOperation(p) PROVE BInv'
<1> DEFINE b == [build[p] EXCEPT !.pc = "after"]
<1>1. build[p].pc = "release" /\ CallInv(p)
  BY DEF BInv, Own, ReleaseOperation, At
<1>2. ~entry[p].record.pending
  BY <1>1 DEF CallInv, Leased, Listing
<1>3. DOMAIN b = CallFields /\ b = [f \in CallFields |-> b[f]] /\ b.pc = "after"
  BY <1>1 DEF CallInv, CallFields
<1> HIDE DEF b
<1>4. Do(p, b) /\ UNCHANGED <<entry, cache, store, orphan>>
      /\ operation' = [operation EXCEPT ![p] = FALSE]
  BY DEF ReleaseOperation, Goto, b
<1>5. operation' \in [Builders -> BOOLEAN]
      /\ \A q \in Builders \ {p} : operation'[q] = operation[q]
  BY <1>4 DEF BInv
<1> QED
  BY <1>2, <1>3, <1>4, <1>5, MoveInv DEF BInv

\* The last two steps of a call have nothing in hand but the result.
LEMMA EndInv ==
    ASSUME BInv, NEW p \in Builders, ConfirmExecution(p) \/ Again(p)
    PROVE  BInv'
<1>1. PICK pc \in {"built", "idle"} : Do(p, [Idle EXCEPT !.pc = pc])
  <2>1. Idle = [Idle EXCEPT !.pc = "idle"]
    BY DEF Idle
  <2> QED
    BY <2>1 DEF ConfirmExecution, Again
<1> DEFINE b == [Idle EXCEPT !.pc = pc]
<1>2. DOMAIN b = CallFields /\ b = [f \in CallFields |-> b[f]] /\ b.pc = pc
  BY DEF Idle, CallFields
<1> HIDE DEF b
<1>3. Do(p, b) /\ UNCHANGED <<entry, operation, cache, store, orphan>>
  BY <1>1 DEF ConfirmExecution, Again, b
<1>4. operation \in [Builders -> BOOLEAN] /\ (entry[p].record.pending => operation[p])
  BY DEF BInv, Own, EntryInv
<1> QED
  BY <1>2, <1>3, <1>4, MoveInv DEF BInv

\* A call that stops has the lease, or has not taken it yet.
LEMMA StopInv == ASSUME BInv, NEW p \in Builders, Stop(p) PROVE BInv'
<1>1. CallInv(p) /\ build[p].pc \notin {"idle", "built"}
  BY DEF BInv, Own, Stop, At
<1>2. entry[p].record.pending => build[p].pc \in {"select", "open", "after"}
  BY <1>1 DEF CallInv
<1>3. /\ orphan' \in [Builders -> {"no", "left", "ended"}]
      /\ \A q \in Builders \ {p} : orphan'[q] = orphan[q]
  BY DEF Stop, BInv
<1> QED
  BY <1>2, <1>3, FailInv DEF Stop, BInv

\* What an editor changes is not what a build relies on.
LEMMA EditInv == ASSUME BInv, NEW p \in Builders, Edit(p) PROVE BInv'
<1>1. Own(p) /\ DOMAIN entry[p] = EntryFields /\ DOMAIN entry = Builders
      /\ "config" \in DOMAIN entry[p].project
  BY DEF BInv, Own, EntryInv
<1>2. UNCHANGED <<operation, cache, store, build, orphan>>
  BY DEF Edit
<1>3. PICK c : entry' = [entry EXCEPT ![p].project.config = c]
  BY DEF Edit
<1>4. /\ DOMAIN entry'[p] = EntryFields /\ DOMAIN entry' = Builders
      /\ entry'[p].references = entry[p].references
      /\ entry'[p].record = entry[p].record /\ entry'[p].lock = entry[p].lock
      /\ "config" \in DOMAIN entry'[p].project
      /\ \A q \in Builders \ {p} : entry'[q] = entry[q]
  BY <1>1, <1>3 DEF EntryFields
<1>5. Frame(p) /\ Lock(p)' = Lock(p)
  BY <1>2, <1>4 DEF BInv, Frame, Lock
<1>6. EntryInv(p)'
  BY <1>1, <1>2, <1>4 DEF Own, EntryInv, Packages, Lock
<1>7. CallInv(p)' /\ ListedInv(p)' /\ CacheInv(p)'
  BY <1>1, <1>2, <1>4, <1>5 DEF Own, CallInv, ListedInv, CacheInv, HereKey, Here, Key
<1> QED
  BY <1>2, <1>5, <1>6, <1>7, StoreStays, FrameInv DEF Own

\* An update takes the lease that a build would need.
LEMMA BeginUpdateInv == ASSUME BInv, NEW p \in Builders, BeginUpdate(p) PROVE BInv'
<1>1. Own(p) /\ DOMAIN entry[p] = EntryFields /\ DOMAIN entry = Builders
      /\ "pending" \in DOMAIN entry[p].record
  BY DEF BInv, Own, EntryInv
<1>2. UNCHANGED <<cache, store, build, orphan>> /\ ~operation[p]
      /\ entry' = [entry EXCEPT ![p].record.pending = TRUE]
      /\ operation' = [operation EXCEPT ![p] = TRUE]
  BY DEF BeginUpdate
<1>3. /\ DOMAIN entry'[p] = EntryFields /\ DOMAIN entry' = Builders
      /\ entry'[p].references = entry[p].references /\ entry'[p].lock = entry[p].lock
      /\ "pending" \in DOMAIN entry'[p].record /\ entry'[p].record.pending = TRUE
      /\ entry'[p].project = entry[p].project
      /\ \A q \in Builders \ {p} : entry'[q] = entry[q]
  BY <1>1, <1>2 DEF EntryFields
<1>4. Frame(p) /\ operation'[p] /\ Lock(p)' = Lock(p)
  BY <1>2, <1>3 DEF BInv, Frame, Lock
<1>5. EntryInv(p)'
  BY <1>1, <1>2, <1>3, <1>4 DEF Own, EntryInv, Packages, Lock
<1>6. build[p].pc \notin Leased
  BY <1>1, <1>2 DEF Own, CallInv
<1>7. CallInv(p)' /\ ListedInv(p)' /\ CacheInv(p)'
  BY <1>1, <1>2, <1>6 DEF Own, CallInv, ListedInv, CacheInv, Leased, Listing, Publishing, Offering
<1> QED
  BY <1>2, <1>4, <1>5, <1>7, StoreStays, FrameInv DEF Own

\* What an update leaves is not built, and no build of the project is under way.
LEMMA EndUpdateInv == ASSUME BInv, NEW p \in Builders, EndUpdate(p) PROVE BInv'
<1>1. Own(p) /\ DOMAIN entry = Builders /\ operation[p] /\ entry[p].record.pending
  BY DEF BInv, EndUpdate
<1>2. PICK e \in Updates[p] :
        /\ entry' = [entry EXCEPT ![p] = e]
        /\ cache' = [cache EXCEPT ![p] = [n \in DOMAIN e.lock.packages |-> Nothing]]
  BY DEF EndUpdate
<1>3. UNCHANGED <<store, build, orphan>> /\ operation' = [operation EXCEPT ![p] = FALSE]
  BY DEF EndUpdate
<1>4. IsUnbuilt(e)
  BY EntriesAssumption
<1>5. /\ entry'[p] = e /\ cache'[p] = [n \in DOMAIN e.lock.packages |-> Nothing]
      /\ ~operation'[p] /\ Frame(p)
  BY <1>2, <1>3 DEF BInv, Frame
<1>6. EntryInv(p)'
  BY <1>4, <1>5 DEF EntryInv, IsUnbuilt, EntryFields, Packages, Lock
<1>7. build[p].pc \notin Leased
  BY <1>1 DEF Own, CallInv
<1>8. CallInv(p)' /\ ListedInv(p)' /\ CacheInv(p)'
  BY <1>1, <1>3, <1>7 DEF Own, CallInv, ListedInv, CacheInv, Leased, Listing, Publishing, Offering
<1> QED
  BY <1>3, <1>5, <1>6, <1>8, StoreStays, FrameInv DEF Own

-----------------------------------------------------------------------------
(* The theorems.                                                           *)

LEMMA InitInv == Init => BInv
<1> SUFFICES ASSUME Init PROVE BInv
  OBVIOUS
<1>1. ASSUME NEW p \in Builders PROVE Own(p)
  <2>1. entry[p] = Entries[p] /\ IsUnbuilt(Entries[p]) /\ build[p] = Idle
        /\ cache[p] = [n \in DOMAIN Entries[p].lock.packages |-> Nothing]
    BY EntriesAssumption DEF Init
  <2>2. EntryInv(p)
    BY <2>1 DEF EntryInv, IsUnbuilt, EntryFields, Packages, Lock
  <2>3. CallInv(p) /\ ListedInv(p) /\ CacheInv(p)
    BY <2>1 DEF CallInv, ListedInv, CacheInv, Idle, CallFields, Leased, Listing, Publishing, Offering
  <2> QED
    BY <2>2, <2>3 DEF Own
<1> QED
  BY <1>1, EntriesAssumption DEF BInv, Init

LEMMA NextInv == BInv /\ [Next]_vars => BInv'
<1> SUFFICES ASSUME BInv, [Next]_vars PROVE BInv'
  OBVIOUS
<1>1. CASE UNCHANGED vars
  BY <1>1 DEF vars, BInv, Own, EntryInv, CallInv, ListedInv, CacheInv, Packages, Lock, HereKey,
              Here, Key
<1>2. CASE Next
  <2> PICK p \in Builders : Step(p)
    BY <1>2 DEF Next
  <2> QED
    BY ObserveInv, PrepareInv, AcquireOperationInv, BuildGateInv, RestoreInv, SeedInv, LakeInv,
       OrphanInv, HashCandidateInv, CopyInv, WaitInv, AcquireLeaseInv, TimeoutInv, RenameInv,
       SealInv, VerifyObjectInv, PublishReferencesInv, RunProgramInv, ReleaseOperationInv,
       EndInv, StopInv, EditInv, BeginUpdateInv, EndUpdateInv DEF Step
<1> QED
  BY <1>1, <1>2

LEMMA BuildInvariant == Spec => []BInv
BY InitInv, NextInv, PTL DEF Spec

\* What a build wrote for a generation is in the store, sealed and with the bytes
\* it is listed with, whatever other projects publish under the same keys, and
\* when the build ends it is what its own cache has
\* (publish_generation_references_v1, PackageArtifactStoreV1::publish).
THEOREM ReferencesStay == Spec => []ReferencesHold
<1>1. BInv => ReferencesHold
  <2> SUFFICES ASSUME BInv, NEW p \in Builders, entry[p].references # Nothing
               PROVE  LET r == entry[p].references
                      IN  /\ \A n \in DOMAIN r.packages :
                                /\ r.packages[n].key \in DOMAIN store
                                /\ Verifies(store[r.packages[n].key], r.packages[n].artifact)
                          /\ At(p, "release") /\ orphan[p] = "no" =>
                                \A n \in Eligible(Lock(p)) :
                                    IF n \in DOMAIN r.packages
                                    THEN cache[p][n] = r.packages[n].artifact
                                    ELSE cache[p][n] = Nothing
    BY DEF ReferencesHold
  <2>1. EntryInv(p) /\ CacheInv(p)
    BY DEF BInv, Own
  <2> QED
    BY <2>1 DEF EntryInv, CacheInv, At, Listing, Publishing, Offering
<1> QED
  BY <1>1, BuildInvariant, PTL

\* References that a build writes are references the registry accepts: only
\* packages of the lock are listed, and in a closure every Git package counts.
LEMMA ReferencesAreAccepted ==
    ASSUME BInv, NEW p \in Builders, PublishReferences(p), State(entry[p]) = "Healthy"
    PROVE  State(entry'[p]) = "Healthy"
<1> DEFINE e == entry[p]
           f == entry'[p]
           report == Report(p)
<1>0. SUFFICES ASSUME f # e PROVE State(f) = "Healthy"
  OBVIOUS
<1>1. build[p].pc = "publish" /\ Own(p)
  BY DEF BInv, PublishReferences, At
<1>2. build[p].pc \in Listing
  BY <1>1 DEF Listing, Publishing
<1>3. DOMAIN e = EntryFields /\ DOMAIN entry = Builders /\ IsClosure(e.lock)
  BY <1>1 DEF BInv, Own, EntryInv
<1>4. PICK r : /\ f = [e EXCEPT !.references = r]
               /\ \/ r = e.references
                  \/ r = report /\ ReferencesAreConsistent(report)
  <2>1. PICK r : /\ entry' = [entry EXCEPT ![p].references = r]
                 /\ \/ r = e.references
                    \/ r = report /\ ReferencesAreConsistent(report)
    BY <1>0 DEF PublishReferences
  <2> QED
    BY <1>3, <2>1
<1>5. /\ report.packages = build[p].listed /\ report.sources = Cardinality(Eligible(Lock(p)))
  BY DEF Report
<1> HIDE DEF report
<1>6. /\ f.references = r
      /\ f.name = e.name /\ f.record = e.record /\ f.project = e.project
      /\ f.active = e.active /\ f.transaction = e.transaction
      /\ f.metadata = e.metadata /\ f.lock = e.lock /\ f.trees = e.trees
  BY <1>3, <1>4 DEF EntryFields
<1>7. report.sources = Cardinality(GitPackages(e.lock)) /\ Eligible(e.lock) = GitPackages(e.lock)
  BY <1>3, <1>5, EligiblePackages DEF Lock
<1>8. \A n \in DOMAIN report.packages :
        /\ n \in GitPackages(e.lock)
        /\ report.packages[n].source = SourceKey(e.lock, n)
  BY <1>1, <1>2, <1>5, <1>7 DEF Own, ListedInv, Lock
<1> HIDE DEF f, e
<1>9. State(e) = "Healthy"
  BY DEF e
<1>10. ReferencesAgree(e)
  BY <1>9 DEF State
<1>11. ReferencesAgree(f)
  <2>1. CASE r = e.references
    BY <1>6, <1>10, <2>1 DEF ReferencesAgree
  <2>2. CASE r = report /\ ReferencesAreConsistent(report)
    BY <1>6, <1>7, <1>8, <2>2 DEF ReferencesAgree, Summary
  <2> QED
    BY <1>4, <2>1, <2>2
<1>12. ActiveAgrees(f) <=> ActiveAgrees(e)
  BY <1>6 DEF ActiveAgrees, TransactionIsPublished
<1>13. MetadataAgrees(f) <=> MetadataAgrees(e)
  BY <1>6 DEF MetadataAgrees
<1>14. (InputsAgree(f) <=> InputsAgree(e)) /\ (FilesAgree(f) <=> FilesAgree(e))
  BY <1>6 DEF InputsAgree, FilesAgree, SourceAgrees
<1>15. VerifyRegisteredGeneration(f) = VerifyRegisteredGeneration(e)
  BY <1>6, <1>12, <1>13, <1>14 DEF VerifyRegisteredGeneration
<1> QED
  BY <1>6, <1>9, <1>11, <1>15 DEF State, f

\* A step of any other kind leaves the entries alone, or is an edit or an update.
LEMMA OtherSteps ==
    ASSUME BInv, NEW p \in Builders, Step(p), ~PublishReferences(p), NEW q \in Builders
    PROVE  \/ entry'[q] = entry[q]
           \/ entry'[q].project # entry[q].project
           \/ entry'[q].record # entry[q].record
<1>1. DOMAIN entry = Builders /\ EntryInv(p)
  BY DEF BInv, Own
<1>2. CASE UNCHANGED entry
  BY <1>2
<1>3. CASE Edit(p)
  <2>1. PICK c : c # entry[p].project.config /\ entry' = [entry EXCEPT ![p].project.config = c]
    BY <1>3 DEF Edit
  <2> QED
    BY <1>1, <2>1 DEF EntryInv, EntryFields
<1>4. CASE BeginUpdate(p)
  BY <1>1, <1>4 DEF BeginUpdate, EntryInv, EntryFields
<1>5. CASE EndUpdate(p)
  <2>1. PICK e \in Updates[p] : entry' = [entry EXCEPT ![p] = e]
    BY <1>5 DEF EndUpdate
  <2>2. IsUnbuilt(e) /\ entry[p].record.pending
    BY <1>5, EntriesAssumption DEF EndUpdate
  <2> QED
    BY <1>1, <2>1, <2>2 DEF IsUnbuilt
<1> QED
  BY <1>2, <1>3, <1>4, <1>5
  DEF Step, Observe, PrepareExecution, AcquireOperation, BuildGate, Restore, Seed, Lake,
      OrphanWrites, HashCandidate, Copy, WaitForLease, AcquireLease, LeaseTimesOut, Rename, Seal,
      VerifyObject, RunProgram, ReleaseOperation, ConfirmExecution, Again, Stop

\* A build does not make a healthy project unhealthy, in whatever state of the
\* store and whichever packages it restored, published or left out (what
\* publish_generation_references_v1 writes is what inspect_registry_entry reads).
THEOREM BuildsKeepHealth == Spec => BuildKeepsProjectHealthy
<1>1. BInv /\ [Next]_vars =>
        [\A p \in Builders :
            State(entry[p]) = "Healthy" /\ State(entry'[p]) # "Healthy" =>
                \/ entry'[p].project # entry[p].project
                \/ entry'[p].record # entry[p].record]_vars
  <2> SUFFICES ASSUME BInv, Next, NEW q \in Builders, State(entry[q]) = "Healthy",
                      State(entry'[q]) # "Healthy"
               PROVE  \/ entry'[q].project # entry[q].project
                      \/ entry'[q].record # entry[q].record
    BY DEF vars
  <2>1. PICK p \in Builders : Step(p)
    BY DEF Next
  <2>2. CASE PublishReferences(p)
    <3>1. q # p
      BY <2>2, ReferencesAreAccepted
    <3>2. entry'[q] = entry[q]
      BY <2>2, <3>1 DEF PublishReferences, BInv
    <3> QED
      BY <3>2
  <2>3. CASE ~PublishReferences(p)
    <3>1. entry'[q] # entry[q]
      OBVIOUS
    <3> QED
      BY <2>1, <2>3, <3>1, OtherSteps
  <2> QED
    BY <2>2, <2>3
<1> QED
  BY <1>1, BuildInvariant, PTL DEF Spec, BuildKeepsProjectHealthy

=============================================================================
